---------------------------- MODULE EditorProofs ----------------------------
(***************************************************************************)
(* Theorems about Editor, for every set of keys, every size of the buffer  *)
(* and every history: the line fits the buffer, the cursor stands between  *)
(* characters, and the terminal shows it where it is.                      *)
(***************************************************************************)
EXTENDS Editor, SequenceTheorems, FiniteSetTheorems, WellFoundedInduction, TLAPS

(***************************************************************************)
(* Least and greatest places.                                              *)
(***************************************************************************)
LEMMA Least ==
    ASSUME NEW S \in SUBSET Nat, S # {}
    PROVE  \E x \in S : \A y \in S : x =< y
<1>1. PICK x \in S : \A y \in S : ~(<<y, x>> \in OpToRel(<, Nat))
  BY NatLessThanWellFounded, WFMin
<1>2. \A y \in S : ~(y < x)
  BY <1>1 DEF OpToRel
<1>3. QED
  BY <1>2

LEMMA MinIs ==
    ASSUME NEW S \in SUBSET Nat, S # {}
    PROVE  Min(S) \in S /\ \A y \in S : Min(S) =< y
<1>1. \E x \in S : \A y \in S : x =< y
  BY Least
<1>2. QED
  BY <1>1 DEF Min

LEMMA MaxIs ==
    ASSUME NEW n \in Nat, NEW S \in SUBSET (0..n), S # {}
    PROVE  Max(S) \in S /\ \A y \in S : y =< Max(S)
<1> DEFINE D == {n - y : y \in S}
<1>1. D \in SUBSET Nat /\ D # {}
  <2>1. \A y \in S : n - y \in Nat
    OBVIOUS
  <2>2. QED
    BY <2>1
<1>2. PICK d \in D : \A e \in D : d =< e
  BY <1>1, Least
<1>3. PICK x \in S : d = n - x
  OBVIOUS
<1>4. \A y \in S : y =< x
  BY <1>2, <1>3
<1>5. \E z \in S : \A y \in S : z >= y
  BY <1>4
<1>6. Max(S) \in S /\ \A y \in S : Max(S) >= y
  BY <1>5 DEF Max
<1>7. QED
  BY <1>6

LEMMA MaxOfTwo ==
    ASSUME NEW x \in Int
    PROVE  Max({0, x}) = IF x >= 0 THEN x ELSE 0
<1>1. \E z \in {0, x} : \A y \in {0, x} : z >= y
  OBVIOUS
<1>2. Max({0, x}) \in {0, x} /\ \A y \in {0, x} : Max({0, x}) >= y
  BY <1>1 DEF Max
<1>3. QED
  BY <1>2


(***************************************************************************)
(* The invariant.                                                          *)
(***************************************************************************)
\* A byte that the next one of its character may follow.
Piece == {"lead2", "lead3", "cont"}

\* No byte that continues a character is without one to continue.
WellFormed(l) == \A k \in 1..Len(l) : l[k] = "cont" => k > 1 /\ l[k - 1] \in Piece

Clean(l) == \A k \in 1..Len(l) : l[k] # "rubout"

\* Boundary, of any line.
StandsIn(l, p) == p = 0 \/ p = Len(l) \/ l[p + 1] # "cont"

\* Inside what is not read no character is without its beginning.
InnerInv == \A k \in 2..Len(stream) : stream[k] = "cont" => stream[k - 1] \in Piece

\* When what is not read begins inside a character, its beginning is before the
\* cursor or had no room either.
HeadInv ==
    /\ stream # <<>> /\ stream[1] = "cont"
    /\ mode = "edit" /\ "swallowed" \notin spoilt
    => Len(buf) = Size - 1 \/ (cursor > 0 /\ buf[cursor] \in Piece)

LineInv == "swallowed" \notin spoilt => WellFormed(buf) /\ Boundary(cursor)

ColumnInv ==
    /\ spoilt \cap {"swallowed", "rubout"} = {} =>
        Clean(buf) /\ column = CellsBefore(buf, cursor)
    /\ buf = <<>> => column = 0
    /\ mode = "out" => buf = <<>>

\* The history was typed here: its lines are whole characters, and none has the
\* 127 that Backspace types at the start of a line.
PastWhole == \A l \in Past : WellFormed(l) /\ Clean(l)

(***************************************************************************)
(* Places of a line.                                                       *)
(***************************************************************************)
LEMMA SeqTypes ==
    ASSUME NEW S, NEW l \in Seq(S)
    PROVE  Len(l) \in Nat /\ \A k \in 1..Len(l) : l[k] \in S
  BY ElementOfSeq, LenProperties

LEMMA PreviousIs ==
    ASSUME buf \in Seq(Stored), cursor \in 1..Len(buf)
    PROVE  /\ Previous(cursor) \in 0..(cursor - 1)
           /\ Boundary(Previous(cursor))
           /\ \A q \in (Previous(cursor) + 1)..(cursor - 1) : ~Boundary(q)
<1> DEFINE S == {q \in 0..(cursor - 1) : Boundary(q)}
<1>1. Len(buf) \in Nat
  BY SeqTypes
<1>2. cursor - 1 \in Nat /\ S \in SUBSET (0..(cursor - 1)) /\ 0 \in S
  BY <1>1 DEF Boundary
<1>3. Max(S) \in S /\ \A y \in S : y =< Max(S)
  BY <1>2, MaxIs
<1>4. Previous(cursor) = Max(S)
  BY DEF Previous
<1>5. ASSUME NEW q \in (Max(S) + 1)..(cursor - 1) PROVE ~Boundary(q)
  BY <1>1, <1>3
<1> HIDE DEF S
<1>6. QED
  BY <1>3, <1>4, <1>5 DEF S

LEMMA FollowingIs ==
    ASSUME buf \in Seq(Stored), cursor \in 0..Len(buf), cursor < Len(buf)
    PROVE  /\ Following(cursor) \in (cursor + 1)..Len(buf)
           /\ Boundary(Following(cursor))
           /\ \A q \in (cursor + 1)..(Following(cursor) - 1) : ~Boundary(q)
<1> DEFINE S == {q \in (cursor + 1)..Len(buf) : Boundary(q)}
<1>1. Len(buf) \in Nat
  BY SeqTypes
<1>2. S \in SUBSET Nat /\ Len(buf) \in S
  BY <1>1 DEF Boundary
<1>3. Min(S) \in S /\ \A y \in S : Min(S) =< y
  BY <1>2, MinIs
<1>4. Following(cursor) = Min(S)
  BY DEF Following
<1>5. ASSUME NEW q \in (cursor + 1)..(Min(S) - 1) PROVE ~Boundary(q)
  BY <1>1, <1>3
<1> HIDE DEF S
<1>6. QED
  BY <1>3, <1>4, <1>5 DEF S

\* No byte lies between a place and itself.
LEMMA NothingBetween ==
    ASSUME NEW p \in Int
    PROVE  OnlySpaces(p, p) /\ NoSpace(p, p)
<1>1. (p + 1)..p = {}
  OBVIOUS
<1>2. QED
  BY <1>1 DEF OnlySpaces, NoSpace

\* Words begin and end between characters.
LEMMA WordLeftIs ==
    ASSUME buf \in Seq(Stored), cursor \in 0..Len(buf)
    PROVE  /\ WordLeft(cursor) \in 0..cursor
           /\ WellFormed(buf) /\ Boundary(cursor) => Boundary(WordLeft(cursor))
<1>1. Len(buf) \in Nat /\ cursor \in Nat /\ cursor =< Len(buf)
  BY SeqTypes
<1> DEFINE S == {q \in 0..cursor : OnlySpaces(q, cursor)}
<1>2. S \in SUBSET Nat /\ cursor \in S
  BY <1>1, NothingBetween
<1>3. PICK s : s = Min(S)
  OBVIOUS
<1>4. s \in 0..cursor /\ OnlySpaces(s, cursor)
  BY <1>2, <1>3, MinIs
<1> DEFINE T == {q \in 0..s : NoSpace(q, s)}
<1>5. T \in SUBSET Nat /\ s \in T
  BY <1>1, <1>4, NothingBetween
<1>6. PICK w : w = Min(T)
  OBVIOUS
<1>7. w \in T /\ \A y \in T : w =< y
  BY <1>5, <1>6, MinIs
<1>8. w \in 0..s /\ NoSpace(w, s)
  BY <1>7
<1>9. WordLeft(cursor) = w
  BY <1>3, <1>6 DEF WordLeft
<1>10. ASSUME WellFormed(buf), Boundary(cursor) PROVE Boundary(w)
  <2>1. CASE w = s
    <3>1. CASE s = cursor
      BY <1>10, <2>1, <3>1
    <3>2. CASE s < cursor
      <4>1. s + 1 \in (s + 1)..cursor
        BY <1>1, <1>4, <3>2
      <4>2. buf[s + 1] = " "
        BY <1>4, <4>1 DEF OnlySpaces
      <4>3. QED
        BY <2>1, <4>2 DEF Boundary
    <3>3. QED
      BY <1>1, <1>4, <3>1, <3>2
  <2>2. CASE w # s /\ w # 0
    <3>1. w - 1 \in 0..s /\ w \in 1..Len(buf) /\ w + 1 \in 1..Len(buf)
      BY <1>1, <1>4, <1>8, <2>2
    <3>2. ~(w =< w - 1)
      BY <1>1, <1>4, <1>8
    <3>3. ~NoSpace(w - 1, s)
      BY <1>7, <3>1, <3>2
    <3>4. PICK k \in ((w - 1) + 1)..s : buf[k] = " "
      BY <3>3 DEF NoSpace
    <3>5. k \notin (w + 1)..s
      BY <1>8, <3>4 DEF NoSpace
    <3>6. k = w
      <4>1. w \in Int /\ s \in Int /\ (w - 1) + 1 = w
        BY <1>1, <1>4, <1>8
      <4>2. k \in Int /\ w =< k /\ k =< s
        BY <4>1
      <4>3. ~(w + 1 =< k)
        BY <3>5, <4>1, <4>2
      <4>4. QED
        BY <4>1, <4>2, <4>3
    <3>7. buf[w + 1] = "cont" => buf[(w + 1) - 1] \in Piece
      BY <1>10, <3>1 DEF WellFormed
    <3>8. (w + 1) - 1 = w
      BY <3>1
    <3>9. buf[w + 1] # "cont"
      BY <3>4, <3>6, <3>7, <3>8 DEF Piece
    <3>10. QED
      BY <3>9 DEF Boundary
  <2>3. QED
    BY <2>1, <2>2 DEF Boundary
<1>11. QED
  BY <1>1, <1>4, <1>8, <1>9, <1>10

LEMMA WordRightIs ==
    ASSUME buf \in Seq(Stored), cursor \in 0..Len(buf)
    PROVE  /\ WordRight(cursor) \in cursor..Len(buf)
           /\ WellFormed(buf) => Boundary(WordRight(cursor))
<1>1. Len(buf) \in Nat /\ cursor \in Nat /\ cursor =< Len(buf)
  BY SeqTypes
<1> DEFINE S == {q \in cursor..Len(buf) : NoSpace(cursor, q)}
<1>2. S \in SUBSET (0..Len(buf)) /\ cursor \in S
  BY <1>1, NothingBetween
<1>3. PICK s : s = Max(S)
  OBVIOUS
<1>4. s \in S /\ \A y \in S : y =< s
  BY <1>1, <1>2, <1>3, MaxIs
<1>5. s \in cursor..Len(buf) /\ NoSpace(cursor, s)
  BY <1>4
<1> DEFINE T == {q \in s..Len(buf) : OnlySpaces(s, q)}
<1>6. T \in SUBSET (0..Len(buf)) /\ s \in T
  BY <1>1, <1>5, NothingBetween
<1>7. PICK w : w = Max(T)
  OBVIOUS
<1>8. w \in T
  BY <1>1, <1>6, <1>7, MaxIs
<1>9. w \in s..Len(buf) /\ OnlySpaces(s, w)
  BY <1>8
<1>10. WordRight(cursor) = w
  BY <1>3, <1>7 DEF WordRight
<1>11. ASSUME WellFormed(buf) PROVE Boundary(w)
  <2>1. CASE w = Len(buf)
    BY <2>1 DEF Boundary
  <2>2. CASE w < Len(buf) /\ w = s
    <3>1. s + 1 \in cursor..Len(buf) /\ ~(s + 1 =< s)
      BY <1>1, <1>5, <2>2
    <3>2. ~NoSpace(cursor, s + 1)
      BY <1>4, <3>1
    <3>3. PICK k \in (cursor + 1)..(s + 1) : buf[k] = " "
      BY <3>2 DEF NoSpace
    <3>4. k \notin (cursor + 1)..s
      BY <1>5, <3>3 DEF NoSpace
    <3>5. k = s + 1
      <4>1. s \in Int /\ k \in Int /\ cursor + 1 =< k /\ k =< s + 1
        BY <1>1, <1>5
      <4>2. ~(k =< s)
        BY <1>1, <3>4, <4>1
      <4>3. QED
        BY <4>1, <4>2
    <3>6. QED
      BY <2>2, <3>3, <3>5 DEF Boundary
  <2>3. CASE w < Len(buf) /\ w # s
    <3>1. w \in (s + 1)..w /\ w + 1 \in 1..Len(buf) /\ (w + 1) - 1 = w
      BY <1>1, <1>5, <1>9, <2>3
    <3>2. buf[w] = " "
      BY <1>9, <3>1 DEF OnlySpaces
    <3>3. buf[w + 1] = "cont" => buf[(w + 1) - 1] \in Piece
      BY <1>11, <3>1 DEF WellFormed
    <3>4. QED
      BY <3>1, <3>2, <3>3 DEF Boundary, Piece
  <2>4. QED
    BY <1>1, <1>5, <1>9, <2>1, <2>2, <2>3
<1>12. QED
  BY <1>1, <1>5, <1>9, <1>10, <1>11

(***************************************************************************)
(* Lines after an insertion and an erasure.                                *)
(***************************************************************************)
Erased(from, to) == SubSeq(buf, 1, from) \o SubSeq(buf, to + 1, Len(buf))

LEMMA ErasedIs ==
    ASSUME buf \in Seq(Stored),
           NEW from \in 0..Len(buf), NEW to \in from..Len(buf)
    PROVE  /\ Erased(from, to) \in Seq(Stored)
           /\ Len(Erased(from, to)) = Len(buf) - (to - from)
           /\ \A k \in 1..Len(Erased(from, to)) :
                Erased(from, to)[k] = IF k =< from THEN buf[k] ELSE buf[k + (to - from)]
<1>1. Len(buf) \in Nat /\ \A k \in 1..Len(buf) : buf[k] \in Stored
  BY SeqTypes
<1>2. PICK u : u = SubSeq(buf, 1, from)
  OBVIOUS
<1>3. PICK v : v = SubSeq(buf, to + 1, Len(buf))
  OBVIOUS
<1>4. \A k \in 1..from : buf[k] \in Stored
  BY <1>1
<1>5. u \in Seq(Stored) /\ Len(u) = from /\ \A k \in 1..from : u[k] = buf[k]
  <2>1. /\ u \in Seq(Stored)
        /\ Len(u) = IF 1 <= from THEN from - 1 + 1 ELSE 0
        /\ \A k \in 1..(from - 1 + 1) : u[k] = buf[1 + k - 1]
    BY <1>1, <1>2, <1>4, SubSeqProperties
  <2>2. QED
    BY <1>1, <2>1
<1>6. \A k \in (to + 1)..Len(buf) : buf[k] \in Stored
  BY <1>1
<1>7. /\ v \in Seq(Stored)
      /\ Len(v) = Len(buf) - to
      /\ \A k \in 1..(Len(buf) - to) : v[k] = buf[to + k]
  <2>1. /\ v \in Seq(Stored)
        /\ Len(v) = IF to + 1 <= Len(buf) THEN Len(buf) - (to + 1) + 1 ELSE 0
        /\ \A k \in 1..(Len(buf) - (to + 1) + 1) : v[k] = buf[(to + 1) + k - 1]
    BY <1>1, <1>3, <1>6, SubSeqProperties
  <2>2. \A k \in Int : (to + 1) + k - 1 = to + k
    BY <1>1
  <2>3. QED
    BY <1>1, <2>1, <2>2
<1>8. /\ u \o v \in Seq(Stored)
      /\ Len(u \o v) = Len(u) + Len(v)
      /\ \A k \in 1..(Len(u) + Len(v)) :
           (u \o v)[k] = IF k <= Len(u) THEN u[k] ELSE v[k - Len(u)]
  BY <1>5, <1>7, ConcatProperties
<1>9. Erased(from, to) = u \o v
  BY <1>2, <1>3 DEF Erased
<1>10. Len(u \o v) = Len(buf) - (to - from)
  BY <1>1, <1>5, <1>7, <1>8
<1>11. ASSUME NEW k \in 1..Len(u \o v)
       PROVE  (u \o v)[k] = IF k =< from THEN buf[k] ELSE buf[k + (to - from)]
  <2>1. CASE k =< from
    BY <1>1, <1>5, <1>8, <1>11, <2>1
  <2>2. CASE k > from
    <3>1. k - from \in 1..(Len(buf) - to) /\ to + (k - from) = k + (to - from)
      BY <1>1, <1>10, <2>2
    <3>2. (u \o v)[k] = v[k - from]
      BY <1>1, <1>5, <1>8, <2>2
    <3>3. QED
      BY <1>1, <1>7, <2>2, <3>1, <3>2
  <2>3. QED
    BY <1>1, <1>10, <2>1, <2>2
<1>12. QED
  BY <1>8, <1>9, <1>10, <1>11

LEMMA InsertedIs ==
    ASSUME buf \in Seq(Stored), NEW p \in 0..Len(buf), NEW b \in Stored
    PROVE  /\ Inserted(p, b) \in Seq(Stored)
           /\ Len(Inserted(p, b)) = Len(buf) + 1
           /\ \A k \in 1..(Len(buf) + 1) :
                Inserted(p, b)[k] = IF k =< p THEN buf[k]
                                    ELSE IF k = p + 1 THEN b ELSE buf[k - 1]
<1>1. Len(buf) \in Nat /\ \A k \in 1..Len(buf) : buf[k] \in Stored
  BY SeqTypes
<1>2. PICK u : u = SubSeq(buf, 1, p)
  OBVIOUS
<1>3. PICK v : v = SubSeq(buf, p + 1, Len(buf))
  OBVIOUS
<1>4. \A k \in 1..p : buf[k] \in Stored
  BY <1>1
<1>5. u \in Seq(Stored) /\ Len(u) = p /\ \A k \in 1..p : u[k] = buf[k]
  <2>1. /\ u \in Seq(Stored)
        /\ Len(u) = IF 1 <= p THEN p - 1 + 1 ELSE 0
        /\ \A k \in 1..(p - 1 + 1) : u[k] = buf[1 + k - 1]
    BY <1>1, <1>2, <1>4, SubSeqProperties
  <2>2. QED
    BY <1>1, <2>1
<1>6. \A k \in (p + 1)..Len(buf) : buf[k] \in Stored
  BY <1>1
<1>7. /\ v \in Seq(Stored)
      /\ Len(v) = Len(buf) - p
      /\ \A k \in 1..(Len(buf) - p) : v[k] = buf[p + k]
  <2>1. /\ v \in Seq(Stored)
        /\ Len(v) = IF p + 1 <= Len(buf) THEN Len(buf) - (p + 1) + 1 ELSE 0
        /\ \A k \in 1..(Len(buf) - (p + 1) + 1) : v[k] = buf[(p + 1) + k - 1]
    BY <1>1, <1>3, <1>6, SubSeqProperties
  <2>2. \A k \in Int : (p + 1) + k - 1 = p + k
    BY <1>1
  <2>3. QED
    BY <1>1, <2>1, <2>2
<1>8. PICK o : o = <<b>>
  OBVIOUS
<1>9. o \in Seq(Stored) /\ Len(o) = 1 /\ o[1] = b
  BY <1>8
<1>10. PICK uo : uo = u \o o
  OBVIOUS
<1>11. /\ uo \in Seq(Stored)
       /\ Len(uo) = p + 1
       /\ \A k \in 1..(p + 1) : uo[k] = IF k <= p THEN buf[k] ELSE b
  <2>1. /\ u \o o \in Seq(Stored)
        /\ Len(u \o o) = Len(u) + Len(o)
        /\ \A k \in 1..(Len(u) + Len(o)) :
             (u \o o)[k] = IF k <= Len(u) THEN u[k] ELSE o[k - Len(u)]
    BY <1>5, <1>9, ConcatProperties
  <2>2. Len(u) + Len(o) = p + 1 /\ Len(u) = p
    BY <1>5, <1>9
  <2>3. /\ uo \in Seq(Stored)
        /\ Len(uo) = p + 1
        /\ \A k \in 1..(p + 1) : uo[k] = IF k <= p THEN u[k] ELSE o[k - p]
    BY <1>10, <2>1, <2>2
  <2>4. ASSUME NEW k \in 1..(p + 1) PROVE uo[k] = IF k <= p THEN buf[k] ELSE b
    <3>1. CASE k <= p
      BY <1>1, <1>5, <2>3, <3>1
    <3>2. CASE k = p + 1
      <4>1. k - p = 1 /\ ~(k <= p)
        BY <1>1, <3>2
      <4>2. QED
        BY <1>9, <2>3, <4>1
    <3>3. QED
      BY <1>1, <3>1, <3>2
  <2>5. QED
    BY <2>3, <2>4
<1>12. /\ uo \o v \in Seq(Stored)
       /\ Len(uo \o v) = Len(uo) + Len(v)
       /\ \A k \in 1..(Len(uo) + Len(v)) :
            (uo \o v)[k] = IF k <= Len(uo) THEN uo[k] ELSE v[k - Len(uo)]
  BY <1>7, <1>11, ConcatProperties
<1>13. Inserted(p, b) = uo \o v
  BY <1>2, <1>3, <1>8, <1>10 DEF Inserted
<1>14. Len(uo \o v) = Len(buf) + 1
  BY <1>1, <1>7, <1>11, <1>12
<1>15. ASSUME NEW k \in 1..(Len(buf) + 1)
       PROVE  (uo \o v)[k] = IF k =< p THEN buf[k]
                             ELSE IF k = p + 1 THEN b ELSE buf[k - 1]
  <2>1. k \in 1..(Len(uo) + Len(v))
    BY <1>1, <1>7, <1>11
  <2>2. CASE k =< p + 1
    <3>1. k \in 1..(p + 1) /\ k <= Len(uo)
      BY <1>1, <1>11, <2>2
    <3>2. (uo \o v)[k] = uo[k]
      BY <1>12, <2>1, <3>1
    <3>3. QED
      BY <1>1, <1>11, <3>1, <3>2
  <2>3. CASE k > p + 1
    <3>1. k - (p + 1) \in 1..(Len(buf) - p) /\ p + (k - (p + 1)) = k - 1
      BY <1>1, <2>3
    <3>2. (uo \o v)[k] = v[k - (p + 1)]
      BY <1>1, <1>11, <1>12, <2>1, <2>3
    <3>3. QED
      BY <1>1, <1>7, <2>3, <3>1, <3>2
  <2>4. k =< p + 1 \/ k > p + 1
    BY <1>1
  <2>5. QED
    BY <2>2, <2>3, <2>4
<1>16. QED
  BY <1>12, <1>13, <1>14, <1>15


(***************************************************************************)
(* Keys and the bytes they take.                                           *)
(***************************************************************************)
\* Bytes of whole characters.
WholeBytes(q) ==
    /\ q \in Seq(Byte)
    /\ Len(q) \in Nat \ {0}
    /\ q[1] # "cont"
    /\ \A i \in 2..Len(q) : q[i] = "cont" => q[i - 1] \in Piece

LEMMA OfSix ==
    ASSUME NEW S, NEW a \in S, NEW b \in S, NEW c \in S,
           NEW d \in S, NEW e \in S, NEW f \in S
    PROVE  <<a, b, c, d, e, f>> \in Seq(S)
  OBVIOUS

LEMMA SentIs == \A k \in DOMAIN Sent : WholeBytes(Sent[k])
<1>1. ASSUME NEW b \in Byte \ {"cont"} PROVE WholeBytes(<<b>>)
  BY DEF WholeBytes
<1>2. ASSUME NEW b \in {"A", "B", "C", "D"} PROVE WholeBytes(<<"esc", "[", b>>)
  <2>1. b \in Byte /\ "esc" \in Byte /\ "[" \in Byte /\ b # "cont"
    BY DEF Byte, Stored, Control
  <2>2. QED
    BY <2>1 DEF WholeBytes
<1>3. ASSUME NEW b \in {"C", "D"} PROVE WholeBytes(<<"esc", "[", "1", ";", "5", b>>)
  <2>1. PICK q : q = <<"esc", "[", "1", ";", "5", b>>
    OBVIOUS
  <2>2. /\ b \in Byte /\ "esc" \in Byte /\ "[" \in Byte
        /\ "1" \in Byte /\ ";" \in Byte /\ "5" \in Byte /\ b # "cont"
    BY DEF Byte, Stored, Control
  <2>3. q \in Seq(Byte) /\ Len(q) = 6 /\ q[1] = "esc"
    <3>1. Len(q) = 6 /\ q[1] = "esc"
      BY <2>1
    <3>2. q \in Seq(Byte)
      BY <2>1, <2>2, OfSix, Zenon
    <3>3. QED
      BY <3>1, <3>2
  <2>4. q[2] = "[" /\ q[3] = "1" /\ q[4] = ";" /\ q[5] = "5" /\ q[6] = b
    BY <2>1
  <2>5. \A i \in 2..6 : q[i] # "cont"
    <3>1. \A i \in 2..6 : i = 2 \/ i = 3 \/ i = 4 \/ i = 5 \/ i = 6
      OBVIOUS
    <3>2. QED
      BY <2>2, <2>4, <3>1
  <2>6. WholeBytes(q)
    BY <2>3, <2>5 DEF WholeBytes
  <2>7. QED
    BY <2>1, <2>6
<1>4. /\ WholeBytes(<<"lead2", "cont">>)
      /\ WholeBytes(<<"lead3", "cont", "cont">>)
      /\ WholeBytes(<<"esc", "[", "3", "~">>)
      /\ WholeBytes(<<"esc", "[", "1", "5", "~">>)
  BY DEF WholeBytes, Byte, Stored, Control, Piece
<1>5. {"a", " ", "rubout", "nl", "esc", "^A", "^D", "^E", "^L", "^R", "^W"}
      \subseteq Byte \ {"cont"}
  BY DEF Byte, Stored, Control
<1>6. /\ WholeBytes(Sent.letter) /\ WholeBytes(Sent.space)
      /\ WholeBytes(Sent.backspace) /\ WholeBytes(Sent.enter)
      /\ WholeBytes(Sent.escape)
  BY <1>1, <1>5 DEF Sent
<1>7. /\ WholeBytes(Sent.ctrl_a) /\ WholeBytes(Sent.ctrl_d)
      /\ WholeBytes(Sent.ctrl_e) /\ WholeBytes(Sent.ctrl_l)
      /\ WholeBytes(Sent.ctrl_r) /\ WholeBytes(Sent.ctrl_w)
  BY <1>1, <1>5 DEF Sent
<1>8. /\ WholeBytes(Sent.up) /\ WholeBytes(Sent.down)
      /\ WholeBytes(Sent.right) /\ WholeBytes(Sent.left)
      /\ WholeBytes(Sent.ctrl_left) /\ WholeBytes(Sent.ctrl_right)
  BY <1>2, <1>3 DEF Sent
<1>9. /\ WholeBytes(Sent.wide2) /\ WholeBytes(Sent.wide3)
      /\ WholeBytes(Sent.delete) /\ WholeBytes(Sent.f5)
  BY <1>4 DEF Sent
<1>10. DOMAIN Sent =
       {"letter", "space", "wide2", "wide3", "backspace", "enter", "escape",
        "up", "down", "right", "left", "delete", "ctrl_left", "ctrl_right",
        "f5", "ctrl_a", "ctrl_d", "ctrl_e", "ctrl_l", "ctrl_r", "ctrl_w"}
  BY DEF Sent
<1>11. QED
  BY <1>6, <1>7, <1>8, <1>9, <1>10

LEMMA NeededIs ==
    /\ Needed \in 1..6
    /\ Needed = 1 <=> stream[1] # "esc"
  BY DEF Needed

\* A sequence that is known ends with a letter or a tilde.
EndsKey(q) == Len(q) \in Nat \ {0} /\ q[Len(q)] \in {"A", "B", "C", "D", "~"}

LEMMA EscapesEnd ==
    /\ DOMAIN Escapes \cap Byte = {}
    /\ \A k \in DOMAIN Escapes : EndsKey(Escapes[k])
<1>1. ASSUME NEW b \in {"A", "B", "C", "D"} PROVE EndsKey(<<"[", b>>)
  BY DEF EndsKey
<1>2. ASSUME NEW b \in {"C", "D"} PROVE EndsKey(<<"[", "1", ";", "5", b>>)
  BY DEF EndsKey
<1>3. EndsKey(<<"[", "3", "~">>)
  BY DEF EndsKey
<1>4. /\ EndsKey(Escapes.up) /\ EndsKey(Escapes.down)
      /\ EndsKey(Escapes.right) /\ EndsKey(Escapes.left)
  BY <1>1 DEF Escapes
<1>5. /\ EndsKey(Escapes.delete)
      /\ EndsKey(Escapes.ctrl_left) /\ EndsKey(Escapes.ctrl_right)
  BY <1>2, <1>3 DEF Escapes
<1>6. DOMAIN Escapes =
      {"up", "down", "right", "left", "delete", "ctrl_left", "ctrl_right"}
  BY DEF Escapes
<1>7. QED
  BY <1>4, <1>5, <1>6 DEF Byte, Stored, Control

LEMMA KnownIs ==
    ASSUME stream \in Seq(Byte), Readable, Needed > 1
    PROVE  \/ KeyRead = "esc"
           \/ KeyRead \notin Byte /\ stream[Needed] \in {"A", "B", "C", "D", "~"}
<1> DEFINE match == {k \in DOMAIN Escapes : Escapes[k] = SubSeq(stream, 2, Needed)}
<1>1. Needed \in 2..6 /\ Needed =< Len(stream)
  BY NeededIs DEF Readable
<1>2. KeyRead = IF match = {} THEN "esc" ELSE CHOOSE k \in match : TRUE
  BY <1>1 DEF KeyRead
<1>3. CASE match = {}
  BY <1>2, <1>3
<1>4. CASE match # {}
  <2>1. PICK k \in match : KeyRead = k
    BY <1>2, <1>4
  <2>2. PICK n \in Nat : n = Needed
    BY <1>1
  <2>3. \A i \in 2..n : stream[i] \in Byte
    BY <1>1, <2>2, SeqTypes
  <2>4. /\ Len(SubSeq(stream, 2, n)) = n - 1
        /\ SubSeq(stream, 2, n)[n - 1] = stream[n]
    <3>1. /\ Len(SubSeq(stream, 2, n)) = IF 2 <= n THEN n - 2 + 1 ELSE 0
          /\ \A i \in 1..(n - 2 + 1) : SubSeq(stream, 2, n)[i] = stream[2 + i - 1]
      BY <2>3, SubSeqProperties
    <3>2. 2 <= n /\ n - 2 + 1 = n - 1 /\ n - 1 \in 1..(n - 2 + 1) /\ 2 + (n - 1) - 1 = n
      BY <1>1, <2>2
    <3>3. QED
      BY <3>1, <3>2
  <2>5. Escapes[k] = SubSeq(stream, 2, n)
    BY <2>1, <2>2
  <2>6. QED
    BY <2>1, <2>2, <2>4, <2>5, EscapesEnd DEF EndsKey
<1>5. QED
  BY <1>3, <1>4

\* Any Take.
Taking == Readable /\ stream' = SubSeq(stream, Needed + 1, Len(stream))

\* What a key leaves in the stream.
LEMMA TakenIs ==
    ASSUME stream \in Seq(Byte),
           \A k \in 2..Len(stream) : stream[k] = "cont" => stream[k - 1] \in Piece,
           Taking
    PROVE  /\ stream' \in Seq(Byte)
           /\ \A k \in 2..Len(stream') : stream'[k] = "cont" => stream'[k - 1] \in Piece
           /\ stream' # <<>> /\ stream'[1] = "cont"
              => KeyRead \in Piece \/ (KeyRead = "esc" /\ Swallows)
           /\ KeyRead \in Byte \ Control
              => KeyRead = stream[1] /\ stream # <<>>
<1>1. Len(stream) \in Nat /\ \A k \in 1..Len(stream) : stream[k] \in Byte
  BY SeqTypes
<1>2. PICK n \in 1..6 : n = Needed
  BY NeededIs
<1>3. n =< Len(stream) /\ stream # <<>> /\ stream' = SubSeq(stream, n + 1, Len(stream))
  BY <1>2 DEF Taking, Readable
<1>4. \A k \in (n + 1)..Len(stream) : stream[k] \in Byte
  BY <1>1
<1>5. /\ stream' \in Seq(Byte)
      /\ Len(stream') = Len(stream) - n
      /\ \A k \in 1..(Len(stream) - n) : stream'[k] = stream[n + k]
  <2>1. /\ stream' \in Seq(Byte)
        /\ Len(stream') = IF n + 1 <= Len(stream) THEN Len(stream) - (n + 1) + 1 ELSE 0
        /\ \A k \in 1..(Len(stream) - (n + 1) + 1) : stream'[k] = stream[(n + 1) + k - 1]
    BY <1>1, <1>3, <1>4, SubSeqProperties
  <2>2. \A k \in Int : (n + 1) + k - 1 = n + k
    OBVIOUS
  <2>3. QED
    BY <1>1, <1>3, <2>1, <2>2
<1>6. ASSUME NEW k \in 2..Len(stream'), stream'[k] = "cont"
      PROVE  stream'[k - 1] \in Piece
  <2>1. /\ k \in 1..(Len(stream) - n) /\ k - 1 \in 1..(Len(stream) - n)
        /\ n + k \in 2..Len(stream) /\ (n + k) - 1 = n + (k - 1)
    BY <1>1, <1>3, <1>5
  <2>2. stream[n + k] = "cont" => stream[(n + k) - 1] \in Piece
    BY <2>1
  <2>3. QED
    BY <1>5, <1>6, <2>1, <2>2
<1>7. ASSUME stream' # <<>>, stream'[1] = "cont"
      PROVE  KeyRead \in Piece \/ (KeyRead = "esc" /\ Swallows)
  <2>1. Len(stream) - n >= 1 /\ n \in 1..Len(stream) /\ n + 1 \in 2..Len(stream)
    <3>1. Len(stream') # 0
      BY <1>5, <1>7, EmptySeq
    <3>2. QED
      BY <1>1, <1>3, <1>5, <3>1
  <2>2. stream[n + 1] = "cont"
    BY <1>5, <1>7, <2>1
  <2>3. stream[n] \in Piece
    <3>1. stream[n + 1] = "cont" => stream[(n + 1) - 1] \in Piece
      BY <2>1
    <3>2. QED
      BY <2>2, <3>1
  <2>4. CASE n = 1
    BY <1>2, <2>3, <2>4 DEF KeyRead
  <2>5. CASE n > 1
    <3>1. KeyRead = "esc"
      BY <1>2, <2>3, <2>5, KnownIs DEF Taking, Piece
    <3>2. stream[1] = "esc"
      BY <1>2, <2>5, NeededIs
    <3>3. ASSUME \A k \in 1..n : stream[k] \notin {"lead2", "lead3"} PROVE FALSE
      <4>1. \A k \in 2..n : stream[k] = "cont" => stream[k - 1] = "cont"
        <5>1. ASSUME NEW k \in 2..n, stream[k] = "cont" PROVE stream[k - 1] = "cont"
          <6>1. k \in 2..Len(stream) /\ k - 1 \in 1..n
            BY <1>1, <1>3
          <6>2. stream[k - 1] \in Piece
            BY <5>1, <6>1
          <6>3. QED
            BY <3>3, <6>1, <6>2 DEF Piece
        <5>2. QED
          BY <5>1
      <4>2. n \in 1..n /\ stream[n] = "cont"
        BY <2>3, <3>3 DEF Piece
      <4>3. stream[1] # "cont"
        BY <3>2
      <4>4. stream[2] # "cont" \/ n < 2
        BY <4>1, <4>3
      <4>5. stream[3] # "cont" \/ n < 3
        BY <4>1, <4>4
      <4>6. stream[4] # "cont" \/ n < 4
        BY <4>1, <4>5
      <4>7. stream[5] # "cont" \/ n < 5
        BY <4>1, <4>6
      <4>8. stream[6] # "cont" \/ n < 6
        BY <4>1, <4>7
      <4>9. QED
        BY <2>5, <4>2, <4>4, <4>5, <4>6, <4>7, <4>8
    <3>4. QED
      BY <1>2, <2>5, <3>1, <3>3 DEF Swallows
  <2>6. QED
    BY <2>4, <2>5
<1>8. ASSUME KeyRead \in Byte \ Control PROVE KeyRead = stream[1]
  <2>1. CASE n = 1
    BY <1>2, <2>1 DEF KeyRead
  <2>2. CASE n > 1
    BY <1>2, <1>8, <2>2, KnownIs DEF Taking, Control
  <2>3. QED
    BY <2>1, <2>2
<1>9. QED
  BY <1>3, <1>5, <1>6, <1>7, <1>8


(***************************************************************************)
(* The screen.                                                             *)
(***************************************************************************)
LEMMA CountIs ==
    ASSUME NEW n \in Nat, NEW S \in SUBSET (1..n)
    PROVE  IsFiniteSet(S) /\ Cardinality(S) \in Nat
<1>1. IsFiniteSet(1..n)
  BY FS_Interval
<1>2. IsFiniteSet(S)
  BY <1>1, FS_Subset
<1>3. QED
  BY <1>2, FS_CardinalityType

LEMMA RedrawnType ==
    ASSUME NEW l \in Seq(Stored), NEW p \in 0..Len(l)
    PROVE  Redrawn(l, p) \in Nat
<1>1. Len(l) \in Nat
  BY SeqTypes
<1> DEFINE A == {k \in (p + 1)..Len(l) : l[k] # "cont"}
           V == {k \in DOMAIN l : l[k] \notin {"cont", "rubout"}}
           back == IF p < Len(l) THEN Max({1, Cardinality(A)}) ELSE 0
<1>2. A \in SUBSET (1..Len(l)) /\ V \in SUBSET (1..Len(l))
  BY <1>1, LenProperties
<1>3. Cardinality(A) \in Nat /\ Cardinality(V) \in Nat
  BY <1>1, <1>2, CountIs
<1> HIDE DEF A, V
<1>4. Max({1, Cardinality(A)}) \in Nat
  <2>1. \E z \in {1, Cardinality(A)} : \A y \in {1, Cardinality(A)} : z >= y
    BY <1>3
  <2>2. QED
    BY <1>3, <2>1 DEF Max
<1>5. back \in Nat
  BY <1>4
<1>6. Redrawn(l, p) = Max({0, Cardinality(V) - back})
  BY DEF Redrawn, Shown, A, V
<1> HIDE DEF back
<1>7. QED
  BY <1>3, <1>5, <1>6, MaxOfTwo

\* A redraw leaves the terminal's cursor after the characters before the place.
LEMMA RedrawnIs ==
    ASSUME NEW l \in Seq(Stored), NEW p \in 0..Len(l),
           WellFormed(l), Clean(l), StandsIn(l, p)
    PROVE  Redrawn(l, p) = CellsBefore(l, p)
<1>1. Len(l) \in Nat /\ DOMAIN l = 1..Len(l) /\ \A k \in 1..Len(l) : l[k] \in Stored
  BY SeqTypes, LenProperties
<1> DEFINE A == {k \in (p + 1)..Len(l) : l[k] # "cont"}
           V == {k \in DOMAIN l : l[k] \notin {"cont", "rubout"}}
           C == {k \in Begins(l) : k =< p}
<1>2. V = C \cup A /\ C \cap A = {}
  <2>1. \A k \in 1..Len(l) : k = 1 => l[k] # "cont"
    BY DEF WellFormed
  <2>2. Begins(l) = {k \in 1..Len(l) : l[k] # "cont"}
    BY <1>1, <2>1 DEF Begins
  <2>3. V = {k \in 1..Len(l) : l[k] # "cont"}
    BY <1>1 DEF Clean
  <2>4. QED
    BY <1>1, <2>2, <2>3
<1>3. A \in SUBSET (1..Len(l)) /\ C \in SUBSET (1..Len(l))
  BY <1>1 DEF Begins
<1>4. /\ IsFiniteSet(A) /\ Cardinality(A) \in Nat
      /\ IsFiniteSet(C) /\ Cardinality(C) \in Nat
  BY <1>1, <1>3, CountIs
<1>5. A # {} <=> p < Len(l)
  <2>1. CASE p < Len(l)
    <3>1. p + 1 \in 1..Len(l)
      BY <1>1, <2>1
    <3>2. l[p + 1] # "cont"
      BY <2>1, <3>1 DEF StandsIn, WellFormed
    <3>3. QED
      BY <2>1, <3>1, <3>2
  <2>2. CASE p = Len(l)
    BY <1>1, <2>2
  <2>3. p < Len(l) \/ p = Len(l)
    <3>1. PICK n \in Nat : n = Len(l)
      BY <1>1
    <3>2. p \in 0..n
      BY <3>1
    <3>3. QED
      BY <3>1, <3>2
  <2>4. QED
    BY <2>1, <2>2, <2>3
<1> HIDE DEF A, C
<1>6. Cardinality(A) = 0 <=> ~(p < Len(l))
  BY <1>4, <1>5, FS_EmptySet
<1>7. Cardinality(V) = Cardinality(C) + Cardinality(A)
  <2>1. Cardinality(C \cup A) = Cardinality(C) + Cardinality(A) - Cardinality(C \cap A)
    BY <1>4, FS_Union
  <2>2. Cardinality(C \cap A) = 0
    BY <1>2, FS_EmptySet
  <2>3. Cardinality(V) = Cardinality(C) + Cardinality(A) - 0
    BY <1>2, <2>1, <2>2
  <2>4. QED
    BY <1>4, <2>3
<1> HIDE DEF V
<1>8. p < Len(l) => Max({1, Cardinality(A)}) = Cardinality(A)
  <2>1. ASSUME p < Len(l) PROVE Max({1, Cardinality(A)}) = Cardinality(A)
    <3>1. Cardinality(A) >= 1
      BY <1>4, <1>6, <2>1
    <3>2. \E z \in {1, Cardinality(A)} : \A y \in {1, Cardinality(A)} : z >= y
      BY <1>4, <3>1
    <3>3. /\ Max({1, Cardinality(A)}) \in {1, Cardinality(A)}
          /\ \A y \in {1, Cardinality(A)} : Max({1, Cardinality(A)}) >= y
      BY <3>2 DEF Max
    <3>4. QED
      BY <1>4, <3>1, <3>3
  <2>2. QED
    BY <2>1
<1>9. Redrawn(l, p) = Max({0, Cardinality(V) - IF p < Len(l) THEN Max({1, Cardinality(A)}) ELSE 0})
  BY DEF Redrawn, Shown, A, V
<1>10. Redrawn(l, p) = Max({0, Cardinality(V) - Cardinality(A)})
  <2>1. (IF p < Len(l) THEN Max({1, Cardinality(A)}) ELSE 0) = Cardinality(A)
    BY <1>6, <1>8
  <2>2. QED
    BY <1>9, <2>1
<1>11. Redrawn(l, p) = Max({0, Cardinality(C)})
  <2>1. Cardinality(V) - Cardinality(A) = Cardinality(C)
    BY <1>4, <1>7
  <2>2. QED
    BY <1>10, <2>1
<1>12. Redrawn(l, p) = Cardinality(C)
  BY <1>4, <1>11, MaxOfTwo
<1>13. QED
  BY <1>12 DEF CellsBefore, C

\* From one boundary to the next there is one character.
LEMMA OneCell ==
    ASSUME NEW l \in Seq(Stored), WellFormed(l),
           NEW p \in 0..Len(l), NEW q \in (p + 1)..Len(l),
           StandsIn(l, p), \A k \in (p + 1)..(q - 1) : ~StandsIn(l, k)
    PROVE  CellsBefore(l, q) = CellsBefore(l, p) + 1 /\ CellsBefore(l, p) \in Nat
<1>1. Len(l) \in Nat /\ DOMAIN l = 1..Len(l) /\ p \in Nat /\ q \in Nat
  BY SeqTypes, LenProperties
<1> DEFINE C(r) == {k \in Begins(l) : k =< r}
<1>2. C(p) \in SUBSET (1..Len(l))
  BY <1>1 DEF Begins
<1>3. IsFiniteSet(C(p)) /\ Cardinality(C(p)) \in Nat
  BY <1>1, <1>2, CountIs
<1>4. p + 1 \in Begins(l)
  <2>1. p + 1 \in 1..Len(l) /\ p # Len(l)
    <3>1. PICK n \in Nat : n = Len(l)
      BY <1>1
    <3>2. p \in 0..n /\ q \in (p + 1)..n
      BY <3>1
    <3>3. p + 1 \in 1..n /\ p # n
      BY <3>2
    <3>4. QED
      BY <3>1, <3>3
  <2>2. p + 1 = 1 \/ l[p + 1] # "cont"
    BY <2>1 DEF StandsIn
  <2>3. QED
    BY <1>1, <2>1, <2>2 DEF Begins
<1>5. ASSUME NEW k \in (p + 2)..q PROVE k \notin Begins(l)
  <2>1. k - 1 \in (p + 1)..(q - 1) /\ k # 1 /\ (k - 1) + 1 = k
    BY <1>1
  <2>2. l[k] = "cont"
    BY <2>1 DEF StandsIn
  <2>3. QED
    BY <2>1, <2>2 DEF Begins
<1>6. Begins(l) \subseteq Int
  BY <1>1 DEF Begins
<1>7. C(q) = C(p) \cup {p + 1}
  <2>1. ASSUME NEW k \in C(q) PROVE k \in C(p) \cup {p + 1}
    <3>1. k \in Int /\ k =< q /\ k \notin (p + 2)..q
      BY <1>5, <1>6
    <3>2. k =< p \/ k = p + 1
      BY <1>1, <3>1
    <3>3. QED
      BY <3>2
  <2>2. ASSUME NEW k \in C(p) \cup {p + 1} PROVE k \in C(q)
    <3>1. k \in Begins(l)
      BY <1>4
    <3>2. k =< p + 1 /\ k \in Int
      BY <1>1, <1>6, <3>1
    <3>3. k =< q
      BY <1>1, <3>2
    <3>4. QED
      BY <3>1, <3>3
  <2>3. QED
    BY <2>1, <2>2
<1>8. p + 1 \notin C(p)
  BY <1>1
<1> HIDE DEF C
<1>9. Cardinality(C(q)) = Cardinality(C(p)) + 1
  BY <1>3, <1>7, <1>8, FS_AddElement
<1>10. QED
  BY <1>3, <1>9 DEF CellsBefore, C


(***************************************************************************)
(* What is not read stays whole.                                           *)
(***************************************************************************)
\* The part of the stream that Ctrl+R reads a byte of.
Shifting == stream # <<>> /\ stream' = Tail(stream)

LEMMA StreamSteps ==
    ASSUME Next
    PROVE  \/ \E k \in DOMAIN Sent : Press(k)
           \/ mode = "edit" /\ Taking
           \/ mode = "search" /\ Shifting
           \/ Start
<1>1. ASSUME NEW keys, Take(keys) PROVE mode = "edit" /\ Taking
  BY <1>1 DEF Take, Taking
<1>2. ASSUME NEW bytes, SearchRead(bytes) PROVE mode = "search" /\ Shifting
  BY <1>2 DEF SearchRead, Shifting
<1>3. ASSUME NEW k \in Key, Press(k) PROVE \E i \in DOMAIN Sent : Press(i)
  BY <1>3, EditorAssumption
<1>4. CASE InsertByte \/ BufferFull \/ Backspace \/ Delete \/ EraseWord
  BY <1>1, <1>4 DEF InsertByte, BufferFull, Backspace, Delete, EraseWord
<1>5. CASE MoveLeft \/ MoveRight \/ Jump \/ Browse \/ Nothing
  BY <1>1, <1>5 DEF MoveLeft, MoveRight, Jump, Browse, Nothing
<1>6. CASE Enter \/ Quit \/ BeginSearch
  BY <1>1, <1>6 DEF Enter, Quit, BeginSearch
<1>7. CASE SearchOn \/ SearchSkip \/ SearchEnd
  BY <1>2, <1>7 DEF SearchOn, SearchSkip, SearchEnd
<1>8. QED
  BY <1>3, <1>4, <1>5, <1>6, <1>7 DEF Next

LEMMA PressedIs ==
    ASSUME NEW k \in DOMAIN Sent, Press(k), stream \in Seq(Byte), InnerInv
    PROVE  stream' \in Seq(Byte) /\ InnerInv' /\ stream'[1] # "cont"
<1>1. WholeBytes(Sent[k])
  BY SentIs
<1>2. PICK q : q = Sent[k]
  OBVIOUS
<1>3. /\ q \in Seq(Byte) /\ Len(q) \in Nat \ {0} /\ q[1] # "cont"
      /\ \A i \in 2..Len(q) : q[i] = "cont" => q[i - 1] \in Piece
  BY <1>1, <1>2 DEF WholeBytes
<1>4. CASE stream = <<>>
  <2>1. stream' = q
    BY <1>2, <1>3, <1>4, ConcatEmptySeq DEF Press
  <2>2. QED
    BY <1>3, <2>1 DEF InnerInv
<1>5. CASE stream = <<"esc">>
  <2>1. PICK e : e = <<"esc">>
    OBVIOUS
  <2>2. e \in Seq(Byte) /\ Len(e) = 1 /\ e[1] = "esc"
    <3>1. "esc" \in Byte
      BY DEF Byte, Control
    <3>2. QED
      BY <2>1, <3>1
  <2>3. /\ e \o q \in Seq(Byte)
        /\ Len(e \o q) = Len(e) + Len(q)
        /\ \A i \in 1..(Len(e) + Len(q)) :
             (e \o q)[i] = IF i <= Len(e) THEN e[i] ELSE q[i - Len(e)]
    BY <1>3, <2>2, ConcatProperties
  <2>4. stream' = e \o q
    BY <1>2, <1>5, <2>1 DEF Press
  <2>5. /\ stream' \in Seq(Byte) /\ Len(stream') = Len(q) + 1
        /\ \A i \in 1..(Len(q) + 1) : stream'[i] = IF i <= 1 THEN e[i] ELSE q[i - 1]
    BY <1>3, <2>2, <2>3, <2>4
  <2>6. stream'[1] = "esc"
    BY <1>3, <2>2, <2>5
  <2>7. ASSUME NEW i \in 2..Len(stream'), stream'[i] = "cont"
        PROVE  stream'[i - 1] \in Piece
    <3>1. stream'[i] = q[i - 1] /\ i - 1 \in 1..Len(q)
      BY <1>3, <2>5
    <3>2. i - 1 \in 2..Len(q)
      BY <1>3, <2>7, <3>1
    <3>3. q[(i - 1) - 1] \in Piece
      BY <1>3, <2>7, <3>1, <3>2
    <3>4. stream'[i - 1] = q[(i - 1) - 1]
      BY <1>3, <2>5, <3>2
    <3>5. QED
      BY <3>3, <3>4
  <2>8. QED
    BY <2>5, <2>6, <2>7 DEF InnerInv
<1>6. QED
  BY <1>4, <1>5 DEF Press

LEMMA ShiftedIs ==
    ASSUME stream \in Seq(Byte), InnerInv, Shifting
    PROVE  /\ stream' \in Seq(Byte)
           /\ InnerInv'
           /\ stream' # <<>> /\ stream'[1] = "cont" => Head(stream) \in Piece
<1>1. Len(stream) \in Nat
  BY SeqTypes
<1>2. /\ stream' \in Seq(Byte)
      /\ Len(stream') = Len(stream) - 1
      /\ \A i \in 1..Len(stream') : stream'[i] = stream[i + 1]
  BY HeadTailProperties DEF Shifting
<1>3. ASSUME NEW k \in 2..Len(stream'), stream'[k] = "cont"
      PROVE  stream'[k - 1] \in Piece
  <2>1. /\ k \in 1..Len(stream') /\ k - 1 \in 1..Len(stream')
        /\ k + 1 \in 2..Len(stream) /\ (k + 1) - 1 = k /\ (k - 1) + 1 = k
    BY <1>1, <1>2
  <2>2. stream[k + 1] = "cont" => stream[(k + 1) - 1] \in Piece
    BY <2>1 DEF InnerInv
  <2>3. QED
    BY <1>2, <1>3, <2>1, <2>2
<1>4. ASSUME stream' # <<>>, stream'[1] = "cont" PROVE Head(stream) \in Piece
  <2>1. Len(stream') # 0
    BY <1>2, <1>4, EmptySeq
  <2>2. 1 \in 1..Len(stream') /\ 2 \in 2..Len(stream)
    BY <1>1, <1>2, <2>1
  <2>3. stream[2] = "cont"
    BY <1>2, <1>4, <2>2
  <2>4. stream[2 - 1] \in Piece
    BY <2>2, <2>3 DEF InnerInv
  <2>5. Head(stream) = stream[1]
    BY DEF Shifting
  <2>6. QED
    BY <2>4, <2>5
<1>5. QED
  BY <1>2, <1>3, <1>4 DEF InnerInv

LEMMA NextStream ==
    ASSUME stream \in Seq(Byte), InnerInv, [Next]_vars
    PROVE  stream' \in Seq(Byte) /\ InnerInv'
<1>1. CASE Next
  <2>1. CASE \E k \in DOMAIN Sent : Press(k)
    BY <2>1, PressedIs
  <2>2. CASE Taking
    <3>1. /\ stream' \in Seq(Byte)
          /\ \A k \in 2..Len(stream') : stream'[k] = "cont" => stream'[k - 1] \in Piece
      BY <2>2, TakenIs DEF InnerInv
    <3>2. QED
      BY <3>1 DEF InnerInv
  <2>3. CASE Shifting
    BY <2>3, ShiftedIs
  <2>4. CASE Start
    BY <2>4 DEF Start, InnerInv
  <2>5. QED
    BY <1>1, <2>1, <2>2, <2>3, <2>4, StreamSteps
<1>2. CASE UNCHANGED vars
  BY <1>2 DEF vars, InnerInv
<1>3. QED
  BY <1>1, <1>2


(***************************************************************************)
(* What a redraw shows.                                                    *)
(***************************************************************************)
\* A line and a place in it.
Fits(l, p) == l \in Seq(Stored) /\ Len(l) < Size /\ p \in 0..Len(l)
Good(l, p) == WellFormed(l) /\ StandsIn(l, p)

LEMMA ErasedFits ==
    ASSUME LineFits, NEW from \in 0..Len(buf), NEW to \in from..Len(buf)
    PROVE  /\ Fits(Erased(from, to), from)
           /\ WellFormed(buf) /\ Boundary(from) /\ Boundary(to)
              => Good(Erased(from, to), from)
           /\ Clean(buf) => Clean(Erased(from, to))
<1>1. buf \in Seq(Stored) /\ Len(buf) \in Nat /\ Size \in Nat /\ Len(buf) < Size
  BY SeqTypes, EditorAssumption DEF LineFits
<1>2. PICK n \in Nat : n = Len(buf)
  BY <1>1
<1>3. PICK l : l = Erased(from, to)
  OBVIOUS
<1>4. PICK d \in Nat : d = to - from
  BY <1>2
<1>5. /\ l \in Seq(Stored)
      /\ Len(l) = n - d
      /\ \A k \in 1..(n - d) : l[k] = IF k =< from THEN buf[k] ELSE buf[k + d]
  BY <1>1, <1>2, <1>3, <1>4, ErasedIs
<1>6. from \in 0..(n - d) /\ n - d \in Nat /\ n - d =< n /\ to = from + d /\ to =< n
  BY <1>2, <1>4
<1>7. Fits(l, from)
  BY <1>1, <1>2, <1>5, <1>6 DEF Fits
<1>8. ASSUME WellFormed(buf), Boundary(from), Boundary(to) PROVE Good(l, from)
  <2>1. \A k \in 1..n : buf[k] = "cont" => k > 1 /\ buf[k - 1] \in Piece
    BY <1>2, <1>8 DEF WellFormed
  <2>2. ASSUME from < n - d PROVE l[from + 1] # "cont"
    <3>1. from + 1 \in 1..(n - d) /\ ~(from + 1 =< from) /\ from + 1 + d = to + 1
      BY <1>6, <2>2
    <3>2. l[from + 1] = buf[to + 1]
      BY <1>5, <3>1
    <3>3. to # n /\ to + 1 \in 1..n
      BY <1>6, <2>2
    <3>4. to = 0 => to + 1 = 1
      BY <1>6
    <3>5. buf[to + 1] # "cont"
      BY <1>2, <1>8, <2>1, <3>3, <3>4 DEF Boundary
    <3>6. QED
      BY <3>2, <3>5
  <2>3. StandsIn(l, from)
    <3>1. from < n - d \/ from = n - d
      BY <1>6
    <3>2. QED
      BY <1>5, <2>2, <3>1 DEF StandsIn
  <2>4. ASSUME NEW k \in 1..(n - d), l[k] = "cont" PROVE k > 1 /\ l[k - 1] \in Piece
    <3>1. CASE k =< from
      <4>1. l[k] = buf[k] /\ k \in 1..n
        BY <1>5, <1>6, <3>1
      <4>2. k > 1 /\ buf[k - 1] \in Piece
        BY <2>1, <2>4, <4>1
      <4>3. k - 1 \in 1..(n - d) /\ k - 1 =< from
        BY <1>6, <3>1, <4>2
      <4>4. QED
        BY <1>5, <4>2, <4>3
    <3>2. CASE k = from + 1
      <4>1. from < n - d
        BY <1>6, <3>2
      <4>2. QED
        BY <2>2, <2>4, <3>2, <4>1
    <3>3. CASE k > from + 1
      <4>1. ~(k =< from) /\ k + d \in 1..n
        BY <1>6, <3>3
      <4>2. l[k] = buf[k + d]
        BY <1>5, <4>1
      <4>3. buf[(k + d) - 1] \in Piece
        BY <2>1, <2>4, <4>1, <4>2
      <4>4. /\ k > 1 /\ k - 1 \in 1..(n - d) /\ ~(k - 1 =< from)
            /\ (k + d) - 1 = (k - 1) + d
        BY <1>6, <3>3
      <4>5. l[k - 1] = buf[(k - 1) + d]
        BY <1>5, <4>4
      <4>6. QED
        BY <4>3, <4>4, <4>5
    <3>4. k =< from \/ k = from + 1 \/ k > from + 1
      BY <1>6
    <3>5. QED
      BY <3>1, <3>2, <3>3, <3>4
  <2>5. QED
    BY <1>5, <2>3, <2>4 DEF Good, WellFormed
<1>9. ASSUME Clean(buf) PROVE Clean(l)
  <2>1. \A k \in 1..n : buf[k] # "rubout"
    BY <1>2, <1>9 DEF Clean
  <2>2. ASSUME NEW k \in 1..(n - d) PROVE l[k] # "rubout"
    <3>1. k \in 1..n /\ (k =< from \/ (~(k =< from) /\ k + d \in 1..n))
      BY <1>6
    <3>2. QED
      BY <1>5, <2>1, <3>1
  <2>3. QED
    BY <1>5, <2>2 DEF Clean
<1>10. QED
  BY <1>3, <1>7, <1>8, <1>9

LEMMA InsertedFits ==
    ASSUME LineFits, InnerInv, InsertByte
    PROVE  /\ Fits(Inserted(cursor, Store(KeyRead)), cursor + 1)
           /\ HeadInv /\ "swallowed" \notin spoilt /\ Good(buf, cursor)
              => Good(Inserted(cursor, Store(KeyRead)), cursor + 1)
           /\ Clean(buf) /\ KeyRead # "rubout"
              => Clean(Inserted(cursor, Store(KeyRead)))
           /\ KeyRead \in Piece
              => Inserted(cursor, Store(KeyRead))[cursor + 1] = KeyRead
<1>1. /\ buf \in Seq(Stored) /\ Len(buf) \in Nat /\ Size \in Nat
      /\ Len(buf) < Size - 1 /\ cursor \in 0..Len(buf)
  BY SeqTypes, EditorAssumption DEF LineFits, InsertByte
<1>2. PICK n \in Nat : n = Len(buf)
  BY <1>1
<1>3. PICK b \in Stored : b = Store(KeyRead)
  BY DEF Store, Stored
<1>4. PICK l : l = Inserted(cursor, b)
  OBVIOUS
<1>5. /\ l \in Seq(Stored)
      /\ Len(l) = n + 1
      /\ \A k \in 1..(n + 1) :
           l[k] = IF k =< cursor THEN buf[k] ELSE IF k = cursor + 1 THEN b ELSE buf[k - 1]
  BY <1>1, <1>2, <1>4, InsertedIs
<1>6. cursor \in Nat /\ cursor =< n
  BY <1>1, <1>2
<1>7. /\ \A k \in 1..cursor : l[k] = buf[k]
      /\ l[cursor + 1] = b
      /\ \A k \in (cursor + 2)..(n + 1) : l[k] = buf[k - 1]
  <2>1. \A k \in 1..cursor : k \in 1..(n + 1) /\ k =< cursor
    BY <1>6
  <2>2. cursor + 1 \in 1..(n + 1) /\ ~(cursor + 1 =< cursor)
    BY <1>6
  <2>3. \A k \in (cursor + 2)..(n + 1) :
          k \in 1..(n + 1) /\ ~(k =< cursor) /\ k # cursor + 1
    BY <1>6
  <2>4. QED
    BY <1>5, <2>1, <2>2, <2>3
<1>8. Fits(l, cursor + 1)
  BY <1>1, <1>2, <1>5, <1>6 DEF Fits
<1>9. mode = "edit" /\ Taking /\ KeyRead \in Byte \ Control
  BY DEF InsertByte, Take, Taking
<1>10. KeyRead = stream[1] /\ stream # <<>>
  BY <1>9, TakenIs DEF LineFits, InnerInv
<1>11. ASSUME HeadInv, "swallowed" \notin spoilt, Good(buf, cursor)
       PROVE  Good(l, cursor + 1)
  <2>1. \A k \in 1..n : buf[k] = "cont" => k > 1 /\ buf[k - 1] \in Piece
    BY <1>2, <1>11 DEF Good, WellFormed
  <2>2. b = "cont" => cursor > 0 /\ buf[cursor] \in Piece
    <3>1. b = "cont" => KeyRead = "cont"
      BY <1>3 DEF Store
    <3>2. Len(buf) # Size - 1
      BY <1>1
    <3>3. QED
      BY <1>9, <1>10, <1>11, <3>1, <3>2 DEF HeadInv
  <2>3. ASSUME cursor < n PROVE buf[cursor + 1] # "cont"
    <3>1. cursor # n /\ cursor + 1 \in 1..n /\ (cursor = 0 => cursor + 1 = 1)
      BY <1>6, <2>3
    <3>2. QED
      BY <1>2, <1>11, <2>1, <3>1 DEF Good, StandsIn
  <2>4. StandsIn(l, cursor + 1)
    <3>1. CASE cursor = n
      BY <1>5, <3>1 DEF StandsIn
    <3>2. CASE cursor < n
      <4>1. /\ (cursor + 1) + 1 \in (cursor + 2)..(n + 1)
            /\ ((cursor + 1) + 1) - 1 = cursor + 1
        BY <1>6, <3>2
      <4>2. l[(cursor + 1) + 1] = buf[cursor + 1]
        BY <1>7, <4>1
      <4>3. QED
        BY <2>3, <3>2, <4>2 DEF StandsIn
    <3>3. QED
      BY <1>6, <3>1, <3>2
  <2>5. ASSUME NEW k \in 1..(n + 1), l[k] = "cont" PROVE k > 1 /\ l[k - 1] \in Piece
    <3>1. CASE k =< cursor
      <4>1. k \in 1..cursor /\ k \in 1..n
        BY <1>6, <3>1
      <4>2. k > 1 /\ buf[k - 1] \in Piece
        BY <1>7, <2>1, <2>5, <4>1
      <4>3. k - 1 \in 1..cursor
        BY <1>6, <4>1, <4>2
      <4>4. QED
        BY <1>7, <4>2, <4>3
    <3>2. CASE k = cursor + 1
      <4>1. cursor > 0 /\ buf[cursor] \in Piece
        BY <1>7, <2>2, <2>5, <3>2
      <4>2. k > 1 /\ k - 1 = cursor /\ cursor \in 1..cursor
        BY <1>6, <3>2, <4>1
      <4>3. QED
        BY <1>7, <4>1, <4>2
    <3>3. CASE k > cursor + 1
      <4>1. k \in (cursor + 2)..(n + 1) /\ k - 1 \in 1..n /\ k > 1
        BY <1>6, <3>3
      <4>2. buf[k - 1] = "cont"
        BY <1>7, <2>5, <4>1
      <4>3. buf[(k - 1) - 1] \in Piece
        BY <2>1, <4>1, <4>2
      <4>4. k # cursor + 2
        <5>1. ASSUME k = cursor + 2 PROVE FALSE
          <6>1. k - 1 = cursor + 1 /\ cursor < n
            BY <1>6, <4>1, <5>1
          <6>2. QED
            BY <2>3, <4>2, <6>1
        <5>2. QED
          BY <5>1
      <4>5. k - 1 \in (cursor + 2)..(n + 1)
        BY <1>6, <4>1, <4>4
      <4>6. QED
        BY <1>7, <4>1, <4>3, <4>5
    <3>4. k =< cursor \/ k = cursor + 1 \/ k > cursor + 1
      BY <1>6
    <3>5. QED
      BY <3>1, <3>2, <3>3, <3>4
  <2>6. QED
    BY <1>5, <2>4, <2>5 DEF Good, WellFormed
<1>12. ASSUME Clean(buf), KeyRead # "rubout" PROVE Clean(l)
  <2>1. \A k \in 1..n : buf[k] # "rubout"
    BY <1>2, <1>12 DEF Clean
  <2>2. b # "rubout"
    BY <1>3, <1>12 DEF Store
  <2>3. ASSUME NEW k \in 1..(n + 1) PROVE l[k] # "rubout"
    <3>1. \/ k =< cursor /\ k \in 1..n
          \/ ~(k =< cursor) /\ k = cursor + 1
          \/ ~(k =< cursor) /\ k # cursor + 1 /\ k - 1 \in 1..n
      BY <1>6
    <3>2. QED
      BY <1>5, <2>1, <2>2, <3>1
  <2>4. QED
    BY <1>5, <2>3 DEF Clean
<1>13. KeyRead \in Piece => l[cursor + 1] = KeyRead
  BY <1>3, <1>7 DEF Store, Piece, Stored
<1>14. QED
  BY <1>3, <1>4, <1>8, <1>11, <1>12, <1>13


(***************************************************************************)
(* Steps: what each shows, and what it leaves in the stream.               *)
(***************************************************************************)
\* A redraw of a line that is as good as the one before.
Shows(l, p) ==
    /\ Redraw(l, p)
    /\ Fits(l, p)
    /\ spoilt \subseteq spoilt'
    /\ mode' = "edit"
    /\ PastWhole /\ HeadInv /\ "swallowed" \notin spoilt /\ Good(buf, cursor)
       => Good(l, p)
    /\ PastWhole /\ Clean(buf) /\ "rubout" \notin spoilt' => Clean(l)

LEMMA ErasedShows ==
    ASSUME LineFits, NEW from \in 0..Len(buf), NEW to \in from..Len(buf),
           Erase(from, to), spoilt' = spoilt, mode' = "edit",
           Good(buf, cursor) => Boundary(from) /\ Boundary(to)
    PROVE  Shows(Erased(from, to), from)
<1>1. Redraw(Erased(from, to), from)
  BY DEF Erase, Erased
<1>2. Fits(Erased(from, to), from) /\ (Clean(buf) => Clean(Erased(from, to)))
  BY ErasedFits
<1>3. ASSUME Good(buf, cursor) PROVE Good(Erased(from, to), from)
  <2>1. WellFormed(buf) /\ Boundary(from) /\ Boundary(to)
    BY <1>3 DEF Good
  <2>2. QED
    BY <2>1, ErasedFits
<1>4. QED
  BY <1>1, <1>2, <1>3 DEF Shows

LEMMA SamePlace ==
    ASSUME LineFits, NEW p \in 0..Len(buf), Redraw(buf, p), spoilt' = spoilt, mode' = "edit",
           Good(buf, cursor) => Boundary(p)
    PROVE  Shows(buf, p)
  BY DEF Shows, Fits, LineFits, Good, Boundary, StandsIn

LEMMA PastShows ==
    ASSUME NEW l \in Past, Redraw(l, Len(l)), spoilt \subseteq spoilt', mode' = "edit"
    PROVE  Shows(l, Len(l))
<1>1. l \in Seq(Stored) /\ Len(l) < Size
  BY EditorAssumption
<1>2. Len(l) \in 0..Len(l)
  BY <1>1, SeqTypes
<1>3. StandsIn(l, Len(l))
  BY DEF StandsIn
<1>4. QED
  BY <1>1, <1>2, <1>3 DEF Shows, Fits, Good, PastWhole

LEMMA EditSteps ==
    ASSUME LineFits, InnerInv, Next
    PROVE  (\E l, p : Shows(l, p)) \/ Ignore \/ MoveLeft \/ MoveRight \/ Enter
<1>1. buf \in Seq(Stored) /\ Len(buf) \in Nat /\ cursor \in 0..Len(buf)
  BY SeqTypes DEF LineFits
<1>2. CASE InsertByte
  <2>1. spoilt \subseteq spoilt' /\ mode' = "edit" /\ ("rubout" \notin spoilt' => KeyRead # "rubout")
    BY <1>2 DEF InsertByte, Take
  <2>2. Redraw(Inserted(cursor, Store(KeyRead)), cursor + 1)
    BY <1>2 DEF InsertByte
  <2>3. Shows(Inserted(cursor, Store(KeyRead)), cursor + 1)
    BY <1>2, <2>1, <2>2, InsertedFits DEF Shows
  <2>4. QED
    BY <2>3
<1>3. CASE Backspace
  <2>1. cursor \in 1..Len(buf) /\ spoilt' = spoilt /\ mode' = "edit"
    BY <1>1, <1>3 DEF Backspace, Same, Take
  <2>2. PICK q : q = Previous(cursor)
    OBVIOUS
  <2>3. q \in 0..(cursor - 1) /\ Boundary(q) /\ Erase(q, cursor)
    BY <1>1, <1>3, <2>1, <2>2, PreviousIs DEF Backspace
  <2>4. q \in 0..Len(buf) /\ cursor \in q..Len(buf)
    BY <1>1, <2>1, <2>3
  <2>5. Good(buf, cursor) => Boundary(q) /\ Boundary(cursor)
    BY <2>3 DEF Good, Boundary, StandsIn
  <2>6. Shows(Erased(q, cursor), q)
    BY <2>1, <2>3, <2>4, <2>5, ErasedShows
  <2>7. QED
    BY <2>6
<1>4. CASE Delete
  <2>1. cursor < Len(buf) /\ spoilt' = spoilt /\ mode' = "edit"
    BY <1>4 DEF Delete, Same, Take
  <2>2. PICK q : q = Following(cursor)
    OBVIOUS
  <2>3. q \in (cursor + 1)..Len(buf) /\ Boundary(q) /\ Erase(cursor, q)
    BY <1>1, <1>4, <2>1, <2>2, FollowingIs DEF Delete
  <2>4. q \in cursor..Len(buf)
    BY <1>1, <2>3
  <2>5. Good(buf, cursor) => Boundary(cursor) /\ Boundary(q)
    BY <2>3 DEF Good, Boundary, StandsIn
  <2>6. Shows(Erased(cursor, q), cursor)
    BY <1>1, <2>1, <2>3, <2>4, <2>5, ErasedShows
  <2>7. QED
    BY <2>6
<1>5. CASE EraseWord
  <2>1. spoilt' = spoilt /\ mode' = "edit"
    BY <1>5 DEF EraseWord, Same, Take
  <2>2. PICK q : q = WordLeft(cursor)
    OBVIOUS
  <2>3. /\ q \in 0..cursor /\ Erase(q, cursor)
        /\ WellFormed(buf) /\ Boundary(cursor) => Boundary(q)
    BY <1>1, <1>5, <2>2, WordLeftIs DEF EraseWord
  <2>4. q \in 0..Len(buf) /\ cursor \in q..Len(buf)
    BY <1>1, <2>3
  <2>5. Good(buf, cursor) => Boundary(q) /\ Boundary(cursor)
    BY <2>3 DEF Good, Boundary, StandsIn
  <2>6. Shows(Erased(q, cursor), q)
    BY <2>1, <2>3, <2>4, <2>5, ErasedShows
  <2>7. QED
    BY <2>6
<1>6. CASE Jump
  <2>1. spoilt' = spoilt /\ mode' = "edit"
    BY <1>6 DEF Jump, Same, Take
  <2>2. PICK p : /\ Redraw(buf, p)
                 /\ p \in {0, Len(buf), cursor, WordLeft(cursor), WordRight(cursor)}
    BY <1>6 DEF Jump
  <2>3. /\ WordLeft(cursor) \in 0..Len(buf) /\ WordRight(cursor) \in 0..Len(buf)
        /\ Good(buf, cursor) => /\ Boundary(WordLeft(cursor))
                                /\ Boundary(WordRight(cursor))
    <3>1. WordLeft(cursor) \in 0..cursor /\ WordRight(cursor) \in cursor..Len(buf)
      BY <1>1, WordLeftIs, WordRightIs
    <3>2. WellFormed(buf) /\ Boundary(cursor) =>
            Boundary(WordLeft(cursor)) /\ Boundary(WordRight(cursor))
      BY <1>1, WordLeftIs, WordRightIs
    <3>3. QED
      BY <1>1, <3>1, <3>2 DEF Good, Boundary, StandsIn
  <2>4. p \in 0..Len(buf)
    BY <1>1, <2>2, <2>3
  <2>5. Good(buf, cursor) => Boundary(p)
    BY <2>2, <2>3 DEF Good, Boundary, StandsIn
  <2>6. Shows(buf, p)
    BY <2>1, <2>2, <2>4, <2>5, SamePlace
  <2>7. QED
    BY <2>6
<1>7. CASE Browse
  <2>1. PICK l \in Past : Redraw(l, Len(l))
    BY <1>7 DEF Browse
  <2>2. spoilt \subseteq spoilt' /\ mode' = "edit"
    BY <1>7 DEF Browse, Same, Take
  <2>3. QED
    BY <2>1, <2>2, PastShows
<1>8. CASE SearchEnd
  <2>1. spoilt' = spoilt /\ mode' = "edit"
    BY <1>8 DEF SearchEnd
  <2>2. CASE found # NoLine /\ Redraw(found, Len(found))
    BY <2>1, <2>2, PastShows DEF LineFits
  <2>3. CASE Redraw(buf, cursor)
    <3>1. Good(buf, cursor) => Boundary(cursor)
      BY DEF Good, Boundary, StandsIn
    <3>2. Shows(buf, cursor)
      BY <1>1, <2>1, <2>3, <3>1, SamePlace
    <3>3. QED
      BY <3>2
  <2>4. QED
    BY <1>8, <2>2, <2>3 DEF SearchEnd
<1>9. CASE \E k \in Key : Press(k)
  BY <1>9 DEF Press, Ignore
<1>10. CASE BufferFull \/ Nothing \/ Quit \/ Start
  BY <1>10 DEF BufferFull, Nothing, Quit, Start, Ignore
<1>11. CASE BeginSearch \/ SearchOn \/ SearchSkip
  BY <1>11 DEF BeginSearch, SearchOn, SearchSkip
<1>12. QED
  BY <1>2, <1>3, <1>4, <1>5, <1>6, <1>7, <1>8, <1>9, <1>10, <1>11 DEF Next

(***************************************************************************)
(* The type.                                                               *)
(***************************************************************************)
LEMMA NextType ==
    ASSUME LineFits, InnerInv, [Next]_vars
    PROVE  LineFits'
<1>1. stream' \in Seq(Byte)
  BY NextStream DEF LineFits
<1>2. CASE Next
  <2>1. /\ buf' \in Seq(Stored) /\ Len(buf') < Size /\ cursor' \in 0..Len(buf')
        /\ column' \in Nat
    <3>1. ASSUME NEW l, NEW p, Shows(l, p)
          PROVE  /\ buf' \in Seq(Stored) /\ Len(buf') < Size /\ cursor' \in 0..Len(buf')
                 /\ column' \in Nat
      <4>1. l \in Seq(Stored) /\ Len(l) < Size /\ p \in 0..Len(l)
        BY <3>1 DEF Shows, Fits
      <4>2. Redrawn(l, p) \in Nat
        BY <4>1, RedrawnType
      <4>3. buf' = l /\ cursor' = p /\ column' = Redrawn(l, p)
        BY <3>1 DEF Shows, Redraw
      <4>4. QED
        BY <4>1, <4>2, <4>3
    <3>2. CASE Ignore
      BY <3>2 DEF Ignore, LineFits
    <3>3. CASE MoveLeft
      <4>1. buf' = buf /\ cursor' = Previous(cursor) /\ column' = Max({0, column - 1})
        BY <3>3 DEF MoveLeft
      <4>2. Len(buf) \in Nat /\ cursor \in 1..Len(buf)
        BY <3>3, SeqTypes DEF MoveLeft, LineFits
      <4>3. Previous(cursor) \in 0..(cursor - 1)
        BY <4>2, PreviousIs DEF LineFits
      <4>4. Previous(cursor) \in 0..Len(buf)
        BY <4>2, <4>3
      <4>5. Max({0, column - 1}) \in Nat
        BY MaxOfTwo DEF LineFits
      <4>6. QED
        BY <4>1, <4>4, <4>5 DEF LineFits
    <3>4. CASE MoveRight
      <4>1. buf' = buf /\ cursor' = Following(cursor) /\ column' = column + 1
        BY <3>4 DEF MoveRight
      <4>2. Len(buf) \in Nat /\ cursor \in 0..Len(buf) /\ cursor < Len(buf)
        BY <3>4, SeqTypes DEF MoveRight, LineFits
      <4>3. Following(cursor) \in (cursor + 1)..Len(buf)
        BY <4>2, FollowingIs DEF LineFits
      <4>4. Following(cursor) \in 0..Len(buf)
        BY <4>2, <4>3
      <4>5. QED
        BY <4>1, <4>4 DEF LineFits
    <3>5. CASE Enter
      BY <3>5, EditorAssumption DEF Enter
    <3>6. QED
      BY <1>2, <3>1, <3>2, <3>3, <3>4, <3>5, EditSteps
  <2>2. /\ mode' \in {"edit", "search", "out"}
        /\ found' \in Past \cup {NoLine}
        /\ spoilt' \subseteq {"swallowed", "cut", "rubout"}
    <3>1. CASE \E k \in Key : Press(k)
      BY <3>1 DEF Press, LineFits
    <3>2. CASE InsertByte \/ BufferFull \/ Nothing
      BY <3>2 DEF InsertByte, BufferFull, Nothing, LineFits
    <3>3. CASE Backspace \/ Delete \/ EraseWord \/ MoveLeft \/ MoveRight \/ Jump \/ Browse
      BY <3>3 DEF Backspace, Delete, EraseWord, MoveLeft, MoveRight, Jump, Browse,
         Same, LineFits
    <3>4. CASE Enter \/ Quit \/ Start \/ BeginSearch
      BY <3>4 DEF Enter, Quit, Start, BeginSearch, LineFits
    <3>5. CASE SearchOn \/ SearchSkip \/ SearchEnd
      BY <3>5 DEF SearchOn, SearchSkip, SearchEnd, Same, LineFits
    <3>6. QED
      BY <1>2, <3>1, <3>2, <3>3, <3>4, <3>5 DEF Next
  <2>3. QED
    BY <1>1, <2>1, <2>2 DEF LineFits
<1>3. CASE UNCHANGED vars
  BY <1>3 DEF vars, LineFits
<1>4. QED
  BY <1>2, <1>3

LEMMA InitType == Init => LineFits /\ InnerInv
  BY EditorAssumption DEF Init, LineFits, InnerInv

\* Whatever keys are pressed, in whatever order, and however long the lines of
\* the history are, the line keeps room for its final zero, the cursor stays in
\* it, and the search of Ctrl+R only ever brings back a line of the history.
THEOREM LineAlwaysFits == Spec => []LineFits
<1>1. LineFits /\ InnerInv /\ [Next]_vars => (LineFits /\ InnerInv)'
  BY NextType, NextStream DEF LineFits
<1>2. QED
  BY <1>1, InitType, PTL DEF Spec


(***************************************************************************)
(* Characters stay whole.                                                  *)
(***************************************************************************)
\* A first byte that is left in the stream and continues a character follows
\* one that went into the line, or found no room in it.
LEMMA NextHead ==
    ASSUME LineFits, InnerInv, HeadInv, [Next]_vars
    PROVE  HeadInv'
<1>1. CASE UNCHANGED vars
  BY <1>1 DEF vars, HeadInv
<1>2. CASE Next
  <2> SUFFICES ASSUME stream' # <<>>, stream'[1] = "cont",
                      mode' = "edit", "swallowed" \notin spoilt'
               PROVE  Len(buf') = Size - 1 \/ (cursor' > 0 /\ buf'[cursor'] \in Piece)
    BY DEF HeadInv
  <2>1. CASE \E k \in DOMAIN Sent : Press(k)
    BY <2>1, PressedIs DEF LineFits
  <2>2. CASE Start
    BY <2>2 DEF Start
  <2>3. CASE mode = "search" /\ Shifting
    <3>1. Head(stream) \in Piece
      BY <2>3, ShiftedIs DEF LineFits
    <3>2. SearchEnd
      BY <1>2, <2>3 DEF Next, Press, InsertByte, BufferFull, Backspace, Delete,
         EraseWord, MoveLeft, MoveRight, Jump, Browse, Nothing, Enter, Quit, Start,
         BeginSearch, SearchOn, SearchSkip, Same, Take, Shifting
    <3>3. QED
      BY <3>1, <3>2 DEF SearchEnd, SearchRead, Ends, Piece
  <2>4. CASE mode = "edit" /\ Taking
    <3>1. KeyRead \in Piece \/ (KeyRead = "esc" /\ Swallows)
      BY <2>4, TakenIs DEF LineFits, InnerInv
    <3>2. KeyRead \in Piece \cup {"esc"}
      BY <3>1
    <3>3. CASE InsertByte
      <4>1. KeyRead \in Piece
        BY <3>2, <3>3 DEF InsertByte, Take, Control
      <4>2. buf' = Inserted(cursor, Store(KeyRead)) /\ cursor' = cursor + 1
        BY <3>3 DEF InsertByte, Redraw
      <4>3. buf'[cursor'] = KeyRead
        BY <3>3, <4>1, <4>2, InsertedFits
      <4>4. cursor' > 0
        BY <4>2, SeqTypes DEF LineFits
      <4>5. QED
        BY <4>1, <4>3, <4>4
    <3>4. CASE BufferFull
      BY <3>4 DEF BufferFull, Ignore
    <3>5. CASE Nothing
      <4>1. KeyRead \notin Piece
        BY <3>5 DEF Nothing, Take, Piece
      <4>2. Swallows
        BY <3>1, <4>1
      <4>3. "swallowed" \in spoilt'
        BY <3>5, <4>2 DEF Nothing
      <4>4. QED
        BY <4>3
    <3>6. CASE Backspace \/ Delete \/ EraseWord \/ MoveLeft \/ MoveRight
      BY <3>2, <3>6 DEF Backspace, Delete, EraseWord, MoveLeft, MoveRight, Take, Piece
    <3>7. CASE Jump \/ Browse \/ Enter \/ Quit \/ BeginSearch
      BY <3>2, <3>7 DEF Jump, Browse, Enter, Quit, BeginSearch, Take, Piece
    <3>8. CASE SearchOn \/ SearchSkip \/ SearchEnd
      BY <2>4, <3>8 DEF SearchOn, SearchSkip, SearchEnd, SearchRead
    <3>9. CASE \E k \in Key : Press(k)
      BY <2>1, <3>9, EditorAssumption
    <3>10. QED
      BY <1>2, <2>2, <3>3, <3>4, <3>5, <3>6, <3>7, <3>8, <3>9 DEF Next
  <2>5. QED
    BY <1>2, <2>1, <2>2, <2>3, <2>4, StreamSteps
<1>3. QED
  BY <1>1, <1>2

\* Only Enter and a new process forget what has spoilt a line.
LEMMA SpoiltGrows ==
    ASSUME Next
    PROVE  spoilt \subseteq spoilt' \/ Enter \/ Start
<1>1. CASE \E k \in Key : Press(k)
  BY <1>1 DEF Press
<1>2. CASE InsertByte \/ BufferFull \/ Nothing
  BY <1>2 DEF InsertByte, BufferFull, Nothing
<1>3. CASE Backspace \/ Delete \/ EraseWord \/ MoveLeft \/ MoveRight \/ Jump \/ Browse
  BY <1>3 DEF Backspace, Delete, EraseWord, MoveLeft, MoveRight, Jump, Browse, Same
<1>4. CASE Quit \/ BeginSearch \/ SearchOn \/ SearchSkip \/ SearchEnd
  BY <1>4 DEF Quit, BeginSearch, SearchOn, SearchSkip, SearchEnd, Same
<1>5. QED
  BY <1>1, <1>2, <1>3, <1>4 DEF Next

\* An empty line.
LEMMA EmptyLine ==
    /\ Good(<<>>, 0) /\ Clean(<<>>)
    /\ CellsBefore(<<>>, 0) = 0
    /\ \A p : Redrawn(<<>>, p) = 0 \/ p \notin Nat
<1>1. Len(<<>>) = 0 /\ DOMAIN <<>> = {} /\ 1..0 = {}
  OBVIOUS
<1>2. Good(<<>>, 0) /\ Clean(<<>>)
  BY <1>1 DEF Good, WellFormed, StandsIn, Clean
<1>3. {k \in Begins(<<>>) : k =< 0} = {}
  BY <1>1 DEF Begins
<1>4. {k \in DOMAIN <<>> : <<>>[k] \notin {"cont", "rubout"}} = {}
  BY <1>1
<1>5. CellsBefore(<<>>, 0) = 0 /\ Shown(<<>>) = 0
  BY <1>3, <1>4, FS_EmptySet DEF CellsBefore, Shown
<1>6. ASSUME NEW p \in Nat PROVE Redrawn(<<>>, p) = 0
  <2>1. ~(p < Len(<<>>))
    BY <1>1
  <2>2. Redrawn(<<>>, p) = Max({0, 0 - 0})
    BY <1>5, <2>1 DEF Redrawn
  <2>3. QED
    BY <2>2, MaxOfTwo
<1>7. QED
  BY <1>2, <1>5, <1>6

LEMMA NextLine ==
    ASSUME PastWhole, LineFits, InnerInv, HeadInv, LineInv, ColumnInv, [Next]_vars
    PROVE  LineInv'
<1>1. CASE UNCHANGED vars
  BY <1>1 DEF vars, LineInv, WellFormed, Boundary
<1>2. CASE Next
  <2>1. CASE Enter \/ Start
    <3>1. buf' = <<>> /\ cursor' = 0
      <4>1. CASE Enter
        BY <4>1 DEF Enter
      <4>2. CASE Start
        <5>1. buf = <<>> /\ buf' = buf /\ cursor' = cursor
          BY <4>2 DEF Start, ColumnInv
        <5>2. cursor \in 0..0
          BY <5>1 DEF LineFits
        <5>3. QED
          BY <5>1, <5>2
      <4>3. QED
        BY <2>1, <4>1, <4>2
    <3>2. QED
      BY <3>1, EmptyLine DEF LineInv, Good, StandsIn, Boundary
  <2>2. CASE spoilt \subseteq spoilt' /\ ~Enter
    <3> SUFFICES ASSUME "swallowed" \notin spoilt'
                 PROVE  Good(buf', cursor')
      BY DEF LineInv, Good, Boundary, StandsIn
    <3>1. "swallowed" \notin spoilt /\ Good(buf, cursor) /\ WellFormed(buf)
      BY <2>2 DEF LineInv, Good, Boundary, StandsIn
    <3>2. ASSUME NEW l, NEW p, Shows(l, p) PROVE Good(buf', cursor')
      BY <3>1, <3>2 DEF Shows, Redraw
    <3>3. CASE Ignore
      BY <3>1, <3>3 DEF Ignore
    <3>4. CASE MoveLeft
      <4>1. Len(buf) \in Nat /\ cursor \in 1..Len(buf)
        BY <3>4, SeqTypes DEF MoveLeft, LineFits
      <4>2. Boundary(Previous(cursor))
        BY <4>1, PreviousIs DEF LineFits
      <4>3. QED
        BY <3>1, <3>4, <4>2 DEF MoveLeft, Good, Boundary, StandsIn
    <3>5. CASE MoveRight
      <4>1. Boundary(Following(cursor))
        BY <3>5, FollowingIs DEF MoveRight, LineFits
      <4>2. QED
        BY <3>1, <3>5, <4>1 DEF MoveRight, Good, Boundary, StandsIn
    <3>6. QED
      BY <1>2, <2>2, <3>2, <3>3, <3>4, <3>5, EditSteps
  <2>3. QED
    BY <1>2, <2>1, <2>2, SpoiltGrows
<1>3. QED
  BY <1>1, <1>2


(***************************************************************************)
(* The terminal's cursor.                                                  *)
(***************************************************************************)
\* Left and Right pass one character, and one column.
LEMMA MovedColumn ==
    ASSUME LineFits, Good(buf, cursor), column = CellsBefore(buf, cursor),
           MoveLeft \/ MoveRight
    PROVE  buf' = buf /\ column' = CellsBefore(buf, cursor')
<1>1. buf \in Seq(Stored) /\ Len(buf) \in Nat /\ cursor \in 0..Len(buf) /\ WellFormed(buf)
  BY SeqTypes DEF LineFits, Good
<1>2. \A q : Boundary(q) <=> StandsIn(buf, q)
  BY DEF Boundary, StandsIn
<1>3. CASE MoveLeft
  <2>1. cursor \in 1..Len(buf)
    BY <1>1, <1>3 DEF MoveLeft
  <2>2. PICK q : q = Previous(cursor)
    OBVIOUS
  <2>3. /\ q \in 0..(cursor - 1) /\ StandsIn(buf, q)
        /\ \A k \in (q + 1)..(cursor - 1) : ~StandsIn(buf, k)
    BY <1>1, <1>2, <2>1, <2>2, PreviousIs
  <2>4. q \in 0..Len(buf) /\ cursor \in (q + 1)..Len(buf)
    BY <1>1, <2>1, <2>3
  <2>5. CellsBefore(buf, cursor) = CellsBefore(buf, q) + 1 /\ CellsBefore(buf, q) \in Nat
    BY <1>1, <2>3, <2>4, OneCell
  <2>6. buf' = buf /\ cursor' = q /\ column' = Max({0, column - 1})
    BY <1>3, <2>2 DEF MoveLeft
  <2>7. column - 1 = CellsBefore(buf, q)
    BY <2>5
  <2>8. Max({0, column - 1}) = CellsBefore(buf, q)
    BY <2>5, <2>7, MaxOfTwo
  <2>9. QED
    BY <2>6, <2>8
<1>4. CASE MoveRight
  <2>1. cursor < Len(buf)
    BY <1>4 DEF MoveRight
  <2>2. PICK q : q = Following(cursor)
    OBVIOUS
  <2>3. /\ q \in (cursor + 1)..Len(buf)
        /\ \A k \in (cursor + 1)..(q - 1) : ~StandsIn(buf, k)
    BY <1>1, <1>2, <2>1, <2>2, FollowingIs
  <2>4. CellsBefore(buf, q) = CellsBefore(buf, cursor) + 1
    BY <1>1, <2>3, OneCell DEF Good
  <2>5. buf' = buf /\ cursor' = q /\ column' = column + 1
    BY <1>4, <2>2 DEF MoveRight
  <2>6. QED
    BY <2>4, <2>5
<1>5. QED
  BY <1>3, <1>4

LEMMA NextColumn ==
    ASSUME PastWhole, LineFits, InnerInv, HeadInv, LineInv, ColumnInv, [Next]_vars
    PROVE  ColumnInv'
<1>1. CASE UNCHANGED vars
  BY <1>1 DEF vars, ColumnInv, Clean, CellsBefore, Begins
<1>2. CASE Next
  <2>1. CASE Enter \/ Start
    <3>1. buf' = <<>> /\ cursor' = 0 /\ column' = 0
      <4>1. CASE Enter
        BY <4>1 DEF Enter
      <4>2. CASE Start
        <5>1. buf = <<>> /\ column = 0 /\ UNCHANGED <<buf, cursor, column>>
          BY <4>2 DEF Start, ColumnInv
        <5>2. cursor \in 0..0
          BY <5>1 DEF LineFits
        <5>3. QED
          BY <5>1, <5>2
      <4>3. QED
        BY <2>1, <4>1, <4>2
    <3>2. QED
      BY <3>1, EmptyLine DEF ColumnInv
  <2>2. CASE spoilt \subseteq spoilt' /\ ~Enter /\ ~Start
    <3>1. ASSUME spoilt' \cap {"swallowed", "rubout"} = {}
          PROVE  Clean(buf') /\ column' = CellsBefore(buf', cursor')
      <4>1. /\ "swallowed" \notin spoilt /\ "rubout" \notin spoilt'
            /\ spoilt \cap {"swallowed", "rubout"} = {}
        BY <2>2, <3>1
      <4>2. Clean(buf) /\ column = CellsBefore(buf, cursor) /\ Good(buf, cursor)
        BY <4>1 DEF ColumnInv, LineInv, Good, Boundary, StandsIn
      <4>3. ASSUME NEW l, NEW p, Shows(l, p)
            PROVE  Clean(buf') /\ column' = CellsBefore(buf', cursor')
        <5>1. Good(l, p) /\ Clean(l) /\ l \in Seq(Stored) /\ p \in 0..Len(l)
          BY <4>1, <4>2, <4>3 DEF Shows, Fits
        <5>2. Redrawn(l, p) = CellsBefore(l, p)
          BY <5>1, RedrawnIs DEF Good
        <5>3. QED
          BY <4>3, <5>1, <5>2 DEF Shows, Redraw
      <4>4. CASE Ignore
        BY <4>2, <4>4 DEF Ignore
      <4>5. CASE MoveLeft \/ MoveRight
        BY <4>2, <4>5, MovedColumn
      <4>6. QED
        BY <1>2, <2>2, <4>3, <4>4, <4>5, EditSteps
    <3>2. ASSUME buf' = <<>> PROVE column' = 0
      <4>1. ASSUME NEW l, NEW p, Shows(l, p) PROVE column' = 0
        <5>1. l = <<>> /\ p \in 0..Len(l) /\ column' = Redrawn(l, p)
          BY <3>2, <4>1 DEF Shows, Fits, Redraw
        <5>2. p \in Nat
          BY <5>1
        <5>3. QED
          BY <5>1, <5>2, EmptyLine
      <4>2. CASE Ignore
        BY <3>2, <4>2 DEF Ignore, ColumnInv
      <4>3. CASE MoveLeft \/ MoveRight
        <5>1. buf = <<>> /\ (cursor > 0 \/ cursor < Len(buf))
          BY <3>2, <4>3 DEF MoveLeft, MoveRight
        <5>2. cursor \in 0..0 /\ Len(buf) = 0
          BY <5>1 DEF LineFits
        <5>3. QED
          BY <5>1, <5>2
      <4>4. QED
        BY <1>2, <2>2, <4>1, <4>2, <4>3, EditSteps
    <3>3. ASSUME mode' = "out" PROVE buf' = <<>>
      <4>1. CASE Quit
        BY <4>1 DEF Quit
      <4>2. CASE ~Quit
        BY <1>2, <2>2, <3>3, <4>2 DEF Next, Press, InsertByte, BufferFull, Backspace,
           Delete, EraseWord, MoveLeft, MoveRight, Jump, Browse, Nothing, BeginSearch,
           SearchOn, SearchSkip, SearchEnd, Same, Take, SearchRead
      <4>3. QED
        BY <4>1, <4>2
    <3>4. QED
      BY <3>1, <3>2, <3>3 DEF ColumnInv
  <2>3. QED
    BY <1>2, <2>1, <2>2, SpoiltGrows
<1>3. QED
  BY <1>1, <1>2

EditorInv == LineFits /\ InnerInv /\ HeadInv /\ LineInv /\ ColumnInv

\* Line, cursor, terminal and what is typed in the search of Ctrl+R agree with
\* one another through every key of repl_run, once the history's lines are
\* whole.
THEOREM EditorInductive ==
    ASSUME PastWhole
    PROVE  Spec => []EditorInv
<1>1. Init => EditorInv
  <2>1. Init => HeadInv /\ mode = "edit" /\ buf = <<>> /\ cursor = 0 /\ column = 0
    BY DEF Init, HeadInv
  <2>2. buf = <<>> /\ cursor = 0 => LineInv
    BY EmptyLine DEF LineInv, Good, Boundary, StandsIn
  <2>3. buf = <<>> /\ cursor = 0 /\ column = 0 => ColumnInv
    BY EmptyLine DEF ColumnInv
  <2>4. QED
    BY <2>1, <2>2, <2>3, InitType DEF EditorInv
<1>2. EditorInv /\ [Next]_vars => EditorInv'
  BY NextType, NextStream, NextHead, NextLine, NextColumn DEF EditorInv, LineFits
<1>3. QED
  BY <1>1, <1>2, PTL DEF Spec

\* With a history of whole characters, no key, erasure, word, recalled line or
\* search leaves the cursor inside a character, in a buffer of any size and with
\* a character cut off by its end; only an Escape that takes the first byte of a
\* wide character with it can.
THEOREM CursorStaysWhole ==
    ASSUME PastWhole
    PROVE  Spec => []CursorWhole
<1>1. EditorInv => CursorWhole
  BY DEF EditorInv, LineInv, CursorWhole
<1>2. QED
  BY <1>1, EditorInductive, PTL

\* And the terminal shows the cursor where it is: counting the bytes that begin a
\* character from the end of the line, as redraw does, and moving by one column,
\* as Left and Right do, never disagree.
THEOREM CursorStaysShown ==
    ASSUME PastWhole
    PROVE  Spec => []CursorShown
<1>1. EditorInv => CursorShown
  BY DEF EditorInv, ColumnInv, CursorShown
<1>2. QED
  BY <1>1, EditorInductive, PTL
=============================================================================

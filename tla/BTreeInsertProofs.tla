------------------------ MODULE BTreeInsertProofs -------------------------
(***************************************************************************)
(* Theorems about BTree, first part: what it is for a tree to be in order, *)
(* what a split, a join and a change in a leaf do to it, and that a search *)
(* finds what is there and an insertion keeps the tree in order.           *)
(*                                                                         *)
(* A tree is in order (Formed) if each node can be given a level, the      *)
(* leaves 0 and a child one less than its parent, and a span, the keys a   *)
(* search could bring to it, the root all and a child those of its parent  *)
(* that lie between the keys beside it.  That the leaves are equally deep, *)
(* that no key is there twice and that each is where a search looks for it *)
(* follow without a word about paths.  An operation that takes a tree      *)
(* through states that are not in order, as a split of a full node does,   *)
(* is one that is: a node a slot too wide first, and then its split.       *)
(***************************************************************************)
EXTENDS BTree, FiniteSetTheorems, WellFoundedInduction, TLAPS

(***************************************************************************)
(* Least elements and induction.                                           *)
(***************************************************************************)
LEMMA LeastOf ==
    ASSUME NEW S \in SUBSET Nat, S # {}
    PROVE  \E x \in S : \A y \in S : x =< y
<1>1. PICK x \in S : \A y \in S : ~(<<y, x>> \in OpToRel(<, Nat))
  BY NatLessThanWellFounded, WFMin
<1>2. \A y \in S : ~(y < x)
  BY <1>1 DEF OpToRel
<1>3. QED
  BY <1>2

\* Min is what it should be for natural numbers.
LEMMA MinIs ==
    ASSUME NEW S \in SUBSET Nat, S # {}
    PROVE  Min(S) \in S /\ \A y \in S : Min(S) =< y
<1>1. \E x \in S : \A y \in S : x =< y
  BY LeastOf
<1>2. QED
  BY <1>1 DEF Min

\* Induction as far as a loop goes.
LEMMA Induction ==
    ASSUME NEW N \in Nat, NEW P, 0 \in P, \A i \in 0..N : i \in P /\ i < N => i + 1 \in P
    PROVE  \A i \in 0..N : i \in P
<1> DEFINE S == {i \in 0..N : i \notin P}
<1>1. SUFFICES ASSUME S # {} PROVE FALSE
  OBVIOUS
<1>2. S \in SUBSET Nat
  OBVIOUS
<1>3. PICK i \in S : \A j \in S : i =< j
  BY <1>1, <1>2, LeastOf
<1>4. i # 0
  BY <1>3
<1>5. i - 1 \in 0..N /\ i - 1 \notin S /\ i - 1 < N
  BY <1>3, <1>4
<1>6. (i - 1) + 1 \in P
  BY <1>5
<1>7. QED
  BY <1>3, <1>6

(***************************************************************************)
(* Sequences with an element more or less, cut and joined.                 *)
(***************************************************************************)
LEMMA ConcatFacts ==
    ASSUME NEW S, NEW s \in Seq(S), NEW z \in Seq(S)
    PROVE  /\ s \o z \in Seq(S)
           /\ Len(s \o z) = Len(s) + Len(z)
           /\ \A x \in 1..(Len(s) + Len(z)) :
                (s \o z)[x] = IF x =< Len(s) THEN s[x] ELSE z[x - Len(s)]
  OBVIOUS

\* A sequence with an element put in.
LEMMA InsertAtFacts ==
    ASSUME NEW S, NEW s \in Seq(S), NEW e \in S, NEW i \in 1..(Len(s) + 1)
    PROVE  /\ InsertAt(s, i, e) \in Seq(S)
           /\ Len(InsertAt(s, i, e)) = Len(s) + 1
           /\ \A j \in 1..(Len(s) + 1) :
                InsertAt(s, i, e)[j] =
                    IF j < i THEN s[j] ELSE IF j = i THEN e ELSE s[j - 1]
<1> DEFINE a == SubSeq(s, 1, i - 1)
           b == SubSeq(s, i, Len(s))
<1>1. /\ a \in Seq(S) /\ Len(a) = i - 1
      /\ \A j \in 1..(i - 1) : a[j] = s[j]
  OBVIOUS
<1>2. /\ b \in Seq(S) /\ Len(b) = Len(s) - i + 1
      /\ \A j \in 1..(Len(s) - i + 1) : b[j] = s[j + i - 1]
  OBVIOUS
<1> HIDE DEF a, b
<1> DEFINE c == a \o <<e>>
<1>3. InsertAt(s, i, e) = c \o b
  BY DEF InsertAt, a, b
<1>4. /\ c \in Seq(S) /\ Len(c) = i
      /\ \A j \in 1..i : c[j] = IF j < i THEN s[j] ELSE e
  BY <1>1
<1> HIDE DEF c
<1>5. /\ c \o b \in Seq(S) /\ Len(c \o b) = Len(s) + 1
      /\ \A j \in 1..(Len(s) + 1) : (c \o b)[j] = IF j =< i THEN c[j] ELSE b[j - i]
  <2>1. Len(c) + Len(b) = Len(s) + 1
    BY <1>2, <1>4
  <2>2. QED
    BY <2>1, <1>2, <1>4, ConcatFacts
<1>6. \A j \in 1..(Len(s) + 1) : j > i => b[j - i] = s[j - 1]
  BY <1>2
<1>7. QED
  BY <1>3, <1>4, <1>5, <1>6

\* A sequence with an element taken out.
LEMMA RemoveAtFacts ==
    ASSUME NEW S, NEW s \in Seq(S), NEW i \in 1..Len(s)
    PROVE  /\ RemoveAt(s, i) \in Seq(S)
           /\ Len(RemoveAt(s, i)) = Len(s) - 1
           /\ \A j \in 1..(Len(s) - 1) :
                RemoveAt(s, i)[j] = IF j < i THEN s[j] ELSE s[j + 1]
<1> DEFINE a == SubSeq(s, 1, i - 1)
           b == SubSeq(s, i + 1, Len(s))
<1>1. /\ a \in Seq(S) /\ Len(a) = i - 1
      /\ \A j \in 1..(i - 1) : a[j] = s[j]
  OBVIOUS
<1>2. /\ b \in Seq(S) /\ Len(b) = Len(s) - i
      /\ \A j \in 1..(Len(s) - i) : b[j] = s[j + i]
  OBVIOUS
<1>3. RemoveAt(s, i) = a \o b
  BY DEF RemoveAt
<1> HIDE DEF a, b
<1>4. Len(a) + Len(b) = Len(s) - 1
  BY <1>1, <1>2
<1>5. /\ a \o b \in Seq(S) /\ Len(a \o b) = Len(s) - 1
      /\ \A j \in 1..(Len(s) - 1) : (a \o b)[j] = IF j < i THEN a[j] ELSE b[j - i + 1]
  <2>1. /\ a \o b \in Seq(S) /\ Len(a \o b) = Len(a) + Len(b)
        /\ \A x \in 1..(Len(a) + Len(b)) :
             (a \o b)[x] = IF x =< Len(a) THEN a[x] ELSE b[x - Len(a)]
    BY <1>1, <1>2, ConcatFacts
  <2>2. QED
    BY <1>1, <1>4, <2>1
<1>6. \A j \in 1..(Len(s) - 1) : j >= i => b[j - i + 1] = s[j + 1]
  BY <1>2
<1>7. RemoveAt(s, i) \in Seq(S) /\ Len(RemoveAt(s, i)) = Len(s) - 1
  BY <1>3, <1>5
<1>8. ASSUME NEW j \in 1..(Len(s) - 1)
      PROVE  RemoveAt(s, i)[j] = IF j < i THEN s[j] ELSE s[j + 1]
  <2>1. RemoveAt(s, i)[j] = IF j < i THEN a[j] ELSE b[j - i + 1]
    BY <1>3, <1>5
  <2>2. CASE j < i
    <3>1. j \in 1..(i - 1)
      BY <2>2
    <3>2. a[j] = s[j]
      BY <1>1, <3>1
    <3>3. QED
      BY <2>1, <2>2, <3>2
  <2>3. CASE ~(j < i)
    <3>1. j >= i
      BY <2>3
    <3>2. b[j - i + 1] = s[j + 1]
      BY <1>6, <3>1
    <3>3. QED
      BY <2>1, <2>3, <3>2
  <2>4. QED
    BY <2>2, <2>3
<1>9. QED
  BY <1>7, <1>8

\* A part of a sequence.
LEMMA SubSeqFacts ==
    ASSUME NEW S, NEW s \in Seq(S), NEW i \in Nat, NEW j \in Nat,
           1 =< i, i =< j + 1, j =< Len(s)
    PROVE  /\ SubSeq(s, i, j) \in Seq(S)
           /\ Len(SubSeq(s, i, j)) = j - i + 1
           /\ \A x \in 1..(j - i + 1) : SubSeq(s, i, j)[x] = s[i + x - 1]
  OBVIOUS

\* Two sequences with an element between them: what a merge makes of its entries.
LEMMA JoinFacts ==
    ASSUME NEW S, NEW s \in Seq(S), NEW e \in S, NEW z \in Seq(S)
    PROVE  /\ Append(s, e) \o z \in Seq(S)
           /\ Len(Append(s, e) \o z) = Len(s) + 1 + Len(z)
           /\ \A x \in 1..(Len(s) + 1 + Len(z)) :
                (Append(s, e) \o z)[x] =
                    IF x =< Len(s) THEN s[x]
                    ELSE IF x = Len(s) + 1 THEN e ELSE z[x - Len(s) - 1]
  OBVIOUS

\* Sequences are equal if their elements are.
LEMMA SeqEqual ==
    ASSUME NEW S, NEW s \in Seq(S), NEW z \in Seq(S), Len(s) = Len(z),
           \A x \in 1..Len(s) : s[x] = z[x]
    PROVE  s = z
  OBVIOUS

(***************************************************************************)
(* What the steps of the operations do to the nodes.                       *)
(***************************************************************************)
Entry == [key : Key, off : Offset]

\* Entries, keys and children of a node by their slots.
EntAt(t, n, i) == Ents(t, n)[i]
KeyAt(t, n, i) == Ents(t, n)[i].key
Kid(t, n, i) == Kids(t, n)[i]
KidCount(t, n) == Len(Kids(t, n))

\* The key of an entry.
LEMMA EntKey ==
    ASSUME NEW t, NEW n, NEW i
    PROVE  KeyAt(t, n, i) = EntAt(t, n, i).key
  BY DEF KeyAt, EntAt

\* A node written.
LEMMA PutFacts ==
    ASSUME NEW t, NEW n, NEW leaf, NEW ents, NEW kids, NEW parent, NEW u,
           u = Put(t, n, NewNode(leaf, ents, kids, parent))
    PROVE  /\ u.root = t.root
           /\ Heap(u) = Heap(t) \cup {n}
           /\ Leaf(u, n) = leaf /\ Ents(u, n) = ents /\ Kids(u, n) = kids
           /\ Parent(u, n) = parent
           /\ \A m \in Heap(t) \ {n} :
                /\ Leaf(u, m) = Leaf(t, m) /\ Ents(u, m) = Ents(t, m)
                /\ Kids(u, m) = Kids(t, m) /\ Parent(u, m) = Parent(t, m)
<1>1. u.root = t.root /\ Heap(u) = Heap(t) \cup {n}
  BY DEF Put, Heap
<1>2. u.node[n] = NewNode(leaf, ents, kids, parent)
  BY DEF Put
<1>3. Leaf(u, n) = leaf /\ Ents(u, n) = ents /\ Kids(u, n) = kids /\ Parent(u, n) = parent
  BY <1>2 DEF NewNode, Leaf, Ents, Kids, Parent
<1>4. \A m \in Heap(t) \ {n} : u.node[m] = t.node[m]
  BY DEF Put
<1>5. QED
  BY <1>1, <1>3, <1>4 DEF Leaf, Ents, Kids, Parent

\* A node with other entries and children.
LEMMA FillFacts ==
    ASSUME NEW t, NEW n \in Heap(t), NEW ents, NEW kids, NEW u,
           u = Fill(t, n, ents, kids)
    PROVE  /\ u.root = t.root
           /\ Heap(u) = Heap(t)
           /\ Ents(u, n) = ents /\ Kids(u, n) = kids
           /\ \A m \in Heap(t) : Leaf(u, m) = Leaf(t, m) /\ Parent(u, m) = Parent(t, m)
           /\ \A m \in Heap(t) \ {n} : Ents(u, m) = Ents(t, m) /\ Kids(u, m) = Kids(t, m)
<1>1. u = Put(t, n, NewNode(Leaf(t, n), ents, kids, Parent(t, n)))
  BY DEF Fill
<1>2. QED
  BY <1>1, PutFacts

\* A node freed.
LEMMA FreeFacts ==
    ASSUME NEW t, NEW n \in Heap(t), NEW u, u = Free(t, n)
    PROVE  /\ u.root = t.root
           /\ Heap(u) = Heap(t) \ {n}
           /\ \A m \in Heap(u) :
                /\ Leaf(u, m) = Leaf(t, m) /\ Ents(u, m) = Ents(t, m)
                /\ Kids(u, m) = Kids(t, m) /\ Parent(u, m) = Parent(t, m)
<1>1. u.root = t.root /\ Heap(u) = Heap(t) \ {n}
  BY DEF Free, Heap
<1>2. \A m \in Heap(u) : u.node[m] = t.node[m]
  BY <1>1 DEF Free, Heap
<1>3. QED
  BY <1>1, <1>2 DEF Leaf, Ents, Kids, Parent

\* A node with another entry at one place.
LEMMA ReplaceFacts ==
    ASSUME NEW t, NEW p \in Heap(t), Ents(t, p) \in Seq(Entry),
           NEW i \in 1..KeyCount(t, p), NEW e \in Entry, NEW u, u = Replace(t, p, i, e)
    PROVE  /\ u.root = t.root
           /\ Heap(u) = Heap(t)
           /\ \A m \in Heap(t) :
                Leaf(u, m) = Leaf(t, m) /\ Parent(u, m) = Parent(t, m) /\ Kids(u, m) = Kids(t, m)
           /\ \A m \in Heap(t) \ {p} : Ents(u, m) = Ents(t, m)
           /\ Ents(u, p) \in Seq(Entry) /\ KeyCount(u, p) = KeyCount(t, p)
           /\ \A j \in 1..KeyCount(t, p) :
                EntAt(u, p, j) = IF j = i THEN e ELSE EntAt(t, p, j)
<1> DEFINE ents == [Ents(t, p) EXCEPT ![i] = e]
<1>1. u = Fill(t, p, ents, Kids(t, p))
  BY DEF Replace
<1>2. /\ ents \in Seq(Entry) /\ Len(ents) = Len(Ents(t, p))
      /\ \A j \in 1..Len(Ents(t, p)) : ents[j] = IF j = i THEN e ELSE Ents(t, p)[j]
  BY DEF KeyCount
<1> HIDE DEF ents
<1>3. /\ u.root = t.root /\ Heap(u) = Heap(t)
      /\ Ents(u, p) = ents /\ Kids(u, p) = Kids(t, p)
      /\ \A m \in Heap(t) : Leaf(u, m) = Leaf(t, m) /\ Parent(u, m) = Parent(t, m)
      /\ \A m \in Heap(t) \ {p} : Ents(u, m) = Ents(t, m) /\ Kids(u, m) = Kids(t, m)
  BY <1>1, FillFacts
<1>4. QED
  BY <1>2, <1>3 DEF KeyCount, EntAt

\* Children who have been given a parent.
LEMMA AdoptFacts ==
    ASSUME NEW t, NEW q, NEW kids \in Seq(Heap(t)), Null \notin Heap(t),
           NEW u, u = Adopt(t, q, kids)
    PROVE  /\ u.root = t.root
           /\ Heap(u) = Heap(t)
           /\ \A m \in Heap(t) :
                /\ Leaf(u, m) = Leaf(t, m) /\ Ents(u, m) = Ents(t, m)
                /\ Kids(u, m) = Kids(t, m)
                /\ Parent(u, m) = IF \E i \in 1..Len(kids) : kids[i] = m THEN q
                                  ELSE Parent(t, m)
<1>1. ToSet(kids) = {kids[i] : i \in 1..Len(kids)}
  BY DEF ToSet
<1>2. Null \notin ToSet(kids)
  BY <1>1
<1>3. u = [root |-> t.root,
           node |-> [n \in Heap(t) |->
              IF n \in ToSet(kids)
              THEN NewNode(Leaf(t, n), Ents(t, n), Kids(t, n), q)
              ELSE t.node[n]]]
  BY <1>2 DEF Adopt
<1>4. u.root = t.root /\ Heap(u) = Heap(t)
  BY <1>3 DEF Heap
<1>5. ASSUME NEW m \in Heap(t)
      PROVE  /\ Leaf(u, m) = Leaf(t, m) /\ Ents(u, m) = Ents(t, m)
             /\ Kids(u, m) = Kids(t, m)
             /\ Parent(u, m) = IF \E i \in 1..Len(kids) : kids[i] = m THEN q
                               ELSE Parent(t, m)
  <2>1. CASE m \in ToSet(kids)
    <3>1. u.node[m] = NewNode(Leaf(t, m), Ents(t, m), Kids(t, m), q)
      BY <1>3, <2>1
    <3>2. \E i \in 1..Len(kids) : kids[i] = m
      BY <1>1, <2>1
    <3>3. QED
      BY <3>1, <3>2 DEF NewNode, Leaf, Ents, Kids, Parent
  <2>2. CASE m \notin ToSet(kids)
    <3>1. u.node[m] = t.node[m]
      BY <1>3, <2>2
    <3>2. ~ \E i \in 1..Len(kids) : kids[i] = m
      BY <1>1, <2>2
    <3>3. QED
      BY <3>1, <3>2 DEF NewNode, Leaf, Ents, Kids, Parent
  <2>3. QED
    BY <2>1, <2>2
<1>6. QED
  BY <1>4, <1>5

\* No children to be given one.
LEMMA AdoptNone ==
    ASSUME NEW t, NEW q, NEW u, u = Adopt(t, q, <<>>)
    PROVE  /\ u.root = t.root
           /\ Heap(u) = Heap(t)
           /\ \A m \in Heap(t) :
                /\ Leaf(u, m) = Leaf(t, m) /\ Ents(u, m) = Ents(t, m)
                /\ Kids(u, m) = Kids(t, m) /\ Parent(u, m) = Parent(t, m)
<1>1. ToSet(<<>>) = {}
  BY DEF ToSet
<1>2. u = [root |-> t.root, node |-> [n \in Heap(t) |-> t.node[n]]]
  BY <1>1 DEF Adopt
<1>3. u.root = t.root /\ Heap(u) = Heap(t)
  BY <1>2 DEF Heap
<1>4. \A m \in Heap(t) : u.node[m] = t.node[m]
  BY <1>2
<1>5. QED
  BY <1>3, <1>4 DEF Leaf, Ents, Kids, Parent

\* A new root.
LEMMA TopFacts ==
    ASSUME NEW t, NEW r, NEW leaf, NEW ents, NEW kids, NEW parent, NEW u,
           u = Top(t, r, NewNode(leaf, ents, kids, parent))
    PROVE  /\ u.root = r
           /\ Heap(u) = Heap(t) \cup {r}
           /\ Leaf(u, r) = leaf /\ Ents(u, r) = ents /\ Kids(u, r) = kids
           /\ Parent(u, r) = parent
           /\ \A m \in Heap(t) \ {r} :
                /\ Leaf(u, m) = Leaf(t, m) /\ Ents(u, m) = Ents(t, m)
                /\ Kids(u, m) = Kids(t, m) /\ Parent(u, m) = Parent(t, m)
<1> DEFINE v == Put(t, r, NewNode(leaf, ents, kids, parent))
<1>1. u.root = r /\ u.node = v.node
  BY DEF Top
<1>2. /\ Heap(v) = Heap(t) \cup {r}
      /\ Leaf(v, r) = leaf /\ Ents(v, r) = ents /\ Kids(v, r) = kids
      /\ Parent(v, r) = parent
      /\ \A m \in Heap(t) \ {r} :
            /\ Leaf(v, m) = Leaf(t, m) /\ Ents(v, m) = Ents(t, m)
            /\ Kids(v, m) = Kids(t, m) /\ Parent(v, m) = Parent(t, m)
  BY PutFacts
<1> HIDE DEF v
<1>3. QED
  BY <1>1, <1>2 DEF Heap, Leaf, Ents, Kids, Parent

\* The old root freed.
LEMMA DropFacts ==
    ASSUME NEW t, NEW n \in Heap(t), NEW r, NEW u,
           u = [root |-> r, node |-> Free(t, n).node]
    PROVE  /\ u.root = r
           /\ Heap(u) = Heap(t) \ {n}
           /\ \A m \in Heap(u) :
                /\ Leaf(u, m) = Leaf(t, m) /\ Ents(u, m) = Ents(t, m)
                /\ Kids(u, m) = Kids(t, m) /\ Parent(u, m) = Parent(t, m)
<1> DEFINE v == Free(t, n)
<1>1. u.root = r /\ u.node = v.node
  OBVIOUS
<1>2. /\ Heap(v) = Heap(t) \ {n}
      /\ \A m \in Heap(v) :
            /\ Leaf(v, m) = Leaf(t, m) /\ Ents(v, m) = Ents(t, m)
            /\ Kids(v, m) = Kids(t, m) /\ Parent(v, m) = Parent(t, m)
  BY FreeFacts
<1> HIDE DEF v
<1>3. QED
  BY <1>1, <1>2 DEF Heap, Leaf, Ents, Kids, Parent

\* malloc returns what is not in use.
LEMMA FreshFacts ==
    ASSUME NEW t, IsFiniteSet(Heap(t))
    PROVE  Fresh(t) \in Nat \ {0} /\ Fresh(t) \notin Heap(t)
<1> DEFINE N == Cardinality(Heap(t))
           free == {n \in 1..(N + 1) : n \notin Heap(t)}
<1>1. N \in Nat
  BY FS_CardinalityType
<1>2. free # {}
  <2>1. SUFFICES ASSUME 1..(N + 1) \subseteq Heap(t) PROVE FALSE
    BY DEF free
  <2>2. Cardinality(1..(N + 1)) =< N
    BY <2>1, FS_Subset
  <2>3. Cardinality(1..(N + 1)) = N + 1
    BY <1>1, FS_Interval
  <2>4. QED
    BY <1>1, <2>2, <2>3
<1>3. free \in SUBSET Nat
  BY <1>1
<1>4. Fresh(t) \in free
  BY <1>2, <1>3, MinIs DEF Fresh
<1>5. QED
  BY <1>4 DEF free

(***************************************************************************)
(* A tree that is in order.  A level is what find_leaf has still to go     *)
(* down; the span of a node is the keys that a search could bring there.   *)
(***************************************************************************)
Typed(t) ==
    /\ IsFiniteSet(Heap(t))
    /\ Heap(t) \subseteq Nat \ {0}
    /\ t.root \in Heap(t)
    /\ \A n \in Heap(t) :
        /\ Leaf(t, n) \in BOOLEAN
        /\ Ents(t, n) \in Seq(Entry)
        /\ Kids(t, n) \in Seq(Heap(t))
        /\ Parent(t, n) \in Nat

\* Children are one level down and know their parent, and each node but the root
\* is once a child.
Linked(t, level) ==
    /\ level \in [Heap(t) -> Nat]
    /\ Parent(t, t.root) = Null
    /\ \A n \in Heap(t) :
        /\ level[n] =< level[t.root]
        /\ Leaf(t, n) <=> level[n] = 0
        /\ KidCount(t, n) = IF Leaf(t, n) THEN 0 ELSE KeyCount(t, n) + 1
        /\ \A i \in 1..KidCount(t, n) :
            /\ level[Kid(t, n, i)] = level[n] - 1
            /\ Parent(t, Kid(t, n, i)) = n
            /\ \A j \in 1..KidCount(t, n) : Kid(t, n, i) = Kid(t, n, j) => i = j
        /\ n # t.root =>
            /\ Parent(t, n) \in Heap(t)
            /\ \E i \in 1..KidCount(t, Parent(t, n)) : Kid(t, Parent(t, n), i) = n

\* x is a key to be looked for below child i of node n.
Between(t, n, i, x) ==
    /\ i > 1 => KeyAt(t, n, i - 1) < x
    /\ i =< KeyCount(t, n) => x < KeyAt(t, n, i)

\* The root has all keys in its span, and a child those of its parent that are
\* between the keys beside it.
Spanned(t, span) ==
    /\ span \in [Heap(t) -> SUBSET Key]
    /\ span[t.root] = Key
    /\ \A n \in Heap(t) :
        /\ \A i \in 1..KeyCount(t, n) :
            /\ KeyAt(t, n, i) \in span[n]
            /\ \A j \in 1..KeyCount(t, n) : i < j => KeyAt(t, n, i) < KeyAt(t, n, j)
        /\ \A i \in 1..KidCount(t, n) : \A x \in Key :
            x \in span[Kid(t, n, i)] <=> x \in span[n] /\ Between(t, n, i, x)

\* A tree that is in order.
Formed(t, level, span) == Typed(t) /\ Linked(t, level) /\ Spanned(t, span)

\* The types of what a node has.
LEMMA TypedFacts ==
    ASSUME NEW t, Typed(t), NEW n \in Heap(t)
    PROVE  /\ n \in Nat \ {0}
           /\ Leaf(t, n) \in BOOLEAN
           /\ Ents(t, n) \in Seq(Entry)
           /\ Kids(t, n) \in Seq(Heap(t))
           /\ Parent(t, n) \in Nat
           /\ KeyCount(t, n) \in Nat
           /\ KidCount(t, n) \in Nat
           /\ \A i \in 1..KeyCount(t, n) :
                EntAt(t, n, i) \in Entry /\ KeyAt(t, n, i) \in Key /\ KeyAt(t, n, i) \in Int
           /\ \A i \in 1..KidCount(t, n) : Kid(t, n, i) \in Heap(t)
<1>1. /\ n \in Nat \ {0} /\ Leaf(t, n) \in BOOLEAN /\ Ents(t, n) \in Seq(Entry)
      /\ Kids(t, n) \in Seq(Heap(t)) /\ Parent(t, n) \in Nat
  BY DEF Typed
<1>2. KeyCount(t, n) \in Nat /\ \A i \in 1..KeyCount(t, n) : EntAt(t, n, i) \in Entry
  BY <1>1 DEF KeyCount, EntAt
<1>3. KidCount(t, n) \in Nat /\ \A i \in 1..KidCount(t, n) : Kid(t, n, i) \in Heap(t)
  BY <1>1 DEF KidCount, Kid
<1>4. \A i \in 1..KeyCount(t, n) : KeyAt(t, n, i) \in Key
  BY <1>2, EntKey DEF Entry
<1>5. Key \subseteq Int
  BY BTreeAssumption
<1>6. QED
  BY <1>1, <1>2, <1>3, <1>4, <1>5

\* Slot is the first slot whose key is not below k.
LEMMA SlotFacts ==
    ASSUME NEW ents \in Seq(Entry), NEW k \in Key, NEW s, s = Slot(ents, k)
    PROVE  /\ s \in 1..(Len(ents) + 1)
           /\ \A i \in 1..Len(ents) : i < s => ents[i].key < k
           /\ s =< Len(ents) => k =< ents[s].key
           /\ Here(ents, k) <=> s =< Len(ents) /\ ents[s].key = k
<1> DEFINE at == {i \in 1..Len(ents) : k =< ents[i].key}
<1>1. Key \subseteq Int
  BY BTreeAssumption
<1>2. \A i \in 1..Len(ents) : ents[i].key \in Int
  <2>1. \A i \in 1..Len(ents) : ents[i] \in Entry
    OBVIOUS
  <2>2. QED
    BY <2>1, <1>1 DEF Entry
<1>3. Len(ents) \in Nat /\ DOMAIN ents = 1..Len(ents)
  OBVIOUS
<1>4. s = IF at = {} THEN Len(ents) + 1 ELSE Min(at)
  BY DEF Slot
<1>5. CASE at = {}
  <2>1. s = Len(ents) + 1
    BY <1>4, <1>5
  <2>2. \A i \in 1..Len(ents) : ~(k =< ents[i].key)
    BY <1>5
  <2>3. ~Here(ents, k)
    BY <2>1, <1>3 DEF Here
  <2> HIDE DEF at
  <2>4. QED
    BY <1>1, <1>2, <1>3, <2>1, <2>2, <2>3
<1>6. CASE at # {}
  <2>1. s \in at /\ \A y \in at : s =< y
    <3>1. at \in SUBSET Nat
      OBVIOUS
    <3>2. QED
      BY <1>4, <1>6, <3>1, MinIs
  <2>2. s \in 1..Len(ents) /\ k =< ents[s].key
    BY <2>1
  <2>3. \A i \in 1..Len(ents) : i < s => ~(k =< ents[i].key)
    BY <1>3, <2>1
  <2>4. Here(ents, k) <=> ents[s].key = k
    BY <1>3, <2>2 DEF Here
  <2> HIDE DEF at
  <2>5. QED
    BY <1>1, <1>2, <1>3, <2>2, <2>3, <2>4
<1>7. QED
  BY <1>5, <1>6

\* The same of the entries of a node.
LEMMA NodeSlot ==
    ASSUME NEW t, Typed(t), NEW n \in Heap(t), NEW k \in Key,
           NEW s, s = Slot(Ents(t, n), k)
    PROVE  /\ s \in 1..(KeyCount(t, n) + 1)
           /\ \A i \in 1..KeyCount(t, n) : i < s => KeyAt(t, n, i) < k
           /\ s =< KeyCount(t, n) => k =< KeyAt(t, n, s)
           /\ Here(Ents(t, n), k) <=> s =< KeyCount(t, n) /\ KeyAt(t, n, s) = k
  BY TypedFacts, SlotFacts DEF KeyCount, KeyAt

\* In a sorted node there is one place where a key belongs.
LEMMA SortedSlot ==
    ASSUME NEW t, NEW span, Typed(t), Spanned(t, span), NEW n \in Heap(t), NEW k \in Key,
           NEW i \in 1..(KeyCount(t, n) + 1),
           \/ Between(t, n, i, k)
           \/ i =< KeyCount(t, n) /\ KeyAt(t, n, i) = k
    PROVE  Slot(Ents(t, n), k) = i
<1> DEFINE s == Slot(Ents(t, n), k)
<1>1. /\ s \in 1..(KeyCount(t, n) + 1)
      /\ \A j \in 1..KeyCount(t, n) : j < s => KeyAt(t, n, j) < k
      /\ s =< KeyCount(t, n) => k =< KeyAt(t, n, s)
  BY NodeSlot
<1>2. /\ KeyCount(t, n) \in Nat /\ k \in Int
      /\ \A j \in 1..KeyCount(t, n) : KeyAt(t, n, j) \in Int
  BY TypedFacts, BTreeAssumption
<1>3. \A j, l \in 1..KeyCount(t, n) : j < l => KeyAt(t, n, j) < KeyAt(t, n, l)
  BY DEF Spanned
<1> HIDE DEF s
<1>4. CASE Between(t, n, i, k)
  <2>1. /\ i > 1 => KeyAt(t, n, i - 1) < k
        /\ i =< KeyCount(t, n) => k < KeyAt(t, n, i)
    BY <1>4 DEF Between
  <2>2. ~(s < i)
    <3>1. SUFFICES ASSUME s < i PROVE FALSE
      OBVIOUS
    <3>2. s \in 1..KeyCount(t, n) /\ i - 1 \in 1..KeyCount(t, n)
      BY <1>1, <1>2, <3>1
    <3>3. s = i - 1 \/ KeyAt(t, n, s) < KeyAt(t, n, i - 1)
      BY <1>1, <1>2, <1>3, <3>1, <3>2
    <3>4. QED
      BY <1>1, <1>2, <2>1, <3>1, <3>2, <3>3
  <2>3. ~(i < s)
    BY <1>1, <1>2, <2>1
  <2>4. QED
    BY <1>1, <1>2, <2>2, <2>3 DEF s
<1>5. CASE i =< KeyCount(t, n) /\ KeyAt(t, n, i) = k
  <2>1. ~(s < i)
    BY <1>1, <1>2, <1>3, <1>5
  <2>2. ~(i < s)
    BY <1>1, <1>2, <1>5
  <2>3. QED
    BY <1>1, <1>2, <2>1, <2>2 DEF s
<1>6. QED
  BY <1>4, <1>5

\* Here says that a key is in a sorted node.
LEMMA HereFacts ==
    ASSUME NEW t, NEW span, Typed(t), Spanned(t, span), NEW n \in Heap(t), NEW k \in Key
    PROVE  Here(Ents(t, n), k) <=> \E i \in 1..KeyCount(t, n) : KeyAt(t, n, i) = k
<1> DEFINE s == Slot(Ents(t, n), k)
<1>1. /\ s \in 1..(KeyCount(t, n) + 1)
      /\ Here(Ents(t, n), k) <=> s =< KeyCount(t, n) /\ KeyAt(t, n, s) = k
  BY NodeSlot
<1>2. KeyCount(t, n) \in Nat
  BY TypedFacts
<1>3. ASSUME NEW i \in 1..KeyCount(t, n), KeyAt(t, n, i) = k
      PROVE  s = i
  BY <1>2, <1>3, SortedSlot
<1> HIDE DEF s
<1>4. QED
  BY <1>1, <1>2, <1>3

\* A search for a key that is in the span of a node, and not in the node, goes
\* on to the child that has it in its span.
LEMMA StepDown ==
    ASSUME NEW t, NEW level, NEW span, Formed(t, level, span), NEW n \in Heap(t),
           ~Leaf(t, n), NEW k \in span[n], NEW s, s = Slot(Ents(t, n), k),
           ~Here(Ents(t, n), k)
    PROVE  /\ s \in 1..KidCount(t, n)
           /\ Kid(t, n, s) \in Heap(t) /\ k \in span[Kid(t, n, s)]
           /\ level[Kid(t, n, s)] = level[n] - 1
<1>1. Typed(t) /\ Linked(t, level) /\ Spanned(t, span)
  BY DEF Formed
<1>2. k \in Key
  BY <1>1 DEF Spanned
<1>3. /\ s \in 1..(KeyCount(t, n) + 1)
      /\ \A i \in 1..KeyCount(t, n) : i < s => KeyAt(t, n, i) < k
      /\ s =< KeyCount(t, n) => k =< KeyAt(t, n, s)
      /\ ~(s =< KeyCount(t, n) /\ KeyAt(t, n, s) = k)
  BY <1>1, <1>2, NodeSlot
<1>4. /\ KeyCount(t, n) \in Nat /\ k \in Int
      /\ \A j \in 1..KeyCount(t, n) : KeyAt(t, n, j) \in Int
      /\ \A i \in 1..KidCount(t, n) : Kid(t, n, i) \in Heap(t)
  BY <1>1, <1>2, TypedFacts, BTreeAssumption
<1>5. KidCount(t, n) = KeyCount(t, n) + 1
  BY <1>1 DEF Linked
<1>6. Between(t, n, s, k)
  BY <1>3, <1>4 DEF Between
<1>7. s \in 1..KidCount(t, n)
  BY <1>3, <1>5
<1>8. k \in span[Kid(t, n, s)]
  BY <1>1, <1>2, <1>6, <1>7 DEF Spanned
<1>9. level[Kid(t, n, s)] = level[n] - 1
  BY <1>1, <1>7 DEF Linked
<1>10. QED
  BY <1>4, <1>7, <1>8, <1>9

\* A node that is no leaf has a child more than entries.
LEMMA Counts ==
    ASSUME NEW t, NEW level, Typed(t), Linked(t, level), NEW n \in Heap(t)
    PROVE  /\ KeyCount(t, n) \in Nat /\ KidCount(t, n) \in Nat
           /\ KidCount(t, n) =< KeyCount(t, n) + 1
           /\ ~Leaf(t, n) => KidCount(t, n) = KeyCount(t, n) + 1
           /\ Leaf(t, n) => KidCount(t, n) = 0
           /\ \A i \in 1..KidCount(t, n) : i \in 1..(KeyCount(t, n) + 1)
           /\ level[n] \in Nat
<1>1. KeyCount(t, n) \in Nat /\ KidCount(t, n) \in Nat
  BY TypedFacts
<1>2. KidCount(t, n) = IF Leaf(t, n) THEN 0 ELSE KeyCount(t, n) + 1
  BY DEF Linked
<1>3. level[n] \in Nat
  BY DEF Linked
<1>4. QED
  BY <1>1, <1>2, <1>3

\* A node's parent is one level up, and its span holds the node's.
LEMMA ParentFacts ==
    ASSUME NEW t, NEW level, NEW span, Formed(t, level, span),
           NEW n \in Heap(t), n # t.root
    PROVE  /\ Parent(t, n) \in Heap(t)
           /\ level[Parent(t, n)] = level[n] + 1
           /\ span[n] \subseteq span[Parent(t, n)]
           /\ \E i \in 1..KidCount(t, Parent(t, n)) :
                /\ Kid(t, Parent(t, n), i) = n
                /\ \A x \in span[n] : Between(t, Parent(t, n), i, x)
<1> DEFINE q == Parent(t, n)
<1>1. Typed(t) /\ Linked(t, level) /\ Spanned(t, span)
  BY DEF Formed
<1>2. q \in Heap(t) /\ \E i \in 1..KidCount(t, q) : Kid(t, q, i) = n
  BY <1>1 DEF Linked
<1> HIDE DEF q
<1>3. PICK i \in 1..KidCount(t, q) : Kid(t, q, i) = n
  BY <1>2
<1>4. level[n] = level[q] - 1 /\ level[n] \in Nat /\ level[q] \in Nat
  BY <1>1, <1>2, <1>3 DEF Linked
<1>5. \A x \in Key : x \in span[n] <=> x \in span[q] /\ Between(t, q, i, x)
  BY <1>1, <1>2, <1>3 DEF Spanned
<1>6. span[n] \subseteq Key
  BY <1>1 DEF Spanned
<1>7. QED
  BY <1>2, <1>3, <1>4, <1>5, <1>6 DEF q

\* No two nodes of a level have a key in their spans.
LEMMA OneSpan ==
    ASSUME NEW t, NEW level, NEW span, Formed(t, level, span),
           NEW n \in Heap(t), NEW m \in Heap(t), level[n] = level[m],
           NEW k \in span[n], k \in span[m]
    PROVE  n = m
<1> DEFINE top == level[t.root]
           P == {d \in 0..top : \A x, y \in Heap(t) :
                    /\ level[x] = top - d /\ level[y] = top - d
                    /\ k \in span[x] /\ k \in span[y]
                    => x = y}
<1>1. Typed(t) /\ Linked(t, level) /\ Spanned(t, span)
  BY DEF Formed
<1>2. t.root \in Heap(t) /\ top \in Nat
  BY <1>1 DEF Typed, Linked
<1>3. \A x \in Heap(t) : level[x] \in Nat /\ level[x] =< top
  BY <1>1 DEF Linked
<1>4. \A x \in Heap(t) : level[x] = top => x = t.root
  <2>1. SUFFICES ASSUME NEW x \in Heap(t), level[x] = top, x # t.root PROVE FALSE
    OBVIOUS
  <2>2. Parent(t, x) \in Heap(t) /\ level[Parent(t, x)] = level[x] + 1
    BY <2>1, ParentFacts
  <2>3. QED
    BY <1>2, <1>3, <2>1, <2>2
<1>5. 0 \in P
  BY <1>2, <1>4
<1>6. ASSUME NEW d \in 0..top, d \in P, d < top
      PROVE  d + 1 \in P
  <2>1. SUFFICES ASSUME NEW x \in Heap(t), NEW y \in Heap(t),
                        level[x] = top - (d + 1), level[y] = top - (d + 1),
                        k \in span[x], k \in span[y]
                 PROVE  x = y
    BY <1>2, <1>6
  <2> DEFINE q == Parent(t, x)
             r == Parent(t, y)
  <2>2. x # t.root /\ y # t.root
    BY <1>2, <2>1
  <2>3. /\ q \in Heap(t) /\ level[q] = level[x] + 1 /\ k \in span[q]
        /\ \E i \in 1..KidCount(t, q) : Kid(t, q, i) = x /\ Between(t, q, i, k)
    BY <2>1, <2>2, ParentFacts
  <2>4. /\ r \in Heap(t) /\ level[r] = level[y] + 1 /\ k \in span[r]
        /\ \E i \in 1..KidCount(t, r) : Kid(t, r, i) = y /\ Between(t, r, i, k)
    BY <2>1, <2>2, ParentFacts
  <2> HIDE DEF q, r
  <2>5. level[q] = top - d /\ level[r] = top - d
    BY <1>2, <2>1, <2>3, <2>4
  <2>6. q = r
    BY <1>6, <2>3, <2>4, <2>5
  <2>7. PICK i \in 1..KidCount(t, q) : Kid(t, q, i) = x /\ Between(t, q, i, k)
    BY <2>3
  <2>8. PICK j \in 1..KidCount(t, q) : Kid(t, q, j) = y /\ Between(t, q, j, k)
    BY <2>4, <2>6
  <2>9. k \in Key
    BY <1>1 DEF Spanned
  <2>10. KidCount(t, q) \in Nat /\ KidCount(t, q) =< KeyCount(t, q) + 1 /\ KeyCount(t, q) \in Nat
    BY <1>1, <2>3, Counts
  <2>11. i \in 1..(KeyCount(t, q) + 1) /\ j \in 1..(KeyCount(t, q) + 1)
    BY <2>10
  <2>12. i = j
    BY <1>1, <2>3, <2>7, <2>8, <2>9, <2>11, SortedSlot
  <2>13. QED
    BY <2>7, <2>8, <2>12
<1>7. \A d \in 0..top : d \in P
  <2> HIDE DEF P
  <2>1. top \in Nat
    BY <1>2
  <2> HIDE DEF top
  <2>2. QED
    BY <1>5, <1>6, <2>1, Induction
<1>8. top - level[n] \in P
  BY <1>2, <1>3, <1>7
<1>9. top - (top - level[n]) = level[n]
  BY <1>2, <1>3
<1>10. QED
  BY <1>8, <1>9

\* A node is above all that have one of its keys in their spans.
LEMMA NoKeyAbove ==
    ASSUME NEW t, NEW level, NEW span, Formed(t, level, span),
           NEW n \in Heap(t), NEW m \in Heap(t), level[n] < level[m],
           NEW k \in span[n]
    PROVE  \A i \in 1..KeyCount(t, m) : KeyAt(t, m, i) # k
<1> DEFINE top == level[t.root]
           P == {d \in 0..top : \A x, y \in Heap(t) :
                    level[x] = top - d /\ level[x] < level[y] /\ k \in span[x]
                    => \A i \in 1..KeyCount(t, y) : KeyAt(t, y, i) # k}
<1>1. Typed(t) /\ Linked(t, level) /\ Spanned(t, span)
  BY DEF Formed
<1>2. t.root \in Heap(t) /\ top \in Nat
  BY <1>1 DEF Typed, Linked
<1>3. \A x \in Heap(t) : level[x] \in Nat /\ level[x] =< top
  BY <1>1 DEF Linked
<1>4. k \in Key
  BY <1>1 DEF Spanned
<1>5. 0 \in P
  BY <1>2, <1>3
<1>6. ASSUME NEW d \in 0..top, d \in P, d < top
      PROVE  d + 1 \in P
  <2>1. SUFFICES ASSUME NEW x \in Heap(t), NEW y \in Heap(t),
                        level[x] = top - (d + 1), level[x] < level[y], k \in span[x],
                        NEW i \in 1..KeyCount(t, y), KeyAt(t, y, i) = k
                 PROVE  FALSE
    BY <1>2, <1>6
  <2> DEFINE q == Parent(t, x)
  <2>2. x # t.root
    BY <1>2, <2>1
  <2>3. /\ q \in Heap(t) /\ level[q] = level[x] + 1 /\ k \in span[q]
        /\ \E j \in 1..KidCount(t, q) : Kid(t, q, j) = x /\ Between(t, q, j, k)
    BY <2>1, <2>2, ParentFacts
  <2> HIDE DEF q
  <2>4. level[q] = top - d
    BY <1>2, <2>1, <2>3
  <2>5. level[y] = level[q]
    <3>1. level[q] < level[y] => \A l \in 1..KeyCount(t, y) : KeyAt(t, y, l) # k
      BY <1>6, <2>3, <2>4
    <3>2. QED
      BY <1>3, <2>1, <2>3, <3>1
  <2>6. k \in span[y]
    BY <1>1, <2>1 DEF Spanned
  <2>7. y = q
    BY <2>3, <2>5, <2>6, OneSpan
  <2>8. PICK j \in 1..KidCount(t, q) : Kid(t, q, j) = x /\ Between(t, q, j, k)
    BY <2>3
  <2>9. /\ KidCount(t, q) \in Nat /\ KidCount(t, q) =< KeyCount(t, q) + 1
        /\ KeyCount(t, q) \in Nat
        /\ \A l \in 1..KeyCount(t, q) : KeyAt(t, q, l) \in Int
    <3>1. KidCount(t, q) \in Nat /\ KidCount(t, q) =< KeyCount(t, q) + 1
          /\ KeyCount(t, q) \in Nat
      BY <1>1, <2>3, Counts
    <3>2. QED
      BY <1>1, <2>3, <3>1, TypedFacts
  <2>10. i \in 1..(KeyCount(t, q) + 1) /\ j \in 1..(KeyCount(t, q) + 1) /\ i =< KeyCount(t, q)
    BY <2>1, <2>7, <2>9
  <2>11. Slot(Ents(t, q), k) = i
    BY <1>1, <1>4, <2>1, <2>3, <2>7, <2>10, SortedSlot
  <2>12. Slot(Ents(t, q), k) = j
    BY <1>1, <1>4, <2>3, <2>8, <2>10, SortedSlot
  <2>13. QED
    BY <1>4, <2>1, <2>7, <2>8, <2>9, <2>10, <2>11, <2>12, BTreeAssumption DEF Between
<1>7. \A d \in 0..top : d \in P
  <2> HIDE DEF P
  <2>1. top \in Nat
    BY <1>2
  <2> HIDE DEF top
  <2>2. QED
    BY <1>5, <1>6, <2>1, Induction
<1>8. top - level[n] \in P
  BY <1>2, <1>3, <1>7
<1>9. top - (top - level[n]) = level[n]
  BY <1>2, <1>3
<1>10. QED
  BY <1>8, <1>9

\* Where a search ends is where the key is, if it is anywhere.
LEMMA OnePlace ==
    ASSUME NEW t, NEW level, NEW span, Formed(t, level, span), NEW n \in Heap(t),
           NEW k \in span[n], Here(Ents(t, n), k) \/ Leaf(t, n),
           NEW m \in Heap(t), NEW i \in 1..KeyCount(t, m), KeyAt(t, m, i) = k
    PROVE  m = n
<1>1. Typed(t) /\ Linked(t, level) /\ Spanned(t, span)
  BY DEF Formed
<1>2. k \in span[m] /\ k \in Key
  BY <1>1 DEF Spanned
<1>3. level[m] \in Nat /\ level[n] \in Nat
  BY <1>1 DEF Linked
<1>4. ~(level[n] < level[m])
  BY <1>2, NoKeyAbove
<1>5. ~(level[m] < level[n])
  <2>1. SUFFICES ASSUME level[m] < level[n] PROVE FALSE
    OBVIOUS
  <2>2. \A j \in 1..KeyCount(t, n) : KeyAt(t, n, j) # k
    BY <1>2, <2>1, NoKeyAbove
  <2>3. ~Here(Ents(t, n), k)
    BY <1>1, <1>2, <2>2, HereFacts
  <2>4. level[n] = 0
    BY <1>1, <2>3 DEF Linked
  <2>5. QED
    BY <1>3, <2>1, <2>4
<1>6. QED
  BY <1>2, <1>3, <1>4, <1>5, OneSpan

\* A key is there once.
LEMMA OneEntry ==
    ASSUME NEW t, NEW level, NEW span, Formed(t, level, span),
           NEW n \in Heap(t), NEW i \in 1..KeyCount(t, n),
           NEW m \in Heap(t), NEW j \in 1..KeyCount(t, m), KeyAt(t, n, i) = KeyAt(t, m, j)
    PROVE  n = m /\ i = j
<1> DEFINE k == KeyAt(t, n, i)
<1>1. Typed(t) /\ Linked(t, level) /\ Spanned(t, span)
  BY DEF Formed
<1>2. k \in span[n] /\ k \in Key
  BY <1>1 DEF Spanned
<1>3. Here(Ents(t, n), k)
  BY <1>1, <1>2, HereFacts
<1> HIDE DEF k
<1>4. n = m
  BY <1>2, <1>3, OnePlace DEF k
<1>5. KeyCount(t, n) \in Nat
  BY <1>1, TypedFacts
<1>6. i = j
  BY <1>1, <1>2, <1>4, <1>5, SortedSlot DEF k
<1>7. QED
  BY <1>4, <1>6

(***************************************************************************)
(* A node split, and two joined.                                           *)
(***************************************************************************)
\* What is held is in some slot of some node.
LEMMA HeldFacts ==
    ASSUME NEW t, Typed(t), NEW e
    PROVE  e \in Held(t) <=> \E n \in Heap(t) : \E i \in 1..KeyCount(t, n) : EntAt(t, n, i) = e
<1>1. \A n \in Heap(t) : ToSet(Ents(t, n)) = {EntAt(t, n, i) : i \in 1..KeyCount(t, n)}
  <2>1. TAKE n \in Heap(t)
  <2>2. DOMAIN Ents(t, n) = 1..KeyCount(t, n)
    BY TypedFacts DEF KeyCount
  <2>3. QED
    BY <2>2 DEF ToSet, EntAt
<1>2. QED
  BY <1>1 DEF Held

\* Nodes with the same entries agree on all that is said of entries.
LEMMA SameEnts ==
    ASSUME NEW t, NEW u, NEW n, NEW m, Ents(u, n) = Ents(t, m)
    PROVE  /\ KeyCount(u, n) = KeyCount(t, m)
           /\ \A i : KeyAt(u, n, i) = KeyAt(t, m, i) /\ EntAt(u, n, i) = EntAt(t, m, i)
           /\ \A i, x : Between(u, n, i, x) <=> Between(t, m, i, x)
  BY DEF KeyCount, KeyAt, EntAt, Between

\* Nodes with the same children agree on all that is said of children.
LEMMA SameKids ==
    ASSUME NEW t, NEW u, NEW n, NEW m, Kids(u, n) = Kids(t, m)
    PROVE  KidCount(u, n) = KidCount(t, m) /\ \A i : Kid(u, n, i) = Kid(t, m, i)
  BY DEF KidCount, Kid

\* u is t with node p, child j of q, split at its entry m, which goes up; r is
\* the new node to the right.
Splits(t, u, q, j, p, m, r) ==
    /\ u.root = t.root
    /\ Heap(u) = Heap(t) \cup {r}
    /\ \A n \in Heap(t) : Leaf(u, n) = Leaf(t, n)
    /\ Leaf(u, r) = Leaf(t, p)
    /\ Parent(u, r) = q
    /\ \A n \in Heap(t) :
        Parent(u, n) = IF \E i \in (m + 1)..KidCount(t, p) : Kid(t, p, i) = n
                       THEN r ELSE Parent(t, n)
    /\ \A n \in Heap(t) \ {p, q} : Ents(u, n) = Ents(t, n) /\ Kids(u, n) = Kids(t, n)
    /\ KeyCount(u, q) = KeyCount(t, q) + 1
    /\ \A i \in 1..(KeyCount(t, q) + 1) :
        EntAt(u, q, i) = IF i < j THEN EntAt(t, q, i)
                         ELSE IF i = j THEN EntAt(t, p, m) ELSE EntAt(t, q, i - 1)
    /\ KidCount(u, q) = KidCount(t, q) + 1
    /\ \A i \in 1..(KidCount(t, q) + 1) :
        Kid(u, q, i) = IF i < j + 1 THEN Kid(t, q, i)
                       ELSE IF i = j + 1 THEN r ELSE Kid(t, q, i - 1)
    /\ KeyCount(u, p) = m - 1
    /\ \A i \in 1..(m - 1) : EntAt(u, p, i) = EntAt(t, p, i)
    /\ KidCount(u, p) = IF Leaf(t, p) THEN 0 ELSE m
    /\ \A i \in 1..m : ~Leaf(t, p) => Kid(u, p, i) = Kid(t, p, i)
    /\ KeyCount(u, r) = KeyCount(t, p) - m
    /\ \A i \in 1..(KeyCount(t, p) - m) : EntAt(u, r, i) = EntAt(t, p, i + m)
    /\ KidCount(u, r) = IF Leaf(t, p) THEN 0 ELSE KidCount(t, p) - m
    /\ \A i \in 1..(KidCount(t, p) - m) : ~Leaf(t, p) => Kid(u, r, i) = Kid(t, p, i + m)

\* The keys after a split.
LEMMA SplitKeys ==
    ASSUME NEW t, NEW u, NEW q, NEW j, NEW p, NEW m, NEW r, Splits(t, u, q, j, p, m, r)
    PROVE  /\ \A i \in 1..(KeyCount(t, q) + 1) :
                KeyAt(u, q, i) = IF i < j THEN KeyAt(t, q, i)
                                 ELSE IF i = j THEN KeyAt(t, p, m) ELSE KeyAt(t, q, i - 1)
           /\ \A i \in 1..(m - 1) : KeyAt(u, p, i) = KeyAt(t, p, i)
           /\ \A i \in 1..(KeyCount(t, p) - m) : KeyAt(u, r, i) = KeyAt(t, p, i + m)
  BY EntKey DEF Splits

\* Where a node that is split is.
LEMMA SplitPlace ==
    ASSUME NEW t, NEW level, NEW span, Formed(t, level, span),
           NEW q \in Heap(t), NEW j \in 1..KidCount(t, q), NEW p, p = Kid(t, q, j)
    PROVE  /\ p \in Heap(t) /\ p # q /\ p # t.root
           /\ Parent(t, p) = q
           /\ ~Leaf(t, q)
           /\ level[p] = level[q] - 1 /\ level[p] \in Nat /\ level[q] \in Nat
           /\ KidCount(t, q) = KeyCount(t, q) + 1
           /\ KidCount(t, p) = IF Leaf(t, p) THEN 0 ELSE KeyCount(t, p) + 1
           /\ \A x \in Key : x \in span[p] <=> x \in span[q] /\ Between(t, q, j, x)
           /\ span[p] \subseteq span[q]
<1>1. Typed(t) /\ Linked(t, level) /\ Spanned(t, span)
  BY DEF Formed
<1>2. p \in Heap(t) /\ Null \notin Heap(t)
  BY <1>1, TypedFacts DEF Typed, Null
<1>3. Parent(t, p) = q /\ level[p] = level[q] - 1
  BY <1>1 DEF Linked
<1>4. level[p] \in Nat /\ level[q] \in Nat /\ Parent(t, t.root) = Null
  BY <1>1, <1>2 DEF Linked
<1>5. p # q /\ p # t.root
  BY <1>2, <1>3, <1>4
<1>6. KidCount(t, p) = IF Leaf(t, p) THEN 0 ELSE KeyCount(t, p) + 1
  BY <1>1, <1>2 DEF Linked
<1>7. ~Leaf(t, q) /\ KidCount(t, q) = KeyCount(t, q) + 1
  BY <1>1 DEF Linked
<1>8. \A x \in Key : x \in span[p] <=> x \in span[q] /\ Between(t, q, j, x)
  BY <1>1 DEF Spanned
<1>9. span[p] \subseteq Key
  BY <1>1, <1>2 DEF Spanned
<1>10. QED
  BY <1>2, <1>3, <1>4, <1>5, <1>6, <1>7, <1>8, <1>9

\* What is known of the children of a node.
LEMMA KidFacts ==
    ASSUME NEW t, NEW level, NEW span, Formed(t, level, span), NEW n \in Heap(t)
    PROVE  \A i \in 1..KidCount(t, n) :
            /\ Kid(t, n, i) \in Heap(t) /\ Kid(t, n, i) # n
            /\ Parent(t, Kid(t, n, i)) = n
            /\ level[Kid(t, n, i)] = level[n] - 1
            /\ \A l \in 1..KidCount(t, n) : Kid(t, n, i) = Kid(t, n, l) => i = l
            /\ \A x \in Key :
                x \in span[Kid(t, n, i)] <=> x \in span[n] /\ Between(t, n, i, x)
<1>1. Typed(t) /\ Linked(t, level) /\ Spanned(t, span)
  BY DEF Formed
<1>2. TAKE i \in 1..KidCount(t, n)
<1>3. Kid(t, n, i) # n /\ Parent(t, Kid(t, n, i)) = n /\ level[Kid(t, n, i)] = level[n] - 1
  BY SplitPlace
<1>4. \A l \in 1..KidCount(t, n) : Kid(t, n, i) = Kid(t, n, l) => i = l
  BY <1>1 DEF Linked
<1>5. \A x \in Key : x \in span[Kid(t, n, i)] <=> x \in span[n] /\ Between(t, n, i, x)
  BY <1>1 DEF Spanned
<1>6. Kid(t, n, i) \in Heap(t)
  BY <1>1, TypedFacts
<1>7. QED
  BY <1>3, <1>4, <1>5, <1>6

\* What is known of the keys of a node.
LEMMA KeyFacts ==
    ASSUME NEW t, NEW span, Typed(t), Spanned(t, span), NEW n \in Heap(t)
    PROVE  \A i \in 1..KeyCount(t, n) :
            /\ KeyAt(t, n, i) \in span[n] /\ KeyAt(t, n, i) \in Key /\ KeyAt(t, n, i) \in Int
            /\ \A j \in 1..KeyCount(t, n) : i < j => KeyAt(t, n, i) < KeyAt(t, n, j)
<1>1. \A i \in 1..KeyCount(t, n) : KeyAt(t, n, i) \in Key /\ KeyAt(t, n, i) \in Int
  BY TypedFacts
<1>2. QED
  BY <1>1 DEF Spanned

\* A split keeps the levels: the new node is on that of the old one.
LEMMA SplitLinked ==
    ASSUME NEW t, NEW u, NEW level, NEW span, Formed(t, level, span), Typed(u),
           NEW q \in Heap(t), NEW j \in 1..KidCount(t, q), NEW p, p = Kid(t, q, j),
           NEW m \in 1..KeyCount(t, p), NEW r, r \notin Heap(t),
           Splits(t, u, q, j, p, m, r)
    PROVE  Linked(u, [n \in Heap(u) |-> IF n = r THEN level[p] ELSE level[n]])
<1> DEFINE H == Heap(t)
           level2 == [n \in Heap(u) |-> IF n = r THEN level[p] ELSE level[n]]
<1>1. Typed(t) /\ Linked(t, level)
  BY DEF Formed
<1>2. /\ p \in H /\ p # q /\ p # t.root /\ Parent(t, p) = q /\ ~Leaf(t, q)
      /\ level[p] = level[q] - 1 /\ level[p] \in Nat /\ level[q] \in Nat
      /\ KidCount(t, q) = KeyCount(t, q) + 1
      /\ KidCount(t, p) = IF Leaf(t, p) THEN 0 ELSE KeyCount(t, p) + 1
  BY SplitPlace
<1>3. /\ q # r /\ p # r /\ t.root \in H /\ t.root # r /\ u.root = t.root
      /\ Heap(u) = H \cup {r} /\ Null \notin H /\ Null \notin Heap(u)
  BY <1>1, <1>2 DEF Typed, Splits, Null
<1>4. /\ level2 \in [Heap(u) -> Nat] /\ level2[r] = level[p]
      /\ \A n \in H : level2[n] = level[n] /\ level[n] \in Nat /\ level[n] =< level[t.root]
  BY <1>1, <1>2, <1>3 DEF Linked
<1> HIDE DEF level2
<1>5. \A n \in H : \A i \in 1..KidCount(t, n) :
            /\ Kid(t, n, i) \in H /\ Kid(t, n, i) # r /\ Parent(t, Kid(t, n, i)) = n
            /\ level[Kid(t, n, i)] = level[n] - 1
            /\ \A l \in 1..KidCount(t, n) : Kid(t, n, i) = Kid(t, n, l) => i = l
  BY KidFacts
<1>6. /\ KeyCount(t, q) \in Nat /\ KidCount(t, q) \in Nat /\ KeyCount(t, p) \in Nat
      /\ KidCount(t, p) \in Nat /\ m \in Nat /\ j \in Nat
  BY <1>1, <1>2, TypedFacts
<1> DEFINE moved(n) == \E i \in (m + 1)..KidCount(t, p) : Kid(t, p, i) = n
<1>7. \A n \in H : Parent(u, n) = IF moved(n) THEN r ELSE Parent(t, n)
  BY DEF Splits
<1>8. \A n \in H : moved(n) => Parent(t, n) = p
  BY <1>2, <1>5, <1>6
<1>9. \A n \in H : Parent(t, n) # p => Parent(u, n) = Parent(t, n)
  BY <1>7, <1>8
<1>10. Parent(u, u.root) = Null
  BY <1>1, <1>2, <1>3, <1>9 DEF Linked
<1>11. ASSUME NEW n \in Heap(u)
       PROVE  /\ level2[n] =< level2[u.root]
              /\ Leaf(u, n) <=> level2[n] = 0
              /\ KidCount(u, n) = IF Leaf(u, n) THEN 0 ELSE KeyCount(u, n) + 1
  <2>1. level2[n] =< level2[u.root]
    BY <1>2, <1>3, <1>4
  <2>2. Leaf(u, n) <=> level2[n] = 0
    BY <1>1, <1>2, <1>3, <1>4 DEF Splits, Linked
  <2>3. CASE n \in H \ {p, q}
    <3>1. KeyCount(u, n) = KeyCount(t, n) /\ KidCount(u, n) = KidCount(t, n)
      BY <2>3, SameEnts, SameKids DEF Splits
    <3>2. QED
      BY <1>1, <2>1, <2>2, <2>3, <3>1 DEF Linked, Splits
  <2>4. CASE n = q
    BY <1>2, <1>6, <2>1, <2>2, <2>4 DEF Splits
  <2>5. CASE n = p
    BY <1>2, <1>6, <2>1, <2>2, <2>5 DEF Splits
  <2>6. CASE n = r
    BY <1>2, <1>6, <2>1, <2>2, <2>6 DEF Splits
  <2>7. QED
    BY <1>3, <2>3, <2>4, <2>5, <2>6
<1>12. \A i \in 1..KidCount(u, q) :
        Kid(u, q, i) = IF i < j + 1 THEN Kid(t, q, i)
                       ELSE IF i = j + 1 THEN r ELSE Kid(t, q, i - 1)
  BY DEF Splits
<1>13. KidCount(u, q) = KidCount(t, q) + 1
  BY DEF Splits
<1>14. ASSUME NEW n \in Heap(u), NEW i \in 1..KidCount(u, n)
       PROVE  /\ level2[Kid(u, n, i)] = level2[n] - 1
              /\ Parent(u, Kid(u, n, i)) = n
              /\ \A l \in 1..KidCount(u, n) : Kid(u, n, i) = Kid(u, n, l) => i = l
  <2>1. CASE n \in H \ {p, q}
    <3>1. KidCount(u, n) = KidCount(t, n) /\ \A l : Kid(u, n, l) = Kid(t, n, l)
      BY <2>1, SameKids DEF Splits
    <3>2. QED
      BY <1>4, <1>5, <1>9, <2>1, <3>1
  <2>2. CASE n = q
    <3>1. Parent(u, r) = q
      BY DEF Splits
    <3>2. \A l \in 1..KidCount(t, q) :
            /\ level2[Kid(t, q, l)] = level2[q] - 1
            /\ Parent(u, Kid(t, q, l)) = q
      BY <1>2, <1>4, <1>5, <1>9
    <3>3. level2[r] = level2[q] - 1
      BY <1>2, <1>4
    <3>4. \A l \in 1..KidCount(u, q) : Kid(u, q, i) = Kid(u, q, l) => i = l
      BY <1>5, <1>6, <1>12, <1>13, <2>2
    <3>5. QED
      BY <1>6, <1>12, <1>13, <2>2, <3>1, <3>2, <3>3, <3>4
  <2>3. CASE n = p
    <3>1. ~Leaf(t, p) /\ KidCount(u, p) = m /\ KidCount(t, p) = KeyCount(t, p) + 1
      BY <1>2, <1>6, <2>3 DEF Splits
    <3>2. \A l \in 1..m : Kid(u, p, l) = Kid(t, p, l) /\ l \in 1..KidCount(t, p)
      BY <1>6, <3>1 DEF Splits
    <3>3. ~moved(Kid(t, p, i))
      BY <1>2, <1>5, <1>6, <2>3, <3>1, <3>2
    <3>4. QED
      BY <1>2, <1>4, <1>5, <1>7, <2>3, <3>1, <3>2, <3>3
  <2>4. CASE n = r
    <3>1. ~Leaf(t, p) /\ KidCount(u, r) = KidCount(t, p) - m
      BY <1>2, <1>6, <2>4 DEF Splits
    <3>2. \A l \in 1..KidCount(u, r) :
            /\ Kid(u, r, l) = Kid(t, p, l + m) /\ l + m \in 1..KidCount(t, p)
            /\ l + m \in (m + 1)..KidCount(t, p)
      BY <1>6, <3>1 DEF Splits
    <3>3. moved(Kid(t, p, i + m))
      BY <2>4, <3>2
    <3>4. /\ Kid(t, p, i + m) \in H /\ level[Kid(t, p, i + m)] = level[p] - 1
      BY <1>2, <1>5, <2>4, <3>2
    <3>5. Parent(u, Kid(u, r, i)) = r /\ level2[Kid(u, r, i)] = level2[r] - 1
      BY <1>4, <1>7, <2>4, <3>2, <3>3, <3>4
    <3>6. \A l \in 1..KidCount(u, r) : Kid(u, r, i) = Kid(u, r, l) => i = l
      <4>1. TAKE l \in 1..KidCount(u, r)
      <4>2. HAVE Kid(u, r, i) = Kid(u, r, l)
      <4>3. i + m = l + m
        BY <1>2, <1>5, <2>4, <3>2, <4>2
      <4>4. QED
        BY <1>6, <2>4, <3>1, <4>3
    <3>7. QED
      BY <2>4, <3>5, <3>6
  <2>5. QED
    BY <1>3, <2>1, <2>2, <2>3, <2>4
<1>15. ASSUME NEW n \in Heap(u), n # u.root
       PROVE  /\ Parent(u, n) \in Heap(u)
              /\ \E i \in 1..KidCount(u, Parent(u, n)) : Kid(u, Parent(u, n), i) = n
  <2>1. CASE n = r
    <3>1. Parent(u, r) = q
      BY DEF Splits
    <3>2. j + 1 \in 1..KidCount(u, q) /\ Kid(u, q, j + 1) = r
      BY <1>6, <1>12, <1>13
    <3>3. QED
      BY <1>3, <2>1, <3>1, <3>2
  <2>2. CASE n \in H /\ moved(n)
    <3>1. PICK i \in (m + 1)..KidCount(t, p) : Kid(t, p, i) = n
      BY <2>2
    <3>2. ~Leaf(t, p)
      BY <1>2, <1>6, <3>1
    <3>3. i - m \in 1..KidCount(u, r) /\ i - m \in 1..(KidCount(t, p) - m) /\ (i - m) + m = i
      BY <1>6, <3>1, <3>2 DEF Splits
    <3>4. Kid(u, r, i - m) = n
      BY <3>1, <3>2, <3>3 DEF Splits
    <3>5. Parent(u, n) = r
      BY <1>7, <2>2
    <3>6. QED
      BY <1>3, <3>3, <3>4, <3>5
  <2>3. CASE n \in H /\ ~moved(n)
    <3>1. Parent(u, n) = Parent(t, n)
      BY <1>7, <2>3
    <3>2. /\ Parent(t, n) \in H
          /\ \E i \in 1..KidCount(t, Parent(t, n)) : Kid(t, Parent(t, n), i) = n
      BY <1>1, <1>3, <1>15, <2>3 DEF Linked
    <3> DEFINE o == Parent(t, n)
    <3>3. PICK i \in 1..KidCount(t, o) : Kid(t, o, i) = n
      BY <3>2
    <3> HIDE DEF o
    <3>4. CASE o \in H \ {p, q}
      <4>1. KidCount(u, o) = KidCount(t, o) /\ Kid(u, o, i) = Kid(t, o, i)
        BY <3>4, SameKids DEF Splits
      <4>2. QED
        BY <1>3, <3>1, <3>2, <3>3, <4>1 DEF o
    <3>5. CASE o = p
      <4>1. ~Leaf(t, p) /\ ~(i \in (m + 1)..KidCount(t, p))
        BY <1>2, <1>6, <2>3, <3>3, <3>5
      <4>2. i \in 1..m /\ KidCount(u, p) = m
        BY <1>6, <3>3, <3>5, <4>1 DEF Splits
      <4>3. Kid(u, p, i) = Kid(t, p, i)
        BY <4>1, <4>2 DEF Splits
      <4>4. QED
        BY <1>2, <1>3, <3>1, <3>3, <3>5, <4>2, <4>3 DEF o
    <3>6. CASE o = q
      <4>1. i < j + 1 \/ i >= j + 1
        BY <1>6, <3>3, <3>6
      <4>2. CASE i < j + 1
        <5>1. i \in 1..KidCount(u, q) /\ Kid(u, q, i) = n
          BY <1>6, <1>12, <1>13, <3>3, <3>6, <4>2
        <5>2. QED
          BY <1>3, <3>1, <3>6, <5>1 DEF o
      <4>3. CASE i >= j + 1
        <5>1. i + 1 \in 1..KidCount(u, q) /\ Kid(u, q, i + 1) = n
          BY <1>6, <1>12, <1>13, <3>3, <3>6, <4>3
        <5>2. QED
          BY <1>3, <3>1, <3>6, <5>1 DEF o
      <4>4. QED
        BY <4>1, <4>2, <4>3
    <3>7. QED
      BY <3>2, <3>4, <3>5, <3>6 DEF o
  <2>4. QED
    BY <1>3, <2>1, <2>2, <2>3
<1>16. QED
  BY <1>4, <1>10, <1>11, <1>14, <1>15 DEF Linked, level2

\* A split halves the span of the node at the key that goes up.
LEMMA SplitSpanned ==
    ASSUME NEW t, NEW u, NEW level, NEW span, Formed(t, level, span), Typed(u),
           NEW q \in Heap(t), NEW j \in 1..KidCount(t, q), NEW p, p = Kid(t, q, j),
           NEW m \in 1..KeyCount(t, p), NEW r, r \notin Heap(t),
           Splits(t, u, q, j, p, m, r)
    PROVE  Spanned(u, [n \in Heap(u) |->
                        IF n = p THEN {x \in span[p] : x < KeyAt(t, p, m)}
                        ELSE IF n = r THEN {x \in span[p] : KeyAt(t, p, m) < x}
                        ELSE span[n]])
<1> DEFINE H == Heap(t)
           k == KeyAt(t, p, m)
           span2 == [n \in Heap(u) |->
                        IF n = p THEN {x \in span[p] : x < k}
                        ELSE IF n = r THEN {x \in span[p] : k < x}
                        ELSE span[n]]
<1>1. Typed(t) /\ Linked(t, level) /\ Spanned(t, span)
  BY DEF Formed
<1>2. /\ p \in H /\ p # q /\ p # t.root /\ Parent(t, p) = q /\ ~Leaf(t, q)
      /\ KidCount(t, q) = KeyCount(t, q) + 1
      /\ KidCount(t, p) = IF Leaf(t, p) THEN 0 ELSE KeyCount(t, p) + 1
      /\ \A x \in Key : x \in span[p] <=> x \in span[q] /\ Between(t, q, j, x)
      /\ span[p] \subseteq span[q]
  BY SplitPlace
<1>3. /\ q # r /\ p # r /\ t.root \in H /\ t.root # r /\ u.root = t.root
      /\ Heap(u) = H \cup {r}
  BY <1>1, <1>2 DEF Typed, Splits
<1>4. \A n \in H : span[n] \subseteq Key
  BY <1>1 DEF Spanned
<1>5. /\ span2 \in [Heap(u) -> SUBSET Key]
      /\ \A x : x \in span2[p] <=> x \in span[p] /\ x < k
      /\ \A x : x \in span2[r] <=> x \in span[p] /\ k < x
      /\ \A n \in H \ {p} : span2[n] = span[n]
  <2>1. p \in Heap(u) /\ r \in Heap(u) /\ p # r
    BY <1>2, <1>3
  <2>2. span2[p] = {x \in span[p] : x < k}
    BY <2>1
  <2>3. span2[r] = {x \in span[p] : k < x}
    BY <2>1
  <2>4. \A n \in H \ {p} : n \in Heap(u) /\ n # r
    BY <1>3
  <2>5. \A n \in H \ {p} : span2[n] = span[n]
    BY <2>4
  <2>6. ASSUME NEW n \in Heap(u)
        PROVE  span2[n] \in SUBSET Key
    <3>1. CASE n = p \/ n = r
      BY <1>2, <1>4, <2>2, <2>3, <3>1
    <3>2. CASE n # p /\ n # r
      BY <1>3, <1>4, <2>5, <3>2
    <3>3. QED
      BY <3>1, <3>2
  <2>7. span2 \in [Heap(u) -> SUBSET Key]
    BY <2>6
  <2>8. /\ \A x : x \in span2[p] <=> x \in span[p] /\ x < k
        /\ \A x : x \in span2[r] <=> x \in span[p] /\ k < x
    BY <2>2, <2>3
  <2>9. QED
    BY <2>5, <2>7, <2>8
<1> HIDE DEF span2
<1>6. span2[u.root] = Key
  BY <1>1, <1>2, <1>3, <1>5 DEF Spanned
<1>7. /\ KeyCount(t, q) \in Nat /\ KidCount(t, q) \in Nat /\ KeyCount(t, p) \in Nat
      /\ KidCount(t, p) \in Nat /\ m \in Nat /\ j \in Nat
  BY <1>1, <1>2, TypedFacts
<1>8. k \in span[p] /\ k \in span[q] /\ k \in Key /\ k \in Int
  BY <1>1, <1>2, KeyFacts
<1>9. /\ j > 1 => KeyAt(t, q, j - 1) < k
      /\ j =< KeyCount(t, q) => k < KeyAt(t, q, j)
  BY <1>2, <1>8 DEF Between
<1>10. \A i \in 1..KeyCount(t, q) :
        /\ KeyAt(t, q, i) \in span[q] /\ KeyAt(t, q, i) \in Int
        /\ \A l \in 1..KeyCount(t, q) : i < l => KeyAt(t, q, i) < KeyAt(t, q, l)
  BY <1>1, KeyFacts
<1>11. \A i \in 1..KeyCount(t, p) :
        /\ KeyAt(t, p, i) \in span[p] /\ KeyAt(t, p, i) \in Int
        /\ \A l \in 1..KeyCount(t, p) : i < l => KeyAt(t, p, i) < KeyAt(t, p, l)
  BY <1>1, <1>2, KeyFacts
<1>12. /\ KeyCount(u, q) = KeyCount(t, q) + 1 /\ KidCount(u, q) = KidCount(t, q) + 1
       /\ KeyCount(u, p) = m - 1 /\ KeyCount(u, r) = KeyCount(t, p) - m
       /\ KidCount(u, p) = IF Leaf(t, p) THEN 0 ELSE m
       /\ KidCount(u, r) = IF Leaf(t, p) THEN 0 ELSE KidCount(t, p) - m
  BY DEF Splits
<1>13. /\ \A i \in 1..KeyCount(u, q) :
            KeyAt(u, q, i) = IF i < j THEN KeyAt(t, q, i)
                             ELSE IF i = j THEN k ELSE KeyAt(t, q, i - 1)
       /\ \A i \in 1..KeyCount(u, p) : KeyAt(u, p, i) = KeyAt(t, p, i)
       /\ \A i \in 1..KeyCount(u, r) : KeyAt(u, r, i) = KeyAt(t, p, i + m)
  BY <1>12, SplitKeys
<1>14. Key \subseteq Int
  BY BTreeAssumption
<1> HIDE DEF k
<1>15. ASSUME NEW n \in Heap(u)
       PROVE  \A i \in 1..KeyCount(u, n) :
                /\ KeyAt(u, n, i) \in span2[n]
                /\ \A l \in 1..KeyCount(u, n) : i < l => KeyAt(u, n, i) < KeyAt(u, n, l)
  <2>1. CASE n \in H \ {p, q}
    <3>1. KeyCount(u, n) = KeyCount(t, n) /\ \A l : KeyAt(u, n, l) = KeyAt(t, n, l)
      BY <2>1, SameEnts DEF Splits
    <3>2. QED
      BY <1>1, <1>5, <2>1, <3>1 DEF Spanned
  <2>2. CASE n = q
    <3>1. span2[q] = span[q]
      BY <1>2, <1>5
    <3>0. \A i \in 1..KeyCount(u, q) :
            /\ i < j => i \in 1..KeyCount(t, q) /\ KeyAt(u, q, i) = KeyAt(t, q, i)
            /\ i = j => KeyAt(u, q, i) = k
            /\ i > j => i - 1 \in 1..KeyCount(t, q) /\ KeyAt(u, q, i) = KeyAt(t, q, i - 1)
      <4>1. TAKE i \in 1..KeyCount(u, q)
      <4>2. KeyAt(u, q, i) = IF i < j THEN KeyAt(t, q, i)
                             ELSE IF i = j THEN k ELSE KeyAt(t, q, i - 1)
        BY <1>13
      <4>3. i \in 1..(KeyCount(t, q) + 1) /\ j =< KeyCount(t, q) + 1 /\ j >= 1
        BY <1>2, <1>12
      <4>4. QED
        BY <1>7, <4>2, <4>3
    <3>2. \A i \in 1..KeyCount(u, q) : KeyAt(u, q, i) \in span[q]
      <4>1. TAKE i \in 1..KeyCount(u, q)
      <4>2. i < j \/ i = j \/ i > j
        BY <1>7, <1>12
      <4>3. QED
        BY <1>8, <1>10, <3>0, <4>2
    <3>3. \A i, l \in 1..KeyCount(u, q) : i < l => KeyAt(u, q, i) < KeyAt(u, q, l)
      <4>1. TAKE i, l \in 1..KeyCount(u, q)
      <4>2. HAVE i < l
      <4>3. CASE l < j
        <5>1. i < j
          BY <1>7, <1>12, <4>2, <4>3
        <5>2. QED
          BY <1>10, <3>0, <4>2, <4>3, <5>1
      <4>4. CASE l = j
        <5>1. i \in 1..KeyCount(t, q) /\ j - 1 \in 1..KeyCount(t, q)
          BY <1>2, <1>7, <4>2, <4>4
        <5>2. KeyAt(u, q, i) = KeyAt(t, q, i) /\ KeyAt(u, q, l) = k
          BY <1>13, <4>2, <4>4
        <5>3. i = j - 1 \/ KeyAt(t, q, i) < KeyAt(t, q, j - 1)
          BY <1>7, <1>10, <4>2, <4>4, <5>1
        <5>4. QED
          BY <1>7, <1>8, <1>9, <1>10, <4>2, <4>4, <5>1, <5>2, <5>3
      <4>5. CASE l > j
        <5>1. l - 1 \in 1..KeyCount(t, q) /\ KeyAt(u, q, l) = KeyAt(t, q, l - 1)
          BY <1>7, <1>12, <1>13, <4>5
        <5>2. CASE i < j
          BY <1>7, <1>10, <1>12, <1>13, <4>5, <5>1, <5>2
        <5>3. CASE i = j
          <6>1. KeyAt(u, q, i) = k /\ j \in 1..KeyCount(t, q)
            BY <1>7, <1>13, <4>5, <5>1, <5>3
          <6>2. j = l - 1 \/ KeyAt(t, q, j) < KeyAt(t, q, l - 1)
            BY <1>7, <1>10, <4>5, <5>1, <6>1
          <6>3. QED
            BY <1>7, <1>8, <1>9, <1>10, <5>1, <6>1, <6>2
        <5>4. CASE i > j
          BY <1>7, <1>10, <1>12, <1>13, <4>2, <5>1, <5>4
        <5>5. QED
          BY <1>7, <5>2, <5>3, <5>4
      <4>6. QED
        BY <1>7, <4>3, <4>4, <4>5
    <3>4. QED
      BY <2>2, <3>1, <3>2, <3>3
  <2>3. CASE n = p
    BY <1>5, <1>7, <1>11, <1>12, <1>13, <2>3 DEF k
  <2>4. CASE n = r
    <3>1. \A i \in 1..KeyCount(u, r) : i + m \in 1..KeyCount(t, p) /\ m < i + m
      BY <1>7, <1>12
    <3>2. \A i \in 1..KeyCount(u, r) : KeyAt(t, p, i + m) \in span[p] /\ k < KeyAt(t, p, i + m)
      BY <1>7, <1>11, <3>1 DEF k
    <3>3. \A i, l \in 1..KeyCount(u, r) : i < l => i + m < l + m
      BY <1>7
    <3>4. QED
      BY <1>5, <1>11, <1>13, <2>4, <3>1, <3>2, <3>3
  <2>5. QED
    BY <1>3, <2>1, <2>2, <2>3, <2>4
<1>16. \A n \in H : \A i \in 1..KidCount(t, n) :
        /\ Kid(t, n, i) \in H /\ Kid(t, n, i) # r /\ Parent(t, Kid(t, n, i)) = n
        /\ \A l \in 1..KidCount(t, n) : Kid(t, n, i) = Kid(t, n, l) => i = l
        /\ \A x \in Key : x \in span[Kid(t, n, i)] <=> x \in span[n] /\ Between(t, n, i, x)
  BY KidFacts
<1>17. ASSUME NEW n \in Heap(u), NEW i \in 1..KidCount(u, n), NEW x \in Key
       PROVE  x \in span2[Kid(u, n, i)] <=> x \in span2[n] /\ Between(u, n, i, x)
  <2>0. x \in Int
    BY <1>14
  <2>1. CASE n \in H \ {p, q}
    <3>1. KidCount(u, n) = KidCount(t, n) /\ Kid(u, n, i) = Kid(t, n, i)
      BY <2>1, SameKids DEF Splits
    <3>2. Between(u, n, i, x) <=> Between(t, n, i, x)
      BY <2>1, SameEnts DEF Splits
    <3>3. Kid(t, n, i) \in H \ {p}
      BY <1>2, <1>16, <2>1, <3>1
    <3>4. QED
      BY <1>5, <1>16, <2>1, <3>1, <3>2, <3>3
  <2>2. CASE n = q
    <3>1. Kid(u, q, i) = IF i < j + 1 THEN Kid(t, q, i)
                         ELSE IF i = j + 1 THEN r ELSE Kid(t, q, i - 1)
      BY <1>12, <2>2 DEF Splits
    <3>2. span2[q] = span[q]
      BY <1>2, <1>5
    <3>3. CASE i < j
      <4>1. i \in 1..KidCount(t, q) /\ Kid(u, q, i) = Kid(t, q, i) /\ Kid(t, q, i) # p
        BY <1>7, <1>16, <2>2, <3>1, <3>3
      <4>2. Between(u, q, i, x) <=> Between(t, q, i, x)
        BY <1>2, <1>7, <1>12, <1>13, <2>2, <3>3 DEF Between
      <4>3. QED
        BY <1>5, <1>16, <2>2, <3>2, <4>1, <4>2
    <3>4. CASE i = j
      <4>1. Kid(u, q, i) = p
        BY <1>7, <3>1, <3>4
      <4>2. /\ i > 1 => KeyAt(u, q, i - 1) = KeyAt(t, q, j - 1)
            /\ i =< KeyCount(u, q) /\ KeyAt(u, q, i) = k
        BY <1>2, <1>7, <1>12, <1>13, <3>4
      <4>3. Between(u, q, i, x) <=> (j > 1 => KeyAt(t, q, j - 1) < x) /\ x < k
        BY <3>4, <4>2 DEF Between
      <4>4. x < k => (j =< KeyCount(t, q) => x < KeyAt(t, q, j))
        BY <1>7, <1>8, <1>9, <1>10, <2>0
      <4>5. x \in span[p] <=> x \in span[q] /\ Between(t, q, j, x)
        BY <1>2
      <4>6. x \in span2[p] <=> x \in span[q] /\ (j > 1 => KeyAt(t, q, j - 1) < x) /\ x < k
        BY <1>5, <4>4, <4>5 DEF Between
      <4>7. QED
        BY <2>2, <3>2, <4>1, <4>3, <4>6
    <3>5. CASE i = j + 1
      <4>1. Kid(u, q, i) = r
        BY <1>7, <3>1, <3>5
      <4>2. /\ i - 1 = j /\ i > 1 /\ KeyAt(u, q, j) = k
            /\ i =< KeyCount(u, q) <=> j =< KeyCount(t, q)
            /\ j =< KeyCount(t, q) => KeyAt(u, q, i) = KeyAt(t, q, j)
        BY <1>2, <1>7, <1>12, <1>13, <3>5
      <4>3. Between(u, q, i, x) <=> k < x /\ (j =< KeyCount(t, q) => x < KeyAt(t, q, j))
        BY <4>2 DEF Between
      <4>4. k < x => (j > 1 => KeyAt(t, q, j - 1) < x)
        BY <1>2, <1>7, <1>8, <1>9, <1>10, <2>0
      <4>5. x \in span[p] <=> x \in span[q] /\ Between(t, q, j, x)
        BY <1>2
      <4>6. x \in span2[r] <=> x \in span[q] /\ k < x /\ (j =< KeyCount(t, q) => x < KeyAt(t, q, j))
        BY <1>5, <4>4, <4>5 DEF Between
      <4>7. QED
        BY <2>2, <3>2, <4>1, <4>3, <4>6
    <3>6. CASE i > j + 1
      <4>1. /\ i - 1 \in 1..KidCount(t, q) /\ Kid(u, q, i) = Kid(t, q, i - 1)
            /\ Kid(t, q, i - 1) # p
        BY <1>7, <1>12, <1>16, <2>2, <3>1, <3>6
      <4>2. /\ KeyAt(u, q, i - 1) = KeyAt(t, q, (i - 1) - 1)
            /\ i =< KeyCount(u, q) <=> i - 1 =< KeyCount(t, q)
            /\ i =< KeyCount(u, q) => KeyAt(u, q, i) = KeyAt(t, q, i - 1)
        BY <1>2, <1>7, <1>12, <1>13, <2>2, <3>6
      <4>3. i > 1 /\ i - 1 > 1
        BY <1>7, <3>6
      <4>4. Between(u, q, i, x) <=> Between(t, q, i - 1, x)
        BY <4>2, <4>3 DEF Between
      <4>5. QED
        BY <1>5, <1>16, <2>2, <3>2, <4>1, <4>4
    <3>7. QED
      BY <1>7, <3>3, <3>4, <3>5, <3>6
  <2>3. CASE n = p
    <3>1. /\ ~Leaf(t, p) /\ KidCount(u, p) = m /\ KidCount(t, p) = KeyCount(t, p) + 1
          /\ i \in 1..m /\ i \in 1..KidCount(t, p)
      BY <1>2, <1>7, <1>12, <2>3
    <3>2. Kid(u, p, i) = Kid(t, p, i) /\ Kid(t, p, i) \in H \ {p}
      BY <1>2, <1>16, <3>1 DEF Splits
    <3>3. x \in span2[Kid(u, p, i)] <=> x \in span[p] /\ Between(t, p, i, x)
      BY <1>2, <1>5, <1>16, <3>1, <3>2
    <3>4. i > 1 => KeyAt(u, p, i - 1) = KeyAt(t, p, i - 1)
      BY <1>7, <1>12, <1>13, <3>1
    <3>5. CASE i < m
      <4>1. i =< KeyCount(u, p) /\ i =< KeyCount(t, p) /\ KeyAt(u, p, i) = KeyAt(t, p, i)
        BY <1>7, <1>12, <1>13, <3>1, <3>5
      <4>2. KeyAt(t, p, i) < k /\ KeyAt(t, p, i) \in Int
        BY <1>7, <1>11, <3>1, <3>5, <4>1 DEF k
      <4>3. Between(u, p, i, x) <=> Between(t, p, i, x)
        BY <3>4, <4>1 DEF Between
      <4>4. Between(t, p, i, x) => x < k
        BY <1>8, <2>0, <4>1, <4>2 DEF Between
      <4>5. QED
        BY <1>5, <2>3, <3>3, <4>3, <4>4
    <3>6. CASE i = m
      <4>1. ~(i =< KeyCount(u, p)) /\ i =< KeyCount(t, p) /\ KeyAt(t, p, i) = k
        BY <1>7, <1>12, <3>6 DEF k
      <4>2. Between(t, p, i, x) <=> Between(u, p, i, x) /\ x < k
        BY <3>4, <4>1 DEF Between
      <4>3. QED
        BY <1>5, <2>3, <3>3, <4>2
    <3>7. QED
      BY <1>7, <3>1, <3>5, <3>6
  <2>4. CASE n = r
    <3>1. /\ ~Leaf(t, p) /\ KidCount(u, r) = KidCount(t, p) - m
          /\ KidCount(t, p) = KeyCount(t, p) + 1
          /\ i \in 1..(KidCount(t, p) - m) /\ i + m \in 1..KidCount(t, p) /\ i + m > 1
      BY <1>2, <1>7, <1>12, <2>4
    <3>2. Kid(u, r, i) = Kid(t, p, i + m) /\ Kid(t, p, i + m) \in H \ {p}
      BY <1>2, <1>16, <3>1 DEF Splits
    <3>3. x \in span2[Kid(u, r, i)] <=> x \in span[p] /\ Between(t, p, i + m, x)
      BY <1>2, <1>5, <1>16, <3>1, <3>2
    <3>4. /\ i =< KeyCount(u, r) <=> i + m =< KeyCount(t, p)
          /\ i =< KeyCount(u, r) => KeyAt(u, r, i) = KeyAt(t, p, i + m)
      BY <1>7, <1>12, <1>13, <3>1
    <3>5. CASE i > 1
      <4>1. /\ (i - 1) + m = (i + m) - 1 /\ i - 1 \in 1..KeyCount(u, r)
            /\ (i + m) - 1 \in 1..KeyCount(t, p) /\ m < (i + m) - 1
        BY <1>7, <1>12, <3>1, <3>5
      <4>2. KeyAt(u, r, i - 1) = KeyAt(t, p, (i + m) - 1)
        BY <1>13, <4>1
      <4>3. k < KeyAt(t, p, (i + m) - 1) /\ KeyAt(t, p, (i + m) - 1) \in Int
        BY <1>7, <1>11, <4>1 DEF k
      <4>4. Between(u, r, i, x) <=> Between(t, p, i + m, x)
        BY <3>1, <3>4, <3>5, <4>2 DEF Between
      <4>5. Between(t, p, i + m, x) => k < x
        BY <1>8, <2>0, <3>1, <4>3 DEF Between
      <4>6. QED
        BY <1>5, <2>4, <3>3, <4>4, <4>5
    <3>6. CASE i = 1
      <4>1. (i + m) - 1 = m
        BY <1>7, <3>6
      <4>2. Between(t, p, i + m, x) <=> Between(u, r, i, x) /\ k < x
        BY <3>1, <3>4, <3>6, <4>1 DEF Between, k
      <4>3. QED
        BY <1>5, <2>4, <3>3, <4>2
    <3>7. QED
      BY <3>1, <3>5, <3>6
  <2>5. QED
    BY <1>3, <2>1, <2>2, <2>3, <2>4
<1>18. QED
  BY <1>5, <1>6, <1>15, <1>17 DEF Spanned, span2, k

\* A split keeps every entry.
LEMMA SplitHeld ==
    ASSUME NEW t, NEW u, NEW level, NEW span, Formed(t, level, span), Typed(u),
           NEW q \in Heap(t), NEW j \in 1..KidCount(t, q), NEW p, p = Kid(t, q, j),
           NEW m \in 1..KeyCount(t, p), NEW r, r \notin Heap(t),
           Splits(t, u, q, j, p, m, r)
    PROVE  Held(u) = Held(t)
<1>1. Typed(t) /\ p \in Heap(t) /\ p # q /\ KidCount(t, q) = KeyCount(t, q) + 1
  BY SplitPlace DEF Formed
<1>2. /\ KeyCount(t, q) \in Nat /\ KeyCount(t, p) \in Nat /\ m \in Nat /\ j \in Nat
  BY <1>1, TypedFacts
<1>3. /\ Heap(u) = Heap(t) \cup {r}
      /\ KeyCount(u, q) = KeyCount(t, q) + 1
      /\ KeyCount(u, p) = m - 1 /\ KeyCount(u, r) = KeyCount(t, p) - m
      /\ \A i \in 1..KeyCount(u, q) :
            EntAt(u, q, i) = IF i < j THEN EntAt(t, q, i)
                             ELSE IF i = j THEN EntAt(t, p, m) ELSE EntAt(t, q, i - 1)
      /\ \A i \in 1..KeyCount(u, p) : EntAt(u, p, i) = EntAt(t, p, i)
      /\ \A i \in 1..KeyCount(u, r) : EntAt(u, r, i) = EntAt(t, p, i + m)
  BY DEF Splits
<1>4. \A n \in Heap(t) \ {p, q} :
        KeyCount(u, n) = KeyCount(t, n) /\ \A i : EntAt(u, n, i) = EntAt(t, n, i)
  BY SameEnts DEF Splits
<1>5. ASSUME NEW e, e \in Held(t) PROVE e \in Held(u)
  <2>1. PICK n \in Heap(t) : \E i \in 1..KeyCount(t, n) : EntAt(t, n, i) = e
    BY <1>1, <1>5, HeldFacts
  <2>2. PICK i \in 1..KeyCount(t, n) : EntAt(t, n, i) = e
    BY <2>1
  <2>3. \E n2 \in Heap(u) : \E i2 \in 1..KeyCount(u, n2) : EntAt(u, n2, i2) = e
    <3>1. CASE n \in Heap(t) \ {p, q}
      BY <1>3, <1>4, <2>2, <3>1
    <3>2. CASE n = q
      <4>1. CASE i < j
        <5>1. i \in 1..KeyCount(u, q) /\ EntAt(u, q, i) = e
          BY <1>2, <1>3, <2>2, <3>2, <4>1
        <5>2. QED
          BY <1>3, <5>1
      <4>2. CASE i >= j
        <5>1. i + 1 \in 1..KeyCount(u, q) /\ EntAt(u, q, i + 1) = e
          BY <1>2, <1>3, <2>2, <3>2, <4>2
        <5>2. QED
          BY <1>3, <5>1
      <4>3. QED
        BY <1>2, <4>1, <4>2
    <3>3. CASE n = p
      <4>1. CASE i < m
        <5>1. i \in 1..KeyCount(u, p) /\ EntAt(u, p, i) = e
          BY <1>2, <1>3, <2>2, <3>3, <4>1
        <5>2. QED
          BY <1>1, <1>3, <5>1
      <4>2. CASE i = m
        <5>1. j \in 1..KeyCount(u, q) /\ EntAt(u, q, j) = e
          BY <1>1, <1>2, <1>3, <2>2, <3>3, <4>2
        <5>2. QED
          BY <1>3, <5>1
      <4>3. CASE i > m
        <5>1. i - m \in 1..KeyCount(u, r) /\ (i - m) + m = i
          BY <1>2, <1>3, <2>2, <3>3, <4>3
        <5>2. EntAt(u, r, i - m) = e
          BY <1>3, <2>2, <3>3, <5>1
        <5>3. QED
          BY <1>3, <5>1, <5>2
      <4>4. QED
        BY <1>2, <4>1, <4>2, <4>3
    <3>4. QED
      BY <3>1, <3>2, <3>3
  <2>4. QED
    BY <2>3, HeldFacts
<1>6. ASSUME NEW e, e \in Held(u) PROVE e \in Held(t)
  <2>1. PICK n \in Heap(u) : \E i \in 1..KeyCount(u, n) : EntAt(u, n, i) = e
    BY <1>6, HeldFacts
  <2>2. PICK i \in 1..KeyCount(u, n) : EntAt(u, n, i) = e
    BY <2>1
  <2>3. \E n2 \in Heap(t) : \E i2 \in 1..KeyCount(t, n2) : EntAt(t, n2, i2) = e
    <3>1. CASE n \in Heap(t) \ {p, q}
      BY <1>4, <2>2, <3>1
    <3>2. CASE n = q
      <4>1. /\ i < j => i \in 1..KeyCount(t, q) /\ EntAt(t, q, i) = e
            /\ i = j => EntAt(t, p, m) = e
            /\ i > j => i - 1 \in 1..KeyCount(t, q) /\ EntAt(t, q, i - 1) = e
        BY <1>1, <1>2, <1>3, <2>2, <3>2
      <4>2. i < j \/ i = j \/ i > j
        BY <1>2
      <4>3. QED
        BY <1>1, <4>1, <4>2
    <3>3. CASE n = p
      <4>1. i \in 1..KeyCount(t, p) /\ EntAt(t, p, i) = e
        BY <1>2, <1>3, <2>2, <3>3
      <4>2. QED
        BY <1>1, <4>1
    <3>4. CASE n = r
      <4>1. i + m \in 1..KeyCount(t, p) /\ EntAt(t, p, i + m) = e
        BY <1>2, <1>3, <2>2, <3>4
      <4>2. QED
        BY <1>1, <4>1
    <3>5. QED
      BY <1>3, <3>1, <3>2, <3>3, <3>4
  <2>4. QED
    BY <1>1, <2>3, HeldFacts
<1>7. QED
  BY <1>5, <1>6

\* A split keeps a tree in order.
LEMMA SplitFormed ==
    ASSUME NEW t, NEW u, NEW level, NEW span, Formed(t, level, span), Typed(u),
           NEW q \in Heap(t), NEW j \in 1..KidCount(t, q), NEW p, p = Kid(t, q, j),
           NEW m \in 1..KeyCount(t, p), NEW r, r \notin Heap(t),
           Splits(t, u, q, j, p, m, r)
    PROVE  /\ Held(u) = Held(t)
           /\ \E level2, span2 :
                /\ Formed(u, level2, span2)
                /\ level2[r] = level[p]
                /\ \A n \in Heap(t) : level2[n] = level[n]
                /\ \A n \in Heap(t) \ {p} : span2[n] = span[n]
<1> DEFINE level2 == [n \in Heap(u) |-> IF n = r THEN level[p] ELSE level[n]]
           span2 == [n \in Heap(u) |->
                        IF n = p THEN {x \in span[p] : x < KeyAt(t, p, m)}
                        ELSE IF n = r THEN {x \in span[p] : KeyAt(t, p, m) < x}
                        ELSE span[n]]
<1>1. Held(u) = Held(t)
  BY SplitHeld
<1>2. Linked(u, level2)
  BY SplitLinked
<1>3. Spanned(u, span2)
  BY SplitSpanned
<1>4. Heap(u) = Heap(t) \cup {r}
  BY DEF Splits
<1>5. /\ level2[r] = level[p]
      /\ \A n \in Heap(t) : level2[n] = level[n]
      /\ \A n \in Heap(t) \ {p} : span2[n] = span[n]
  BY <1>4
<1> HIDE DEF level2, span2
<1>6. Formed(u, level2, span2)
  BY <1>2, <1>3 DEF Formed
<1>7. QED
  BY <1>1, <1>5, <1>6

\* u is t with children j and j + 1 of q, l and r, made one, with the entry
\* between them.
Joins(t, u, q, j, l, r) ==
    /\ u.root = t.root
    /\ Heap(u) = Heap(t) \ {r}
    /\ \A n \in Heap(u) : Leaf(u, n) = Leaf(t, n)
    /\ \A n \in Heap(u) :
        Parent(u, n) = IF \E i \in 1..KidCount(t, r) : Kid(t, r, i) = n
                       THEN l ELSE Parent(t, n)
    /\ \A n \in Heap(u) \ {l, q} : Ents(u, n) = Ents(t, n) /\ Kids(u, n) = Kids(t, n)
    /\ KeyCount(u, q) = KeyCount(t, q) - 1
    /\ \A i \in 1..(KeyCount(t, q) - 1) :
        EntAt(u, q, i) = IF i < j THEN EntAt(t, q, i) ELSE EntAt(t, q, i + 1)
    /\ KidCount(u, q) = KidCount(t, q) - 1
    /\ \A i \in 1..(KidCount(t, q) - 1) :
        Kid(u, q, i) = IF i < j + 1 THEN Kid(t, q, i) ELSE Kid(t, q, i + 1)
    /\ KeyCount(u, l) = KeyCount(t, l) + 1 + KeyCount(t, r)
    /\ \A i \in 1..(KeyCount(t, l) + 1 + KeyCount(t, r)) :
        EntAt(u, l, i) = IF i =< KeyCount(t, l) THEN EntAt(t, l, i)
                         ELSE IF i = KeyCount(t, l) + 1 THEN EntAt(t, q, j)
                         ELSE EntAt(t, r, i - KeyCount(t, l) - 1)
    /\ KidCount(u, l) = KidCount(t, l) + KidCount(t, r)
    /\ \A i \in 1..(KidCount(t, l) + KidCount(t, r)) :
        Kid(u, l, i) = IF i =< KidCount(t, l) THEN Kid(t, l, i)
                       ELSE Kid(t, r, i - KidCount(t, l))

\* Where the nodes that are joined are.
LEMMA JoinPlace ==
    ASSUME NEW t, NEW level, NEW span, Formed(t, level, span),
           NEW q \in Heap(t), NEW j \in 1..KeyCount(t, q), ~Leaf(t, q),
           NEW l, l = Kid(t, q, j), NEW r, r = Kid(t, q, j + 1)
    PROVE  /\ j \in 1..KidCount(t, q) /\ j + 1 \in 1..KidCount(t, q)
           /\ l \in Heap(t) /\ r \in Heap(t) /\ l # r
           /\ l # q /\ r # q /\ l # t.root /\ r # t.root
           /\ Parent(t, l) = q /\ Parent(t, r) = q
           /\ level[l] = level[r] /\ Leaf(t, l) = Leaf(t, r)
           /\ KidCount(t, q) = KeyCount(t, q) + 1
           /\ KidCount(t, l) = IF Leaf(t, l) THEN 0 ELSE KeyCount(t, l) + 1
           /\ KidCount(t, r) = IF Leaf(t, l) THEN 0 ELSE KeyCount(t, r) + 1
           /\ KeyCount(t, l) \in Nat /\ KeyCount(t, r) \in Nat /\ KeyCount(t, q) \in Nat
           /\ KidCount(t, l) \in Nat /\ KidCount(t, r) \in Nat /\ KidCount(t, q) \in Nat
<1>1. Typed(t) /\ Linked(t, level)
  BY DEF Formed
<1>2. KidCount(t, q) = KeyCount(t, q) + 1 /\ KeyCount(t, q) \in Nat
  BY <1>1, Counts
<1>3. j \in 1..KidCount(t, q) /\ j + 1 \in 1..KidCount(t, q) /\ j # j + 1
  BY <1>2
<1>4. /\ l \in Heap(t) /\ l # q /\ l # t.root /\ Parent(t, l) = q
      /\ level[l] = level[q] - 1
      /\ KidCount(t, l) = IF Leaf(t, l) THEN 0 ELSE KeyCount(t, l) + 1
  BY <1>3, SplitPlace
<1>5. /\ r \in Heap(t) /\ r # q /\ r # t.root /\ Parent(t, r) = q
      /\ level[r] = level[q] - 1
      /\ KidCount(t, r) = IF Leaf(t, r) THEN 0 ELSE KeyCount(t, r) + 1
  BY <1>3, SplitPlace
<1>6. l # r
  BY <1>3, KidFacts
<1>7. Leaf(t, l) <=> Leaf(t, r)
  BY <1>1, <1>4, <1>5 DEF Linked
<1>8. Leaf(t, l) \in BOOLEAN /\ Leaf(t, r) \in BOOLEAN
  BY <1>1, <1>4, <1>5, TypedFacts
<1>9. Leaf(t, l) = Leaf(t, r)
  BY <1>7, <1>8
<1>10. /\ KeyCount(t, l) \in Nat /\ KeyCount(t, r) \in Nat /\ KeyCount(t, q) \in Nat
       /\ KidCount(t, l) \in Nat /\ KidCount(t, r) \in Nat /\ KidCount(t, q) \in Nat
  BY <1>1, <1>4, <1>5, TypedFacts
<1>11. QED
  BY <1>2, <1>3, <1>4, <1>5, <1>6, <1>9, <1>10

\* A join keeps the levels.
LEMMA JoinLinked ==
    ASSUME NEW t, NEW u, NEW level, NEW span, Formed(t, level, span), Typed(u),
           NEW q \in Heap(t), NEW j \in 1..KeyCount(t, q), ~Leaf(t, q),
           NEW l, l = Kid(t, q, j), NEW r, r = Kid(t, q, j + 1),
           Joins(t, u, q, j, l, r)
    PROVE  Linked(u, [n \in Heap(u) |-> level[n]])
<1> DEFINE H == Heap(t)
           level2 == [n \in Heap(u) |-> level[n]]
           moved(n) == \E i \in 1..KidCount(t, r) : Kid(t, r, i) = n
<1>1. Typed(t) /\ Linked(t, level)
  BY DEF Formed
<1>2. /\ j \in 1..KidCount(t, q) /\ j + 1 \in 1..KidCount(t, q)
      /\ l \in H /\ r \in H /\ l # r /\ l # q /\ r # q /\ l # t.root /\ r # t.root
      /\ Parent(t, l) = q /\ Parent(t, r) = q
      /\ level[l] = level[r] /\ Leaf(t, l) = Leaf(t, r)
      /\ KidCount(t, q) = KeyCount(t, q) + 1
      /\ KidCount(t, l) = IF Leaf(t, l) THEN 0 ELSE KeyCount(t, l) + 1
      /\ KidCount(t, r) = IF Leaf(t, l) THEN 0 ELSE KeyCount(t, r) + 1
      /\ KeyCount(t, l) \in Nat /\ KeyCount(t, r) \in Nat /\ KeyCount(t, q) \in Nat
      /\ KidCount(t, l) \in Nat /\ KidCount(t, r) \in Nat /\ KidCount(t, q) \in Nat
  BY JoinPlace
<1>3. /\ t.root \in H /\ u.root = t.root /\ Heap(u) = H \ {r}
      /\ Null \notin H
  BY <1>1 DEF Typed, Joins, Null
<1>4. /\ level2 \in [Heap(u) -> Nat]
      /\ \A n \in Heap(u) : level2[n] = level[n] /\ level[n] \in Nat /\ level[n] =< level[t.root]
  BY <1>1, <1>3 DEF Linked
<1> HIDE DEF level2
<1>5. \A n \in H : \A i \in 1..KidCount(t, n) :
            /\ Kid(t, n, i) \in H /\ Parent(t, Kid(t, n, i)) = n
            /\ level[Kid(t, n, i)] = level[n] - 1
            /\ \A i2 \in 1..KidCount(t, n) : Kid(t, n, i) = Kid(t, n, i2) => i = i2
  BY KidFacts
<1>6. \A n \in Heap(u) : Parent(u, n) = IF moved(n) THEN l ELSE Parent(t, n)
  BY DEF Joins
<1>7. \A n \in H : moved(n) => Parent(t, n) = r
  BY <1>2, <1>5
<1>8. \A n \in Heap(u) : Parent(t, n) # r => Parent(u, n) = Parent(t, n)
  BY <1>3, <1>6, <1>7
<1>9. Parent(u, u.root) = Null
  BY <1>1, <1>2, <1>3, <1>8 DEF Linked
<1>10. \A i \in 1..KidCount(t, q) : Kid(t, q, i) = r => i = j + 1
  BY <1>2, <1>5
<1>11. ASSUME NEW n \in Heap(u)
       PROVE  /\ level2[n] =< level2[u.root]
              /\ Leaf(u, n) <=> level2[n] = 0
              /\ KidCount(u, n) = IF Leaf(u, n) THEN 0 ELSE KeyCount(u, n) + 1
  <2>1. level2[n] =< level2[u.root]
    BY <1>2, <1>3, <1>4
  <2>2. Leaf(u, n) <=> level2[n] = 0
    BY <1>1, <1>2, <1>3, <1>4 DEF Joins, Linked
  <2>3. CASE n \notin {l, q}
    <3>1. KeyCount(u, n) = KeyCount(t, n) /\ KidCount(u, n) = KidCount(t, n)
      BY <2>3, SameEnts, SameKids DEF Joins
    <3>2. QED
      BY <1>1, <1>3, <2>1, <2>2, <2>3, <3>1 DEF Linked, Joins
  <2>4. CASE n = q
    BY <1>2, <2>1, <2>2, <2>4 DEF Joins
  <2>5. CASE n = l
    BY <1>2, <2>1, <2>2, <2>5 DEF Joins
  <2>6. QED
    BY <2>3, <2>4, <2>5
<1>12. \A i \in 1..KidCount(u, q) :
        Kid(u, q, i) = IF i < j + 1 THEN Kid(t, q, i) ELSE Kid(t, q, i + 1)
  BY DEF Joins
<1>13. KidCount(u, q) = KidCount(t, q) - 1
  BY DEF Joins
<1>14. \A i \in 1..KidCount(u, l) :
        Kid(u, l, i) = IF i =< KidCount(t, l) THEN Kid(t, l, i)
                       ELSE Kid(t, r, i - KidCount(t, l))
  BY DEF Joins
<1>15. KidCount(u, l) = KidCount(t, l) + KidCount(t, r)
  BY DEF Joins
<1>16. ASSUME NEW n \in Heap(u), NEW i \in 1..KidCount(u, n)
       PROVE  /\ Kid(u, n, i) \in Heap(u)
              /\ level2[Kid(u, n, i)] = level2[n] - 1
              /\ Parent(u, Kid(u, n, i)) = n
              /\ \A i2 \in 1..KidCount(u, n) : Kid(u, n, i) = Kid(u, n, i2) => i = i2
  <2>1. CASE n \notin {l, q}
    <3>1. KidCount(u, n) = KidCount(t, n) /\ \A i2 : Kid(u, n, i2) = Kid(t, n, i2)
      BY <2>1, SameKids DEF Joins
    <3>2. Kid(t, n, i) \in Heap(u)
      BY <1>2, <1>3, <1>5, <2>1, <3>1
    <3>3. QED
      BY <1>3, <1>4, <1>5, <1>8, <2>1, <3>1, <3>2
  <2>2. CASE n = q
    <3>1. \A i2 \in 1..KidCount(u, q) :
            \E d \in 1..KidCount(t, q) :
                /\ Kid(u, q, i2) = Kid(t, q, d) /\ d # j + 1
                /\ i2 = IF d < j + 1 THEN d ELSE d - 1
      <4>1. TAKE i2 \in 1..KidCount(u, q)
      <4>2. CASE i2 < j + 1
        BY <1>2, <1>12, <1>13, <4>2
      <4>3. CASE i2 >= j + 1
        <5>1. /\ i2 + 1 \in 1..KidCount(t, q) /\ i2 + 1 # j + 1
              /\ i2 = IF i2 + 1 < j + 1 THEN i2 + 1 ELSE (i2 + 1) - 1
          BY <1>2, <1>13, <4>3
        <5>2. Kid(u, q, i2) = IF i2 < j + 1 THEN Kid(t, q, i2) ELSE Kid(t, q, i2 + 1)
          BY <1>12
        <5>4. ~(i2 < j + 1)
          BY <1>2, <1>13, <4>3
        <5>5. Kid(u, q, i2) = Kid(t, q, i2 + 1)
          BY <5>2, <5>4
        <5>3. QED
          BY <5>1, <5>5
      <4>4. QED
        BY <1>2, <1>13, <4>2, <4>3
    <3>2. PICK d \in 1..KidCount(t, q) :
                /\ Kid(u, q, i) = Kid(t, q, d) /\ d # j + 1
                /\ i = IF d < j + 1 THEN d ELSE d - 1
      BY <2>2, <3>1
    <3>3. Kid(u, q, i) # r /\ Kid(u, q, i) \in Heap(u)
      BY <1>3, <1>5, <1>10, <2>2, <3>2
    <3>4. level2[Kid(u, q, i)] = level2[q] - 1 /\ Parent(u, Kid(u, q, i)) = q
      BY <1>2, <1>3, <1>4, <1>5, <1>8, <3>2, <3>3
    <3>5. \A i2 \in 1..KidCount(u, q) : Kid(u, q, i) = Kid(u, q, i2) => i = i2
      BY <1>5, <3>1, <3>2
    <3>6. QED
      BY <2>2, <3>3, <3>4, <3>5
  <2>3. CASE n = l
    <3>1. \A i2 \in 1..KidCount(u, l) :
            /\ i2 =< KidCount(t, l) =>
                i2 \in 1..KidCount(t, l) /\ Kid(u, l, i2) = Kid(t, l, i2)
            /\ i2 > KidCount(t, l) =>
                /\ i2 - KidCount(t, l) \in 1..KidCount(t, r)
                /\ Kid(u, l, i2) = Kid(t, r, i2 - KidCount(t, l))
      <4>1. TAKE i2 \in 1..KidCount(u, l)
      <4>2. Kid(u, l, i2) = IF i2 =< KidCount(t, l) THEN Kid(t, l, i2)
                            ELSE Kid(t, r, i2 - KidCount(t, l))
        BY <1>14
      <4>3. QED
        BY <1>2, <1>15, <4>2
    <3>2. CASE i =< KidCount(t, l)
      <4>1. i \in 1..KidCount(t, l) /\ Kid(u, l, i) = Kid(t, l, i)
        BY <2>3, <3>1, <3>2
      <4>2. /\ Kid(t, l, i) \in H /\ Parent(t, Kid(t, l, i)) = l
            /\ level[Kid(t, l, i)] = level[l] - 1
        BY <1>2, <1>5, <4>1
      <4>3. Kid(t, l, i) \in Heap(u)
        BY <1>2, <1>3, <4>2
      <4>4. Parent(u, Kid(t, l, i)) = l
        BY <1>2, <1>8, <4>2, <4>3
      <4>5. \A i2 \in 1..KidCount(u, l) : Kid(u, l, i) = Kid(u, l, i2) => i = i2
        <5>1. TAKE i2 \in 1..KidCount(u, l)
        <5>2. HAVE Kid(u, l, i) = Kid(u, l, i2)
        <5>3. ~(i2 > KidCount(t, l))
          BY <1>2, <1>5, <3>1, <4>1, <4>2, <5>2
        <5>4. i2 \in 1..KidCount(t, l) /\ Kid(u, l, i2) = Kid(t, l, i2)
          BY <1>2, <1>15, <3>1, <5>3
        <5>5. \A i3 \in 1..KidCount(t, l) : Kid(t, l, i) = Kid(t, l, i3) => i = i3
          BY <1>2, <1>5, <4>1
        <5>6. QED
          BY <4>1, <5>2, <5>4, <5>5
      <4>6. QED
        BY <1>2, <1>3, <1>4, <2>3, <4>1, <4>2, <4>3, <4>4, <4>5
    <3>3. CASE i > KidCount(t, l)
      <4> DEFINE d == i - KidCount(t, l)
      <4>1. d \in 1..KidCount(t, r) /\ Kid(u, l, i) = Kid(t, r, d)
        BY <2>3, <3>1, <3>3
      <4>2. /\ Kid(t, r, d) \in H /\ Parent(t, Kid(t, r, d)) = r
            /\ level[Kid(t, r, d)] = level[l] - 1 /\ moved(Kid(t, r, d))
        BY <1>2, <1>5, <4>1
      <4>3. Kid(t, r, d) \in Heap(u)
        BY <1>2, <1>3, <4>2
      <4>4. Parent(u, Kid(t, r, d)) = l
        BY <1>6, <4>2, <4>3
      <4>5. \A i2 \in 1..KidCount(u, l) : Kid(u, l, i) = Kid(u, l, i2) => i = i2
        <5>1. TAKE i2 \in 1..KidCount(u, l)
        <5>2. HAVE Kid(u, l, i) = Kid(u, l, i2)
        <5>3. ~(i2 =< KidCount(t, l))
          BY <1>2, <1>5, <3>1, <4>1, <4>2, <5>2
        <5>4. /\ i2 - KidCount(t, l) \in 1..KidCount(t, r)
              /\ Kid(u, l, i2) = Kid(t, r, i2 - KidCount(t, l))
          BY <1>2, <1>15, <3>1, <5>3
        <5>5. d = i2 - KidCount(t, l)
          BY <1>2, <1>5, <4>1, <5>2, <5>4
        <5>6. QED
          BY <1>2, <1>15, <2>3, <5>5
      <4>6. QED
        BY <1>2, <1>3, <1>4, <2>3, <4>1, <4>2, <4>3, <4>4, <4>5
    <3>4. QED
      BY <1>2, <1>15, <2>3, <3>2, <3>3
  <2>4. QED
    BY <2>1, <2>2, <2>3
<1>17. ASSUME NEW n \in Heap(u), n # u.root
       PROVE  /\ Parent(u, n) \in Heap(u)
              /\ \E i \in 1..KidCount(u, Parent(u, n)) : Kid(u, Parent(u, n), i) = n
  <2>1. CASE moved(n)
    <3>1. PICK i \in 1..KidCount(t, r) : Kid(t, r, i) = n
      BY <2>1
    <3>2. /\ i + KidCount(t, l) \in 1..KidCount(u, l)
          /\ (i + KidCount(t, l)) - KidCount(t, l) = i
          /\ ~(i + KidCount(t, l) =< KidCount(t, l))
      BY <1>2, <1>15
    <3>3. Kid(u, l, i + KidCount(t, l)) = n
      BY <1>14, <3>1, <3>2
    <3>4. Parent(u, n) = l
      BY <1>6, <2>1
    <3>5. QED
      BY <1>2, <1>3, <3>2, <3>3, <3>4
  <2>2. CASE ~moved(n)
    <3> DEFINE o == Parent(t, n)
    <3>1. Parent(u, n) = o
      BY <1>6, <2>2
    <3>2. o \in H /\ \E i \in 1..KidCount(t, o) : Kid(t, o, i) = n
      BY <1>1, <1>3, <1>17 DEF Linked
    <3> HIDE DEF o
    <3>3. PICK i \in 1..KidCount(t, o) : Kid(t, o, i) = n
      BY <3>2
    <3>4. o # r
      BY <2>2, <3>3
    <3>5. o \in Heap(u)
      BY <1>3, <3>2, <3>4
    <3>6. CASE o \notin {l, q}
      <4>1. KidCount(u, o) = KidCount(t, o) /\ Kid(u, o, i) = Kid(t, o, i)
        BY <3>5, <3>6, SameKids DEF Joins
      <4>2. QED
        BY <3>1, <3>3, <3>5, <4>1
    <3>7. CASE o = l
      <4>1. i \in 1..KidCount(u, l) /\ i =< KidCount(t, l)
        BY <1>2, <1>15, <3>3, <3>7
      <4>2. Kid(u, l, i) = n
        BY <1>14, <3>3, <3>7, <4>1
      <4>3. QED
        BY <3>1, <3>5, <3>7, <4>1, <4>2
    <3>8. CASE o = q
      <4>1. i # j + 1
        BY <1>3, <3>3, <3>8
      <4>2. CASE i < j + 1
        <5>1. i \in 1..KidCount(u, q) /\ Kid(u, q, i) = n
          BY <1>2, <1>12, <1>13, <3>3, <3>8, <4>2
        <5>2. QED
          BY <3>1, <3>5, <3>8, <5>1
      <4>3. CASE i > j + 1
        <5>1. i - 1 \in 1..KidCount(u, q) /\ ~(i - 1 < j + 1) /\ (i - 1) + 1 = i
          BY <1>2, <1>13, <3>3, <3>8, <4>3
        <5>2. Kid(u, q, i - 1) = n
          BY <1>12, <3>3, <3>8, <5>1
        <5>3. QED
          BY <3>1, <3>5, <3>8, <5>1, <5>2
      <4>4. QED
        BY <1>2, <3>3, <3>8, <4>1, <4>2, <4>3
    <3>9. QED
      BY <3>6, <3>7, <3>8
  <2>3. QED
    BY <2>1, <2>2
<1>18. QED
  BY <1>4, <1>9, <1>11, <1>16, <1>17 DEF Linked, level2

\* A joined node has the span of both and the key between.
LEMMA JoinSpanned ==
    ASSUME NEW t, NEW u, NEW level, NEW span, Formed(t, level, span), Typed(u),
           NEW q \in Heap(t), NEW j \in 1..KeyCount(t, q), ~Leaf(t, q),
           NEW l, l = Kid(t, q, j), NEW r, r = Kid(t, q, j + 1),
           Joins(t, u, q, j, l, r)
    PROVE  Spanned(u, [n \in Heap(u) |->
                IF n = l THEN {x \in span[q] : Between(u, q, j, x)} ELSE span[n]])
<1> DEFINE H == Heap(t)
           sep == KeyAt(t, q, j)
           a == KeyCount(t, l)
           span2 == [n \in Heap(u) |->
                        IF n = l THEN {x \in span[q] : Between(u, q, j, x)} ELSE span[n]]
<1>1. Typed(t) /\ Linked(t, level) /\ Spanned(t, span)
  BY DEF Formed
<1>2. /\ j \in 1..KidCount(t, q) /\ j + 1 \in 1..KidCount(t, q)
      /\ l \in H /\ r \in H /\ l # r /\ l # q /\ r # q /\ l # t.root /\ r # t.root
      /\ Parent(t, l) = q /\ Parent(t, r) = q
      /\ Leaf(t, l) = Leaf(t, r)
      /\ KidCount(t, q) = KeyCount(t, q) + 1
      /\ KidCount(t, l) = IF Leaf(t, l) THEN 0 ELSE KeyCount(t, l) + 1
      /\ KidCount(t, r) = IF Leaf(t, l) THEN 0 ELSE KeyCount(t, r) + 1
      /\ KeyCount(t, l) \in Nat /\ KeyCount(t, r) \in Nat /\ KeyCount(t, q) \in Nat
      /\ KidCount(t, l) \in Nat /\ KidCount(t, r) \in Nat /\ KidCount(t, q) \in Nat
  BY JoinPlace
<1>3. /\ t.root \in H /\ u.root = t.root /\ Heap(u) = H \ {r}
  BY <1>1 DEF Typed, Joins
<1>4. \A n \in H : span[n] \subseteq Key
  BY <1>1 DEF Spanned
<1>5. /\ span2 \in [Heap(u) -> SUBSET Key]
      /\ \A x : x \in span2[l] <=> x \in span[q] /\ Between(u, q, j, x)
      /\ \A n \in Heap(u) \ {l} : span2[n] = span[n]
  BY <1>2, <1>3, <1>4
<1> HIDE DEF span2
<1>6. span2[u.root] = Key
  BY <1>1, <1>2, <1>3, <1>5 DEF Spanned
<1>7. Key \subseteq Int
  BY BTreeAssumption
<1>8. \A i \in 1..KeyCount(t, q) :
        /\ KeyAt(t, q, i) \in span[q] /\ KeyAt(t, q, i) \in Key /\ KeyAt(t, q, i) \in Int
        /\ \A i2 \in 1..KeyCount(t, q) : i < i2 => KeyAt(t, q, i) < KeyAt(t, q, i2)
  BY <1>1, KeyFacts
<1>9. \A i \in 1..KeyCount(t, l) :
        /\ KeyAt(t, l, i) \in span[l] /\ KeyAt(t, l, i) \in Key /\ KeyAt(t, l, i) \in Int
        /\ \A i2 \in 1..KeyCount(t, l) : i < i2 => KeyAt(t, l, i) < KeyAt(t, l, i2)
  BY <1>1, <1>2, KeyFacts
<1>10. \A i \in 1..KeyCount(t, r) :
        /\ KeyAt(t, r, i) \in span[r] /\ KeyAt(t, r, i) \in Key /\ KeyAt(t, r, i) \in Int
        /\ \A i2 \in 1..KeyCount(t, r) : i < i2 => KeyAt(t, r, i) < KeyAt(t, r, i2)
  BY <1>1, <1>2, KeyFacts
<1>11. KeyCount(u, q) = KeyCount(t, q) - 1 /\ KidCount(u, q) = KidCount(t, q) - 1
  BY DEF Joins
<1>12. \A i \in 1..KeyCount(u, q) :
            /\ i < j => i \in 1..KeyCount(t, q) /\ KeyAt(u, q, i) = KeyAt(t, q, i)
            /\ i >= j => i + 1 \in 1..KeyCount(t, q) /\ KeyAt(u, q, i) = KeyAt(t, q, i + 1)
  <2>1. TAKE i \in 1..KeyCount(u, q)
  <2>2. EntAt(u, q, i) = IF i < j THEN EntAt(t, q, i) ELSE EntAt(t, q, i + 1)
    BY <1>11 DEF Joins
  <2>3. KeyAt(u, q, i) = IF i < j THEN KeyAt(t, q, i) ELSE KeyAt(t, q, i + 1)
    BY <2>2, EntKey
  <2>4. QED
    BY <1>2, <1>11, <2>3
<1>13. KeyCount(u, l) = a + 1 + KeyCount(t, r) /\ KidCount(u, l) = KidCount(t, l) + KidCount(t, r)
  BY DEF Joins
<1>14. \A i \in 1..KeyCount(u, l) :
            /\ i =< a => i \in 1..KeyCount(t, l) /\ KeyAt(u, l, i) = KeyAt(t, l, i)
            /\ i = a + 1 => KeyAt(u, l, i) = sep
            /\ i > a + 1 => /\ i - a - 1 \in 1..KeyCount(t, r)
                            /\ KeyAt(u, l, i) = KeyAt(t, r, i - a - 1)
  <2>1. TAKE i \in 1..KeyCount(u, l)
  <2>2. EntAt(u, l, i) = IF i =< a THEN EntAt(t, l, i)
                         ELSE IF i = a + 1 THEN EntAt(t, q, j) ELSE EntAt(t, r, i - a - 1)
    BY <1>13 DEF Joins
  <2>3. KeyAt(u, l, i) = IF i =< a THEN KeyAt(t, l, i)
                         ELSE IF i = a + 1 THEN sep ELSE KeyAt(t, r, i - a - 1)
    BY <2>2, EntKey
  <2> HIDE DEF sep
  <2>4. QED
    BY <1>2, <1>13, <2>3
<1>15. sep \in span[q] /\ sep \in Key /\ sep \in Int
  BY <1>8
<1>16. /\ \A x \in Key : x \in span[l] <=> x \in span[q] /\ Between(t, q, j, x)
       /\ \A x \in Key : x \in span[r] <=> x \in span[q] /\ Between(t, q, j + 1, x)
  BY <1>2, KidFacts
<1>17. \A x : Between(u, q, j, x) <=> /\ j > 1 => KeyAt(t, q, j - 1) < x
                                      /\ j < KeyCount(t, q) => x < KeyAt(t, q, j + 1)
  <2>1. j > 1 => KeyAt(u, q, j - 1) = KeyAt(t, q, j - 1)
    BY <1>2, <1>11, <1>12
  <2>2. j =< KeyCount(u, q) <=> j < KeyCount(t, q)
    BY <1>2, <1>11
  <2>3. j =< KeyCount(u, q) => KeyAt(u, q, j) = KeyAt(t, q, j + 1)
    BY <1>2, <1>11, <1>12
  <2>4. QED
    BY <2>1, <2>2, <2>3 DEF Between
<1>18. ASSUME NEW x \in Key
       PROVE  x \in span[l] <=> x \in span2[l] /\ x < sep
  <2>1. Between(t, q, j, x) <=> (j > 1 => KeyAt(t, q, j - 1) < x) /\ x < sep
    BY <1>2 DEF Between
  <2>2. x < sep => (j < KeyCount(t, q) => x < KeyAt(t, q, j + 1))
    BY <1>2, <1>7, <1>8
  <2>3. QED
    BY <1>5, <1>16, <1>17, <2>1, <2>2
<1>19. ASSUME NEW x \in Key
       PROVE  x \in span[r] <=> x \in span2[l] /\ sep < x
  <2>1. Between(t, q, j + 1, x) <=> sep < x /\ (j < KeyCount(t, q) => x < KeyAt(t, q, j + 1))
    <3>1. (j + 1) - 1 = j /\ j + 1 > 1 /\ (j + 1 =< KeyCount(t, q) <=> j < KeyCount(t, q))
      BY <1>2
    <3>2. QED
      BY <3>1 DEF Between
  <2>2. sep < x => (j > 1 => KeyAt(t, q, j - 1) < x)
    <3>1. SUFFICES ASSUME j > 1, sep < x PROVE KeyAt(t, q, j - 1) < x
      OBVIOUS
    <3>2. j - 1 \in 1..KeyCount(t, q) /\ j - 1 < j
      BY <1>2, <3>1
    <3>3. KeyAt(t, q, j - 1) < sep
      BY <1>8, <3>2
    <3>4. KeyAt(t, q, j - 1) \in Int /\ x \in Int
      BY <1>7, <1>8, <3>2
    <3> HIDE DEF sep
    <3>5. QED
      BY <1>15, <3>1, <3>3, <3>4
  <2>3. QED
    BY <1>5, <1>16, <1>17, <2>1, <2>2
<1>20. sep \in span2[l]
  <2>1. j > 1 => KeyAt(t, q, j - 1) < sep
    BY <1>2, <1>8
  <2>2. j < KeyCount(t, q) => sep < KeyAt(t, q, j + 1)
    BY <1>2, <1>8
  <2>3. QED
    BY <1>5, <1>15, <1>17, <2>1, <2>2
<1> HIDE DEF sep
<1>21. /\ \A i \in 1..KeyCount(t, l) : KeyAt(t, l, i) \in span2[l] /\ KeyAt(t, l, i) < sep
       /\ \A i \in 1..KeyCount(t, r) : KeyAt(t, r, i) \in span2[l] /\ sep < KeyAt(t, r, i)
  BY <1>9, <1>10, <1>18, <1>19
<1>22. ASSUME NEW n \in Heap(u)
       PROVE  \A i \in 1..KeyCount(u, n) :
                /\ KeyAt(u, n, i) \in span2[n]
                /\ \A i2 \in 1..KeyCount(u, n) : i < i2 => KeyAt(u, n, i) < KeyAt(u, n, i2)
  <2>1. CASE n \notin {l, q}
    <3>1. KeyCount(u, n) = KeyCount(t, n) /\ \A i : KeyAt(u, n, i) = KeyAt(t, n, i)
      BY <2>1, SameEnts DEF Joins
    <3>2. QED
      BY <1>1, <1>3, <1>5, <2>1, <3>1 DEF Spanned
  <2>2. CASE n = q
    <3>1. span2[q] = span[q]
      BY <1>2, <1>3, <1>5
    <3>2. \A i \in 1..KeyCount(u, q) : KeyAt(u, q, i) \in span2[q]
      <4>1. TAKE i \in 1..KeyCount(u, q)
      <4>2. i < j \/ i >= j
        BY <1>2, <1>11
      <4>3. QED
        BY <1>8, <1>12, <3>1, <4>2
    <3>3. \A i, i2 \in 1..KeyCount(u, q) : i < i2 => KeyAt(u, q, i) < KeyAt(u, q, i2)
      <4>1. TAKE i, i2 \in 1..KeyCount(u, q)
      <4>2. HAVE i < i2
      <4>3. CASE i2 < j
        <5>1. i < j
          BY <1>2, <1>11, <4>2, <4>3
        <5>2. QED
          BY <1>8, <1>12, <4>2, <4>3, <5>1
      <4>4. CASE i2 >= j /\ i < j
        <5>1. i < i2 + 1
          BY <1>2, <1>11, <4>2
        <5>2. QED
          BY <1>8, <1>12, <4>4, <5>1
      <4>5. CASE i >= j
        <5>1. i2 >= j /\ i + 1 < i2 + 1
          BY <1>2, <1>11, <4>2, <4>5
        <5>2. QED
          BY <1>8, <1>12, <4>5, <5>1
      <4>6. QED
        BY <1>2, <1>11, <4>3, <4>4, <4>5
    <3>4. QED
      BY <2>2, <3>2, <3>3
  <2>3. CASE n = l
    <3>1. \A i \in 1..KeyCount(u, l) : i =< a \/ i = a + 1 \/ i > a + 1
      BY <1>2, <1>13
    <3>2. \A i \in 1..KeyCount(u, l) : KeyAt(u, l, i) \in span2[l]
      BY <1>14, <1>20, <1>21, <3>1
    <3>3. \A i, i2 \in 1..KeyCount(u, l) : i < i2 => KeyAt(u, l, i) < KeyAt(u, l, i2)
      <4>1. TAKE i, i2 \in 1..KeyCount(u, l)
      <4>2. HAVE i < i2
      <4>3. CASE i2 =< a
        <5>1. i =< a
          BY <1>2, <1>13, <4>2, <4>3
        <5>2. QED
          BY <1>9, <1>14, <4>2, <4>3, <5>1
      <4>4. CASE i2 = a + 1
        <5>1. i =< a
          BY <1>2, <1>13, <4>2, <4>4
        <5>2. QED
          BY <1>14, <1>21, <4>4, <5>1
      <4>5. CASE i2 > a + 1
        <5>1. CASE i =< a
          <6>1. KeyAt(u, l, i) < sep /\ sep < KeyAt(u, l, i2)
            BY <1>14, <1>21, <4>5, <5>1
          <6>2. KeyAt(u, l, i) \in Int /\ KeyAt(u, l, i2) \in Int
            BY <1>9, <1>10, <1>14, <4>5, <5>1
          <6>3. QED
            BY <1>15, <6>1, <6>2
        <5>2. CASE i = a + 1
          BY <1>14, <1>21, <4>5, <5>2
        <5>3. CASE i > a + 1
          <6>1. i - a - 1 < i2 - a - 1
            BY <1>2, <1>13, <4>2
          <6>2. QED
            BY <1>10, <1>14, <4>5, <5>3, <6>1
        <5>4. QED
          BY <3>1, <5>1, <5>2, <5>3
      <4>6. QED
        BY <3>1, <4>3, <4>4, <4>5
    <3>4. QED
      BY <2>3, <3>2, <3>3
  <2>4. QED
    BY <2>1, <2>2, <2>3
<1>23. \A n \in H : \A i \in 1..KidCount(t, n) :
        /\ Kid(t, n, i) \in H /\ Parent(t, Kid(t, n, i)) = n
        /\ \A i2 \in 1..KidCount(t, n) : Kid(t, n, i) = Kid(t, n, i2) => i = i2
        /\ \A x \in Key : x \in span[Kid(t, n, i)] <=> x \in span[n] /\ Between(t, n, i, x)
  BY KidFacts
<1>24. \A n \in H \ {q} : \A i \in 1..KidCount(t, n) :
        Kid(t, n, i) \in Heap(u) /\ span2[Kid(t, n, i)] = span[Kid(t, n, i)]
  <2>1. TAKE n \in H \ {q}
  <2>2. TAKE i \in 1..KidCount(t, n)
  <2>3. Kid(t, n, i) \notin {l, r}
    BY <1>2, <1>23
  <2>4. QED
    BY <1>3, <1>5, <1>23, <2>3
<1>25. ASSUME NEW n \in Heap(u), NEW i \in 1..KidCount(u, n), NEW x \in Key
       PROVE  x \in span2[Kid(u, n, i)] <=> x \in span2[n] /\ Between(u, n, i, x)
  <2>0. x \in Int
    BY <1>7
  <2>1. CASE n \notin {l, q}
    <3>1. KidCount(u, n) = KidCount(t, n) /\ Kid(u, n, i) = Kid(t, n, i)
      BY <2>1, SameKids DEF Joins
    <3>2. Between(u, n, i, x) <=> Between(t, n, i, x)
      BY <2>1, SameEnts DEF Joins
    <3>3. QED
      BY <1>3, <1>5, <1>23, <1>24, <2>1, <3>1, <3>2
  <2>2. CASE n = q
    <3>1. Kid(u, q, i) = IF i < j + 1 THEN Kid(t, q, i) ELSE Kid(t, q, i + 1)
      BY <1>11, <2>2 DEF Joins
    <3>2. span2[q] = span[q]
      BY <1>2, <1>3, <1>5
    <3>3. CASE i < j
      <4>1. i \in 1..KidCount(t, q) /\ Kid(u, q, i) = Kid(t, q, i) /\ i # j /\ i # j + 1
        BY <1>2, <1>11, <2>2, <3>1, <3>3
      <4>2. Kid(t, q, i) \in Heap(u) \ {l}
        BY <1>2, <1>3, <1>23, <4>1
      <4>3. Between(u, q, i, x) <=> Between(t, q, i, x)
        <5>1. i > 1 => KeyAt(u, q, i - 1) = KeyAt(t, q, i - 1)
          BY <1>2, <1>11, <1>12, <2>2, <3>3
        <5>2. i =< KeyCount(u, q) /\ i =< KeyCount(t, q) /\ KeyAt(u, q, i) = KeyAt(t, q, i)
          BY <1>2, <1>11, <1>12, <2>2, <3>3
        <5>3. QED
          BY <5>1, <5>2 DEF Between
      <4>4. QED
        BY <1>5, <1>23, <2>2, <3>2, <4>1, <4>2, <4>3
    <3>4. CASE i = j
      <4>1. Kid(u, q, i) = l
        BY <1>2, <3>1, <3>4
      <4>2. QED
        BY <1>5, <2>2, <3>2, <3>4, <4>1
    <3>5. CASE i > j
      <4>1. i + 1 \in 1..KidCount(t, q) /\ Kid(u, q, i) = Kid(t, q, i + 1) /\ i + 1 # j /\ i + 1 # j + 1
        BY <1>2, <1>11, <2>2, <3>1, <3>5
      <4>2. Kid(t, q, i + 1) \in Heap(u) \ {l}
        BY <1>2, <1>3, <1>23, <4>1
      <4>3. Between(u, q, i, x) <=> Between(t, q, i + 1, x)
        <5>1. i > 1 /\ i + 1 > 1 /\ (i + 1) - 1 = i
          BY <1>2, <3>5
        <5>2. KeyAt(u, q, i - 1) = KeyAt(t, q, i)
          <6>1. i - 1 \in 1..KeyCount(u, q) /\ i - 1 >= j /\ (i - 1) + 1 = i
            BY <1>2, <1>11, <2>2, <3>5
          <6>2. QED
            BY <1>12, <6>1
        <5>3. i =< KeyCount(u, q) <=> i + 1 =< KeyCount(t, q)
          BY <1>2, <1>11, <2>2
        <5>4. i =< KeyCount(u, q) => KeyAt(u, q, i) = KeyAt(t, q, i + 1)
          BY <1>2, <1>11, <1>12, <2>2, <3>5
        <5>5. QED
          BY <5>1, <5>2, <5>3, <5>4 DEF Between
      <4>4. QED
        BY <1>5, <1>23, <2>2, <3>2, <4>1, <4>2, <4>3
    <3>6. QED
      BY <1>2, <1>11, <2>2, <3>3, <3>4, <3>5
  <2>3. CASE n = l
    <3>1. /\ ~Leaf(t, l) /\ KidCount(t, l) = a + 1 /\ KidCount(t, r) = KeyCount(t, r) + 1
          /\ KidCount(u, l) = KidCount(t, l) + KidCount(t, r)
      BY <1>2, <1>13, <2>3
    <3>2. Kid(u, l, i) = IF i =< KidCount(t, l) THEN Kid(t, l, i)
                         ELSE Kid(t, r, i - KidCount(t, l))
      BY <2>3, <3>1 DEF Joins
    <3>3. CASE i =< a + 1
      <4>1. i \in 1..KidCount(t, l) /\ Kid(u, l, i) = Kid(t, l, i)
        BY <1>2, <2>3, <3>1, <3>2, <3>3
      <4>2. x \in span2[Kid(u, l, i)] <=> x \in span2[l] /\ x < sep /\ Between(t, l, i, x)
        BY <1>2, <1>18, <1>23, <1>24, <4>1
      <4>3. i > 1 => KeyAt(u, l, i - 1) = KeyAt(t, l, i - 1)
        <5>1. i > 1 => i - 1 \in 1..KeyCount(u, l) /\ i - 1 =< a
          BY <1>2, <1>13, <3>1, <3>3, <4>1
        <5>2. QED
          BY <1>14, <5>1
      <4>4. i \in 1..KeyCount(u, l)
        BY <1>2, <1>13, <3>1, <4>1
      <4>5. CASE i =< a
        <5>1. KeyAt(u, l, i) = KeyAt(t, l, i) /\ i \in 1..KeyCount(t, l)
          BY <1>14, <4>4, <4>5
        <5>2. Between(u, l, i, x) <=> Between(t, l, i, x)
          BY <4>3, <4>4, <4>5, <5>1 DEF Between
        <5>3. Between(t, l, i, x) => x < sep
          BY <1>9, <1>15, <1>21, <2>0, <5>1 DEF Between
        <5>4. QED
          BY <2>3, <4>2, <5>2, <5>3
      <4>6. CASE i = a + 1
        <5>1. KeyAt(u, l, i) = sep /\ ~(i =< KeyCount(t, l)) /\ i =< KeyCount(u, l)
          BY <1>2, <1>14, <4>4, <4>6
        <5>2. Between(u, l, i, x) <=> Between(t, l, i, x) /\ x < sep
          BY <4>3, <5>1 DEF Between
        <5>3. QED
          BY <2>3, <4>2, <5>2
      <4>7. QED
        BY <1>2, <3>3, <4>1, <4>5, <4>6
    <3>4. CASE i > a + 1
      <4> DEFINE d == i - KidCount(t, l)
      <4>1. d \in 1..KidCount(t, r) /\ Kid(u, l, i) = Kid(t, r, d)
        BY <1>2, <2>3, <3>1, <3>2, <3>4
      <4>2. i = d + a + 1 /\ d \in Int /\ d = i - a - 1
        BY <1>2, <3>1, <4>1
      <4> HIDE DEF d
      <4>3. x \in span2[Kid(u, l, i)] <=> x \in span2[l] /\ sep < x /\ Between(t, r, d, x)
        BY <1>2, <1>19, <1>23, <1>24, <4>1
      <4>4. i =< KeyCount(u, l) <=> d =< KeyCount(t, r)
        BY <1>2, <1>13, <4>2
      <4>5. i =< KeyCount(u, l) => KeyAt(u, l, i) = KeyAt(t, r, d)
        <5>1. i \in 1..KidCount(u, l)
          BY <2>3
        <5>2. i =< KeyCount(u, l) => i \in 1..KeyCount(u, l)
          BY <1>2, <1>13, <3>1, <5>1
        <5>3. QED
          BY <1>14, <3>4, <4>2, <5>2
      <4>6. CASE d > 1
        <5>1. i - 1 \in 1..KeyCount(u, l) /\ i - 1 > a + 1 /\ (i - 1) - a - 1 = d - 1 /\ i > 1
          BY <1>2, <1>13, <3>1, <4>1, <4>2, <4>6
        <5>2. KeyAt(u, l, i - 1) = KeyAt(t, r, d - 1) /\ d - 1 \in 1..KeyCount(t, r)
          <6>1. (i - 1) - a - 1 \in 1..KeyCount(t, r) /\ KeyAt(u, l, i - 1) = KeyAt(t, r, (i - 1) - a - 1)
            BY <1>14, <5>1
          <6>2. QED
            BY <5>1, <6>1
        <5>3. Between(u, l, i, x) <=> Between(t, r, d, x)
          BY <4>4, <4>5, <4>6, <5>1, <5>2 DEF Between
        <5>4. Between(t, r, d, x) => sep < x
          BY <1>10, <1>15, <1>21, <2>0, <4>6, <5>2 DEF Between
        <5>5. QED
          BY <2>3, <4>3, <5>3, <5>4
      <4>7. CASE d = 1
        <5>1. i - 1 = a + 1 /\ i > 1 /\ i - 1 \in 1..KeyCount(u, l)
          <6>1. a \in Nat /\ KeyCount(t, r) \in Nat /\ KeyCount(u, l) = a + 1 + KeyCount(t, r)
            BY <1>2, <1>13
          <6> HIDE DEF a
          <6>2. QED
            BY <4>2, <4>7, <6>1
        <5>2. KeyAt(u, l, i - 1) = sep
          BY <1>14, <5>1
        <5>3. Between(u, l, i, x) <=> sep < x /\ Between(t, r, d, x)
          <6>1. Between(u, l, i, x) <=>
                    sep < x /\ (i =< KeyCount(u, l) => x < KeyAt(u, l, i))
            BY <5>1, <5>2 DEF Between
          <6>2. Between(t, r, d, x) <=> (d =< KeyCount(t, r) => x < KeyAt(t, r, d))
            BY <4>7 DEF Between
          <6>3. QED
            BY <4>4, <4>5, <6>1, <6>2
        <5>4. QED
          BY <2>3, <4>3, <5>3
      <4>8. QED
        BY <4>1, <4>6, <4>7
    <3>5. QED
      BY <1>2, <2>3, <3>1, <3>3, <3>4
  <2>4. QED
    BY <2>1, <2>2, <2>3
<1>26. QED
  BY <1>5, <1>6, <1>22, <1>25 DEF Spanned, span2

\* A join keeps every entry.
LEMMA JoinHeld ==
    ASSUME NEW t, NEW u, NEW level, NEW span, Formed(t, level, span), Typed(u),
           NEW q \in Heap(t), NEW j \in 1..KeyCount(t, q), ~Leaf(t, q),
           NEW l, l = Kid(t, q, j), NEW r, r = Kid(t, q, j + 1),
           Joins(t, u, q, j, l, r)
    PROVE  Held(u) = Held(t)
<1> DEFINE a == KeyCount(t, l)
<1>1. /\ l \in Heap(t) /\ r \in Heap(t) /\ l # r /\ l # q /\ r # q
      /\ KeyCount(t, l) \in Nat /\ KeyCount(t, r) \in Nat /\ KeyCount(t, q) \in Nat
      /\ j \in Nat /\ Typed(t)
  BY JoinPlace DEF Formed
<1>2. Heap(u) = Heap(t) \ {r}
  BY DEF Joins
<1>3. KeyCount(u, q) = KeyCount(t, q) - 1 /\ KeyCount(u, l) = a + 1 + KeyCount(t, r)
  BY DEF Joins
<1>4. \A i \in 1..KeyCount(u, q) :
        EntAt(u, q, i) = IF i < j THEN EntAt(t, q, i) ELSE EntAt(t, q, i + 1)
  BY <1>3 DEF Joins
<1>5. \A i \in 1..KeyCount(u, l) :
        EntAt(u, l, i) = IF i =< a THEN EntAt(t, l, i)
                         ELSE IF i = a + 1 THEN EntAt(t, q, j) ELSE EntAt(t, r, i - a - 1)
  BY <1>3 DEF Joins
<1>6. \A n \in Heap(u) \ {l, q} :
        KeyCount(u, n) = KeyCount(t, n) /\ \A i : EntAt(u, n, i) = EntAt(t, n, i)
  BY SameEnts DEF Joins
<1>0. a \in Nat
  BY <1>1
<1> HIDE DEF a
<1>7. ASSUME NEW e, e \in Held(t) PROVE e \in Held(u)
  <2>1. PICK n \in Heap(t) : \E i \in 1..KeyCount(t, n) : EntAt(t, n, i) = e
    BY <1>1, <1>7, HeldFacts
  <2>2. PICK i \in 1..KeyCount(t, n) : EntAt(t, n, i) = e
    BY <2>1
  <2>3. \E n2 \in Heap(u) : \E i2 \in 1..KeyCount(u, n2) : EntAt(u, n2, i2) = e
    <3>1. CASE n \notin {l, q, r}
      BY <1>2, <1>6, <2>2, <3>1
    <3>2. CASE n = q
      <4>1. CASE i < j
        <5>1. i \in 1..KeyCount(u, q) /\ EntAt(u, q, i) = e
          BY <1>1, <1>3, <1>4, <2>2, <3>2, <4>1
        <5>2. QED
          BY <1>1, <1>2, <5>1
      <4>2. CASE i = j
        <5>1. a + 1 \in 1..KeyCount(u, l) /\ EntAt(u, l, a + 1) = e
          BY <1>0, <1>1, <1>3, <1>5, <2>2, <3>2, <4>2
        <5>2. QED
          BY <1>1, <1>2, <5>1
      <4>3. CASE i > j
        <5>1. i - 1 \in 1..KeyCount(u, q) /\ ~(i - 1 < j) /\ (i - 1) + 1 = i
          BY <1>1, <1>3, <2>2, <3>2, <4>3
        <5>2. EntAt(u, q, i - 1) = e
          BY <1>4, <2>2, <3>2, <5>1
        <5>3. QED
          BY <1>1, <1>2, <5>1, <5>2
      <4>4. QED
        BY <1>1, <4>1, <4>2, <4>3
    <3>3. CASE n = l
      <4>1. i \in 1..KeyCount(u, l) /\ i =< a
        BY <1>0, <1>1, <1>3, <2>2, <3>3 DEF a
      <4>2. EntAt(u, l, i) = e
        BY <1>5, <2>2, <3>3, <4>1
      <4>3. QED
        BY <1>1, <1>2, <4>1, <4>2
    <3>4. CASE n = r
      <4>1. /\ i + a + 1 \in 1..KeyCount(u, l) /\ ~(i + a + 1 =< a) /\ i + a + 1 # a + 1
            /\ (i + a + 1) - a - 1 = i
        BY <1>0, <1>1, <1>3, <2>2, <3>4
      <4>2. EntAt(u, l, i + a + 1) = e
        BY <1>5, <2>2, <3>4, <4>1
      <4>3. QED
        BY <1>1, <1>2, <4>1, <4>2
    <3>5. QED
      BY <3>1, <3>2, <3>3, <3>4
  <2>4. QED
    BY <2>3, HeldFacts
<1>8. ASSUME NEW e, e \in Held(u) PROVE e \in Held(t)
  <2>1. PICK n \in Heap(u) : \E i \in 1..KeyCount(u, n) : EntAt(u, n, i) = e
    BY <1>8, HeldFacts
  <2>2. PICK i \in 1..KeyCount(u, n) : EntAt(u, n, i) = e
    BY <2>1
  <2>3. \E n2 \in Heap(t) : \E i2 \in 1..KeyCount(t, n2) : EntAt(t, n2, i2) = e
    <3>1. CASE n \notin {l, q}
      BY <1>2, <1>6, <2>2, <3>1
    <3>2. CASE n = q
      <4>1. EntAt(u, q, i) = IF i < j THEN EntAt(t, q, i) ELSE EntAt(t, q, i + 1)
        BY <1>4, <2>2, <3>2
      <4>2. i \in 1..KeyCount(t, q) /\ i + 1 \in 1..KeyCount(t, q)
        BY <1>1, <1>3, <2>2, <3>2
      <4>3. QED
        BY <2>2, <3>2, <4>1, <4>2
    <3>3. CASE n = l
      <4>1. EntAt(u, l, i) = IF i =< a THEN EntAt(t, l, i)
                             ELSE IF i = a + 1 THEN EntAt(t, q, j)
                             ELSE EntAt(t, r, i - a - 1)
        BY <1>5, <2>2, <3>3
      <4>2. /\ i =< a => i \in 1..KeyCount(t, l)
            /\ ~(i =< a) /\ i # a + 1 => i - a - 1 \in 1..KeyCount(t, r)
        BY <1>0, <1>1, <1>3, <2>2, <3>3 DEF a
      <4>3. QED
        BY <1>1, <2>2, <3>3, <4>1, <4>2
    <3>4. QED
      BY <3>1, <3>2, <3>3
  <2>4. QED
    BY <1>1, <2>3, HeldFacts
<1>9. QED
  BY <1>7, <1>8

\* A join keeps a tree in order.
LEMMA JoinFormed ==
    ASSUME NEW t, NEW u, NEW level, NEW span, Formed(t, level, span), Typed(u),
           NEW q \in Heap(t), NEW j \in 1..KeyCount(t, q), ~Leaf(t, q),
           NEW l, l = Kid(t, q, j), NEW r, r = Kid(t, q, j + 1),
           Joins(t, u, q, j, l, r)
    PROVE  /\ Held(u) = Held(t)
           /\ \E level2, span2 :
                /\ Formed(u, level2, span2)
                /\ \A n \in Heap(u) : level2[n] = level[n]
                /\ \A n \in Heap(u) \ {l} : span2[n] = span[n]
                /\ span2[l] = {x \in span[q] : Between(u, q, j, x)}
<1> DEFINE level2 == [n \in Heap(u) |-> level[n]]
           span2 == [n \in Heap(u) |->
                IF n = l THEN {x \in span[q] : Between(u, q, j, x)} ELSE span[n]]
<1>1. Held(u) = Held(t)
  BY JoinHeld
<1>2. Linked(u, level2)
  BY JoinLinked
<1>3. Spanned(u, span2)
  BY JoinSpanned
<1>4. l \in Heap(u)
  <2>1. l \in Heap(t) /\ l # r
    BY JoinPlace
  <2>2. QED
    BY <2>1 DEF Joins
<1>5. /\ \A n \in Heap(u) : level2[n] = level[n]
      /\ \A n \in Heap(u) \ {l} : span2[n] = span[n]
      /\ span2[l] = {x \in span[q] : Between(u, q, j, x)}
  BY <1>4
<1> HIDE DEF level2, span2
<1>6. Formed(u, level2, span2)
  BY <1>2, <1>3 DEF Formed
<1>7. QED
  BY <1>1, <1>5, <1>6

\* A sequence is one of any set that has its elements.
LEMMA SeqWithin ==
    ASSUME NEW S, NEW T, NEW s \in Seq(S), \A i \in 1..Len(s) : s[i] \in T
    PROVE  s \in Seq(T)
  OBVIOUS

\* A node made by NewNode.
LEMMA NodeFacts ==
    ASSUME NEW u, NEW n, NEW leaf, NEW ents, NEW kids, NEW parent,
           u.node[n] = NewNode(leaf, ents, kids, parent)
    PROVE  Leaf(u, n) = leaf /\ Ents(u, n) = ents /\ Kids(u, n) = kids /\ Parent(u, n) = parent
  BY DEF NewNode, Leaf, Ents, Kids, Parent

\* Typed, with the children a sequence of anything that are nodes one by one.
LEMMA TypedFrom ==
    ASSUME NEW u, IsFiniteSet(Heap(u)), Heap(u) \subseteq Nat \ {0}, u.root \in Heap(u),
           NEW T,
           \A n \in Heap(u) :
            /\ Leaf(u, n) \in BOOLEAN
            /\ Ents(u, n) \in Seq(Entry)
            /\ Kids(u, n) \in Seq(T)
            /\ \A i \in 1..KidCount(u, n) : Kid(u, n, i) \in Heap(u)
            /\ Parent(u, n) \in Nat
    PROVE  Typed(u)
<1>1. ASSUME NEW n \in Heap(u) PROVE Kids(u, n) \in Seq(Heap(u))
  <2>1. Kids(u, n) \in Seq(T) /\ \A i \in 1..Len(Kids(u, n)) : Kids(u, n)[i] \in Heap(u)
    BY DEF KidCount, Kid
  <2>2. QED
    BY <2>1, SeqWithin
<1>2. QED
  BY <1>1 DEF Typed

\* t with children j and j + 1 of q made one
Joined(t, q, j) ==
    [root |-> t.root,
     node |-> [n \in Heap(t) \ {Kid(t, q, j + 1)} |->
        NewNode(Leaf(t, n),
                IF n = q THEN RemoveAt(Ents(t, q), j)
                ELSE IF n = Kid(t, q, j)
                THEN Append(Ents(t, n), EntAt(t, q, j)) \o Ents(t, Kid(t, q, j + 1))
                ELSE Ents(t, n),
                IF n = q THEN RemoveAt(Kids(t, q), j + 1)
                ELSE IF n = Kid(t, q, j) THEN Kids(t, n) \o Kids(t, Kid(t, q, j + 1))
                ELSE Kids(t, n),
                IF \E i \in 1..KidCount(t, Kid(t, q, j + 1)) : Kid(t, Kid(t, q, j + 1), i) = n
                THEN Kid(t, q, j) ELSE Parent(t, n))]]

\* The join exists.
LEMMA JoinedFacts ==
    ASSUME NEW t, NEW level, NEW span, Formed(t, level, span),
           NEW q \in Heap(t), NEW j \in 1..KeyCount(t, q), ~Leaf(t, q),
           NEW l, l = Kid(t, q, j), NEW r, r = Kid(t, q, j + 1),
           NEW u, u = Joined(t, q, j)
    PROVE  Typed(u) /\ Joins(t, u, q, j, l, r)
<1> DEFINE H == Heap(t)
<1>1. /\ j \in 1..KidCount(t, q) /\ j + 1 \in 1..KidCount(t, q)
      /\ l \in H /\ r \in H /\ l # r /\ l # q /\ r # q /\ l # t.root /\ r # t.root
      /\ Parent(t, l) = q /\ Parent(t, r) = q
      /\ KeyCount(t, l) \in Nat /\ KeyCount(t, r) \in Nat /\ KeyCount(t, q) \in Nat
      /\ KidCount(t, l) \in Nat /\ KidCount(t, r) \in Nat /\ KidCount(t, q) \in Nat
  BY JoinPlace
<1>2. Typed(t)
  BY DEF Formed
<1> DEFINE E(n) == IF n = q THEN RemoveAt(Ents(t, q), j)
                   ELSE IF n = l THEN Append(Ents(t, n), EntAt(t, q, j)) \o Ents(t, r)
                   ELSE Ents(t, n)
           K(n) == IF n = q THEN RemoveAt(Kids(t, q), j + 1)
                   ELSE IF n = l THEN Kids(t, n) \o Kids(t, r)
                   ELSE Kids(t, n)
           P(n) == IF \E i \in 1..KidCount(t, r) : Kid(t, r, i) = n THEN l ELSE Parent(t, n)
<1>3. /\ u.root = t.root /\ Heap(u) = H \ {r}
      /\ \A n \in Heap(u) : u.node[n] = NewNode(Leaf(t, n), E(n), K(n), P(n))
  BY DEF Joined, Heap
<1> HIDE DEF E, K, P
<1>4. /\ \A n \in Heap(u) : Leaf(u, n) = Leaf(t, n)
      /\ \A n \in Heap(u) : Ents(u, n) = E(n)
      /\ \A n \in Heap(u) : Kids(u, n) = K(n)
      /\ \A n \in Heap(u) : Parent(u, n) = P(n)
  BY <1>3, NodeFacts
<1> USE DEF E, K, P
<1>5. q \in Heap(u) /\ l \in Heap(u)
  BY <1>1, <1>3
<1>6. /\ Ents(u, q) \in Seq(Entry) /\ KeyCount(u, q) = KeyCount(t, q) - 1
      /\ \A i \in 1..(KeyCount(t, q) - 1) :
            EntAt(u, q, i) = IF i < j THEN EntAt(t, q, i) ELSE EntAt(t, q, i + 1)
  <2>1. Ents(t, q) \in Seq(Entry) /\ j \in 1..Len(Ents(t, q))
    BY <1>2, TypedFacts DEF KeyCount
  <2>2. Ents(u, q) = RemoveAt(Ents(t, q), j)
    BY <1>4, <1>5
  <2>3. QED
    BY <2>1, <2>2, RemoveAtFacts DEF KeyCount, EntAt
<1>7. /\ Kids(u, q) \in Seq(H) /\ KidCount(u, q) = KidCount(t, q) - 1
      /\ \A i \in 1..(KidCount(t, q) - 1) :
            Kid(u, q, i) = IF i < j + 1 THEN Kid(t, q, i) ELSE Kid(t, q, i + 1)
  <2>1. Kids(t, q) \in Seq(H) /\ j + 1 \in 1..Len(Kids(t, q))
    BY <1>1, <1>2, TypedFacts DEF KidCount
  <2>2. Kids(u, q) = RemoveAt(Kids(t, q), j + 1)
    BY <1>4, <1>5
  <2> DEFINE kids == Kids(t, q)
  <2> HIDE DEF kids, H
  <2>3. /\ RemoveAt(kids, j + 1) \in Seq(H)
        /\ Len(RemoveAt(kids, j + 1)) = Len(kids) - 1
        /\ \A i \in 1..(Len(kids) - 1) :
             RemoveAt(kids, j + 1)[i] = IF i < j + 1 THEN kids[i] ELSE kids[i + 1]
    <3>1. kids \in Seq(H) /\ j + 1 \in 1..Len(kids)
      BY <2>1 DEF kids
    <3>2. QED
      BY <3>1, RemoveAtFacts
  <2>4. Kids(u, q) = RemoveAt(kids, j + 1)
    BY <2>2 DEF kids
  <2>5. KidCount(t, q) = Len(kids) /\ \A i : Kid(t, q, i) = kids[i]
    BY DEF kids, KidCount, Kid
  <2>6. QED
    BY <2>3, <2>4, <2>5 DEF KidCount, Kid
<1>8. /\ Ents(u, l) \in Seq(Entry) /\ KeyCount(u, l) = KeyCount(t, l) + 1 + KeyCount(t, r)
      /\ \A i \in 1..(KeyCount(t, l) + 1 + KeyCount(t, r)) :
            EntAt(u, l, i) = IF i =< KeyCount(t, l) THEN EntAt(t, l, i)
                             ELSE IF i = KeyCount(t, l) + 1 THEN EntAt(t, q, j)
                             ELSE EntAt(t, r, i - KeyCount(t, l) - 1)
  <2>1. Ents(t, l) \in Seq(Entry) /\ Ents(t, r) \in Seq(Entry) /\ EntAt(t, q, j) \in Entry
    BY <1>1, <1>2, TypedFacts
  <2>2. Ents(u, l) = Append(Ents(t, l), EntAt(t, q, j)) \o Ents(t, r)
    BY <1>1, <1>4, <1>5
  <2> DEFINE e == EntAt(t, q, j)
  <2> HIDE DEF e
  <2>3. /\ Append(Ents(t, l), e) \o Ents(t, r) \in Seq(Entry)
        /\ Len(Append(Ents(t, l), e) \o Ents(t, r)) = Len(Ents(t, l)) + 1 + Len(Ents(t, r))
        /\ \A x \in 1..(Len(Ents(t, l)) + 1 + Len(Ents(t, r))) :
             (Append(Ents(t, l), e) \o Ents(t, r))[x] =
                IF x =< Len(Ents(t, l)) THEN Ents(t, l)[x]
                ELSE IF x = Len(Ents(t, l)) + 1 THEN e ELSE Ents(t, r)[x - Len(Ents(t, l)) - 1]
    <3>1. e \in Entry
      BY <2>1 DEF e
    <3>2. QED
      BY <2>1, <3>1, JoinFacts
  <2>4. Ents(u, l) = Append(Ents(t, l), e) \o Ents(t, r)
    BY <2>2 DEF e
  <2>5. QED
    BY <2>3, <2>4 DEF KeyCount, EntAt, e
<1>9. /\ Kids(u, l) \in Seq(H) /\ KidCount(u, l) = KidCount(t, l) + KidCount(t, r)
      /\ \A i \in 1..(KidCount(t, l) + KidCount(t, r)) :
            Kid(u, l, i) = IF i =< KidCount(t, l) THEN Kid(t, l, i)
                           ELSE Kid(t, r, i - KidCount(t, l))
  <2>1. Kids(t, l) \in Seq(H) /\ Kids(t, r) \in Seq(H)
    BY <1>1, <1>2, TypedFacts
  <2>2. Kids(u, l) = Kids(t, l) \o Kids(t, r)
    BY <1>1, <1>4, <1>5
  <2>3. QED
    BY <2>1, <2>2, ConcatFacts DEF KidCount, Kid
<1>10. \A n \in Heap(u) \ {l, q} : Ents(u, n) = Ents(t, n) /\ Kids(u, n) = Kids(t, n)
  BY <1>4
<1>11. Joins(t, u, q, j, l, r)
  BY <1>3, <1>4, <1>6, <1>7, <1>8, <1>9, <1>10 DEF Joins
<1>12. \A n \in H : \A i \in 1..KidCount(t, n) :
        /\ Kid(t, n, i) \in H /\ Parent(t, Kid(t, n, i)) = n
        /\ \A i2 \in 1..KidCount(t, n) : Kid(t, n, i) = Kid(t, n, i2) => i = i2
  BY KidFacts
<1>13. \A n \in H \ {q} : \A i \in 1..KidCount(t, n) : Kid(t, n, i) \in Heap(u)
  BY <1>1, <1>3, <1>12
<1>14. \A i \in 1..KidCount(t, q) : i # j + 1 => Kid(t, q, i) \in Heap(u)
  BY <1>1, <1>3, <1>12
<1>15. ASSUME NEW n \in Heap(u)
       PROVE  /\ Leaf(u, n) \in BOOLEAN
              /\ Ents(u, n) \in Seq(Entry)
              /\ Kids(u, n) \in Seq(H)
              /\ Parent(u, n) \in Nat
              /\ \A i \in 1..KidCount(u, n) : Kid(u, n, i) \in Heap(u)
  <2>1. n \in H /\ Leaf(u, n) \in BOOLEAN
    BY <1>2, <1>3, <1>4, TypedFacts
  <2>2. Ents(u, n) \in Seq(Entry)
    BY <1>2, <1>6, <1>8, <1>10, <2>1, TypedFacts
  <2>3. Kids(u, n) \in Seq(H)
    BY <1>2, <1>7, <1>9, <1>10, <2>1, TypedFacts
  <2>4. Parent(u, n) \in Nat
    <3>1. l \in Nat /\ Parent(t, n) \in Nat
      BY <1>1, <1>2, <2>1, TypedFacts
    <3>2. Parent(u, n) = l \/ Parent(u, n) = Parent(t, n)
      BY <1>4
    <3>3. QED
      BY <3>1, <3>2
  <2>5. ASSUME NEW i \in 1..KidCount(u, n) PROVE Kid(u, n, i) \in Heap(u)
    <3>1. CASE n = q
      <4>1. Kid(u, q, i) = IF i < j + 1 THEN Kid(t, q, i) ELSE Kid(t, q, i + 1)
        BY <1>7, <3>1
      <4>2. /\ i < j + 1 => i \in 1..KidCount(t, q) /\ i # j + 1
            /\ ~(i < j + 1) => i + 1 \in 1..KidCount(t, q) /\ i + 1 # j + 1
        BY <1>1, <1>7, <3>1
      <4>3. QED
        BY <1>14, <3>1, <4>1, <4>2
    <3>2. CASE n = l
      <4>1. Kid(u, l, i) = IF i =< KidCount(t, l) THEN Kid(t, l, i)
                           ELSE Kid(t, r, i - KidCount(t, l))
        BY <1>9, <3>2
      <4>2. /\ i =< KidCount(t, l) => i \in 1..KidCount(t, l)
            /\ ~(i =< KidCount(t, l)) => i - KidCount(t, l) \in 1..KidCount(t, r)
        BY <1>1, <1>9, <3>2
      <4>3. QED
        BY <1>1, <1>13, <3>2, <4>1, <4>2
    <3>3. CASE n \notin {l, q}
      <4>1. KidCount(u, n) = KidCount(t, n) /\ Kid(u, n, i) = Kid(t, n, i)
        BY <1>10, <3>3, SameKids
      <4>2. QED
        BY <1>13, <2>1, <3>3, <4>1
    <3>4. QED
      BY <3>1, <3>2, <3>3
  <2>6. QED
    BY <2>1, <2>2, <2>3, <2>4, <2>5
<1>16. IsFiniteSet(Heap(u)) /\ Heap(u) \subseteq Nat \ {0} /\ u.root \in Heap(u)
  BY <1>1, <1>2, <1>3, FS_Subset DEF Typed
<1>17. Typed(u)
  BY <1>15, <1>16, TypedFrom
<1>18. QED
  BY <1>11, <1>17

(***************************************************************************)
(* A node or two that change.                                              *)
(***************************************************************************)
\* u is t but for the entries of p
Differs(t, u, p) ==
    /\ u.root = t.root
    /\ Heap(u) = Heap(t)
    /\ \A n \in Heap(t) :
        Leaf(u, n) = Leaf(t, n) /\ Kids(u, n) = Kids(t, n) /\ Parent(u, n) = Parent(t, n)
    /\ \A n \in Heap(t) \ {p} : Ents(u, n) = Ents(t, n)

\* with e put in at i
Puts(t, u, p, i, e) ==
    /\ Differs(t, u, p)
    /\ KeyCount(u, p) = KeyCount(t, p) + 1
    /\ \A i2 \in 1..(KeyCount(t, p) + 1) :
        EntAt(u, p, i2) = IF i2 < i THEN EntAt(t, p, i2)
                          ELSE IF i2 = i THEN e ELSE EntAt(t, p, i2 - 1)

\* with entry i taken out
Takes(t, u, p, i) ==
    /\ Differs(t, u, p)
    /\ KeyCount(u, p) = KeyCount(t, p) - 1
    /\ \A i2 \in 1..(KeyCount(t, p) - 1) :
        EntAt(u, p, i2) = IF i2 < i THEN EntAt(t, p, i2) ELSE EntAt(t, p, i2 + 1)

\* Another set of entries in a leaf, sorted and within its span, is as good.
LEMMA DiffersFormed ==
    ASSUME NEW t, NEW u, NEW level, NEW span, Formed(t, level, span), Typed(u),
           NEW p \in Heap(t), Leaf(t, p), Differs(t, u, p),
           \A i \in 1..KeyCount(u, p) :
            /\ KeyAt(u, p, i) \in span[p]
            /\ \A i2 \in 1..KeyCount(u, p) : i < i2 => KeyAt(u, p, i) < KeyAt(u, p, i2)
    PROVE  Formed(u, level, span)
<1>1. Typed(t) /\ Linked(t, level) /\ Spanned(t, span)
  BY DEF Formed
<1>2. /\ u.root = t.root /\ Heap(u) = Heap(t)
      /\ \A n \in Heap(t) :
            /\ Leaf(u, n) = Leaf(t, n) /\ Parent(u, n) = Parent(t, n)
            /\ KidCount(u, n) = KidCount(t, n) /\ \A i : Kid(u, n, i) = Kid(t, n, i)
  BY SameKids DEF Differs
<1>3. \A n \in Heap(t) \ {p} :
        /\ KeyCount(u, n) = KeyCount(t, n) /\ \A i : KeyAt(u, n, i) = KeyAt(t, n, i)
        /\ \A i, x : Between(u, n, i, x) <=> Between(t, n, i, x)
  BY SameEnts DEF Differs
<1>4. KidCount(t, p) = 0
  BY <1>1 DEF Linked
<1>5. Linked(u, level)
  <2>1. level \in [Heap(u) -> Nat] /\ Parent(u, u.root) = Null
    BY <1>1, <1>2 DEF Linked, Typed
  <2>2. ASSUME NEW n \in Heap(u)
        PROVE  /\ level[n] =< level[u.root]
               /\ Leaf(u, n) <=> level[n] = 0
               /\ KidCount(u, n) = IF Leaf(u, n) THEN 0 ELSE KeyCount(u, n) + 1
    <3>1. /\ level[n] =< level[u.root]
          /\ Leaf(u, n) <=> level[n] = 0
      BY <1>1, <1>2 DEF Linked
    <3>2. CASE n = p
      BY <1>2, <1>4, <3>1, <3>2
    <3>3. CASE n # p
      BY <1>1, <1>2, <1>3, <3>1, <3>3 DEF Linked
    <3>4. QED
      BY <3>2, <3>3
  <2>3. ASSUME NEW n \in Heap(u), NEW i \in 1..KidCount(u, n)
        PROVE  /\ level[Kid(u, n, i)] = level[n] - 1
               /\ Parent(u, Kid(u, n, i)) = n
               /\ \A j \in 1..KidCount(u, n) : Kid(u, n, i) = Kid(u, n, j) => i = j
    <3>1. i \in 1..KidCount(t, n) /\ Kid(u, n, i) = Kid(t, n, i) /\ n \in Heap(t)
      BY <1>2
    <3>2. /\ Kid(t, n, i) \in Heap(t) /\ Parent(t, Kid(t, n, i)) = n
          /\ level[Kid(t, n, i)] = level[n] - 1
          /\ \A j \in 1..KidCount(t, n) : Kid(t, n, i) = Kid(t, n, j) => i = j
      BY <3>1, KidFacts
    <3>3. QED
      BY <1>2, <3>1, <3>2
  <2>4. ASSUME NEW n \in Heap(u), n # u.root
        PROVE  /\ Parent(u, n) \in Heap(u)
               /\ \E i \in 1..KidCount(u, Parent(u, n)) : Kid(u, Parent(u, n), i) = n
    <3> DEFINE o == Parent(t, n)
    <3>1. o \in Heap(t) /\ \E i \in 1..KidCount(t, o) : Kid(t, o, i) = n
      BY <1>1, <1>2, <2>4 DEF Linked
    <3>2. Parent(u, n) = o
      BY <1>2
    <3> HIDE DEF o
    <3>3. QED
      BY <1>2, <3>1, <3>2
  <2>5. QED
    BY <2>1, <2>2, <2>3, <2>4 DEF Linked
<1>6. Spanned(u, span)
  <2>1. span \in [Heap(u) -> SUBSET Key] /\ span[u.root] = Key
    BY <1>1, <1>2 DEF Spanned
  <2>2. ASSUME NEW n \in Heap(u)
        PROVE  \A i \in 1..KeyCount(u, n) :
                /\ KeyAt(u, n, i) \in span[n]
                /\ \A j \in 1..KeyCount(u, n) : i < j => KeyAt(u, n, i) < KeyAt(u, n, j)
    <3>1. CASE n = p
      BY <3>1
    <3>2. CASE n # p
      BY <1>1, <1>2, <1>3, <3>2 DEF Spanned
    <3>3. QED
      BY <3>1, <3>2
  <2>3. ASSUME NEW n \in Heap(u), NEW i \in 1..KidCount(u, n), NEW x \in Key
        PROVE  x \in span[Kid(u, n, i)] <=> x \in span[n] /\ Between(u, n, i, x)
    <3>1. n # p /\ n \in Heap(t) /\ i \in 1..KidCount(t, n) /\ Kid(u, n, i) = Kid(t, n, i)
      BY <1>2, <1>4
    <3>2. x \in span[Kid(t, n, i)] <=> x \in span[n] /\ Between(t, n, i, x)
      BY <1>1, <3>1 DEF Spanned
    <3>3. QED
      BY <1>3, <3>1, <3>2
  <2>4. QED
    BY <2>1, <2>2, <2>3 DEF Spanned
<1>7. QED
  BY <1>5, <1>6 DEF Formed

\* An entry put into the leaf where it belongs.
LEMMA PutFormed ==
    ASSUME NEW t, NEW u, NEW level, NEW span, Formed(t, level, span), Typed(u),
           NEW p \in Heap(t), Leaf(t, p), NEW e \in Entry, e.key \in span[p],
           ~Here(Ents(t, p), e.key), NEW s, s = Slot(Ents(t, p), e.key), Puts(t, u, p, s, e)
    PROVE  Formed(u, level, span) /\ Held(u) = Held(t) \cup {e}
<1> DEFINE k == e.key
<1>1. Typed(t) /\ Linked(t, level) /\ Spanned(t, span)
  BY DEF Formed
<1>2. k \in Key /\ k \in Int
  BY BTreeAssumption DEF Entry
<1>3. /\ s \in 1..(KeyCount(t, p) + 1)
      /\ \A i \in 1..KeyCount(t, p) : i < s => KeyAt(t, p, i) < k
      /\ s =< KeyCount(t, p) => k =< KeyAt(t, p, s)
      /\ ~(s =< KeyCount(t, p) /\ KeyAt(t, p, s) = k)
  BY <1>1, <1>2, NodeSlot
<1>4. KeyCount(t, p) \in Nat /\ s \in Nat
  BY <1>1, <1>3, TypedFacts
<1>5. \A i \in 1..KeyCount(t, p) :
        /\ KeyAt(t, p, i) \in span[p] /\ KeyAt(t, p, i) \in Int
        /\ \A j \in 1..KeyCount(t, p) : i < j => KeyAt(t, p, i) < KeyAt(t, p, j)
  BY <1>1, KeyFacts
<1>6. KeyCount(u, p) = KeyCount(t, p) + 1
  BY DEF Puts
<1>7. \A i \in 1..KeyCount(u, p) :
        EntAt(u, p, i) = IF i < s THEN EntAt(t, p, i)
                         ELSE IF i = s THEN e ELSE EntAt(t, p, i - 1)
  BY <1>6 DEF Puts
<1>8. \A i \in 1..KeyCount(u, p) :
        /\ i < s => i \in 1..KeyCount(t, p) /\ KeyAt(u, p, i) = KeyAt(t, p, i)
        /\ i = s => KeyAt(u, p, i) = k
        /\ i > s => i - 1 \in 1..KeyCount(t, p) /\ KeyAt(u, p, i) = KeyAt(t, p, i - 1)
  <2>1. TAKE i \in 1..KeyCount(u, p)
  <2>2. KeyAt(u, p, i) = IF i < s THEN KeyAt(t, p, i)
                         ELSE IF i = s THEN k ELSE KeyAt(t, p, i - 1)
    BY <1>7, EntKey
  <2>3. QED
    BY <1>3, <1>4, <1>6, <2>2
<1>0. k \in span[p]
  OBVIOUS
<1> HIDE DEF k
<1>9. \A i \in 1..KeyCount(u, p) : i < s \/ i = s \/ i > s
  BY <1>4, <1>6
<1>10. \A i \in 1..KeyCount(u, p) : KeyAt(u, p, i) \in span[p]
  BY <1>0, <1>5, <1>8, <1>9
<1>11. \A i \in 1..KeyCount(t, p) : i >= s => k < KeyAt(t, p, i)
  <2>1. TAKE i \in 1..KeyCount(t, p)
  <2>2. HAVE i >= s
  <2>3. s \in 1..KeyCount(t, p) /\ k < KeyAt(t, p, s)
    BY <1>2, <1>3, <1>4, <1>5, <2>2
  <2>4. i = s \/ KeyAt(t, p, s) < KeyAt(t, p, i)
    BY <1>4, <1>5, <2>2, <2>3
  <2>5. QED
    BY <1>2, <1>5, <2>3, <2>4
<1>12. \A i, j \in 1..KeyCount(u, p) : i < j => KeyAt(u, p, i) < KeyAt(u, p, j)
  <2>1. TAKE i, j \in 1..KeyCount(u, p)
  <2>2. HAVE i < j
  <2>3. CASE j < s
    <3>1. i < s
      BY <1>4, <1>6, <2>2, <2>3
    <3>2. QED
      BY <1>5, <1>8, <2>2, <2>3, <3>1
  <2>4. CASE j = s
    BY <1>3, <1>8, <2>2, <2>4
  <2>5. CASE j > s
    <3>1. j - 1 \in 1..KeyCount(t, p) /\ j - 1 >= s /\ KeyAt(u, p, j) = KeyAt(t, p, j - 1)
      BY <1>4, <1>6, <1>8, <2>5
    <3>2. CASE i < s
      <4>1. i < j - 1
        BY <1>4, <1>6, <2>5, <3>2
      <4>2. QED
        BY <1>5, <1>8, <3>1, <3>2, <4>1
    <3>3. CASE i = s
      BY <1>8, <1>11, <3>1, <3>3
    <3>4. CASE i > s
      <4>1. i - 1 < j - 1
        BY <1>4, <1>6, <2>2
      <4>2. QED
        BY <1>5, <1>8, <3>1, <3>4, <4>1
    <3>5. QED
      BY <1>9, <3>2, <3>3, <3>4
  <2>6. QED
    BY <1>9, <2>3, <2>4, <2>5
<1>13. Formed(u, level, span)
  BY <1>10, <1>12, DiffersFormed DEF Puts
<1>14. \A n \in Heap(t) \ {p} :
        KeyCount(u, n) = KeyCount(t, n) /\ \A i : EntAt(u, n, i) = EntAt(t, n, i)
  BY SameEnts DEF Puts, Differs
<1>15. Heap(u) = Heap(t)
  BY DEF Puts, Differs
<1>16. ASSUME NEW f, f \in Held(t) PROVE f \in Held(u)
  <2>1. PICK n \in Heap(t) : \E i \in 1..KeyCount(t, n) : EntAt(t, n, i) = f
    BY <1>1, <1>16, HeldFacts
  <2>2. PICK i \in 1..KeyCount(t, n) : EntAt(t, n, i) = f
    BY <2>1
  <2>3. \E n2 \in Heap(u) : \E i2 \in 1..KeyCount(u, n2) : EntAt(u, n2, i2) = f
    <3>1. CASE n # p
      BY <1>14, <1>15, <2>2, <3>1
    <3>2. CASE n = p /\ i < s
      <4>1. i \in 1..KeyCount(u, p) /\ EntAt(u, p, i) = f
        BY <1>4, <1>6, <1>7, <2>2, <3>2
      <4>2. QED
        BY <1>15, <4>1
    <3>3. CASE n = p /\ i >= s
      <4>1. i + 1 \in 1..KeyCount(u, p) /\ ~(i + 1 < s) /\ i + 1 # s /\ (i + 1) - 1 = i
        BY <1>4, <1>6, <2>2, <3>3
      <4>2. EntAt(u, p, i + 1) = f
        BY <1>7, <2>2, <3>3, <4>1
      <4>3. QED
        BY <1>15, <4>1, <4>2
    <3>4. QED
      BY <1>4, <3>1, <3>2, <3>3
  <2>4. QED
    BY <2>3, HeldFacts
<1>17. e \in Held(u)
  <2>1. s \in 1..KeyCount(u, p) /\ EntAt(u, p, s) = e
    BY <1>3, <1>4, <1>6, <1>7
  <2>2. QED
    BY <1>15, <2>1, HeldFacts
<1>18. ASSUME NEW f, f \in Held(u) PROVE f \in Held(t) \cup {e}
  <2>1. PICK n \in Heap(u) : \E i \in 1..KeyCount(u, n) : EntAt(u, n, i) = f
    BY <1>18, HeldFacts
  <2>2. PICK i \in 1..KeyCount(u, n) : EntAt(u, n, i) = f
    BY <2>1
  <2>3. f = e \/ \E n2 \in Heap(t) : \E i2 \in 1..KeyCount(t, n2) : EntAt(t, n2, i2) = f
    <3>1. CASE n # p
      BY <1>14, <1>15, <2>2, <3>1
    <3>2. CASE n = p
      <4>1. EntAt(u, p, i) = IF i < s THEN EntAt(t, p, i)
                             ELSE IF i = s THEN e ELSE EntAt(t, p, i - 1)
        BY <1>7, <2>2, <3>2
      <4>2. QED
        BY <1>8, <1>9, <1>15, <2>2, <3>2, <4>1
    <3>3. QED
      BY <3>1, <3>2
  <2>4. QED
    BY <1>1, <2>3, HeldFacts
<1>19. QED
  BY <1>13, <1>16, <1>17, <1>18

\* An entry taken out of a leaf.
LEMMA TakeFormed ==
    ASSUME NEW t, NEW u, NEW level, NEW span, Formed(t, level, span), Typed(u),
           NEW p \in Heap(t), Leaf(t, p), NEW s \in 1..KeyCount(t, p), Takes(t, u, p, s)
    PROVE  Formed(u, level, span) /\ Held(u) = Held(t) \ {EntAt(t, p, s)}
<1> DEFINE e == EntAt(t, p, s)
<1>1. Typed(t) /\ Linked(t, level) /\ Spanned(t, span)
  BY DEF Formed
<1>4. KeyCount(t, p) \in Nat /\ s \in Nat
  BY <1>1, TypedFacts
<1>5. \A i \in 1..KeyCount(t, p) :
        /\ KeyAt(t, p, i) \in span[p] /\ KeyAt(t, p, i) \in Int
        /\ \A j \in 1..KeyCount(t, p) : i < j => KeyAt(t, p, i) < KeyAt(t, p, j)
  BY <1>1, KeyFacts
<1>6. KeyCount(u, p) = KeyCount(t, p) - 1
  BY DEF Takes
<1>7. \A i \in 1..KeyCount(u, p) :
        EntAt(u, p, i) = IF i < s THEN EntAt(t, p, i) ELSE EntAt(t, p, i + 1)
  BY <1>6 DEF Takes
<1>8. \A i \in 1..KeyCount(u, p) :
        /\ i < s => i \in 1..KeyCount(t, p) /\ KeyAt(u, p, i) = KeyAt(t, p, i)
        /\ i >= s => i + 1 \in 1..KeyCount(t, p) /\ KeyAt(u, p, i) = KeyAt(t, p, i + 1)
  <2>1. TAKE i \in 1..KeyCount(u, p)
  <2>2. KeyAt(u, p, i) = IF i < s THEN KeyAt(t, p, i) ELSE KeyAt(t, p, i + 1)
    BY <1>7, EntKey
  <2>3. QED
    BY <1>4, <1>6, <2>2
<1> HIDE DEF e
<1>9. \A i \in 1..KeyCount(u, p) : i < s \/ i >= s
  BY <1>4, <1>6
<1>10. \A i \in 1..KeyCount(u, p) : KeyAt(u, p, i) \in span[p]
  BY <1>5, <1>8, <1>9
<1>12. \A i, j \in 1..KeyCount(u, p) : i < j => KeyAt(u, p, i) < KeyAt(u, p, j)
  <2>1. TAKE i, j \in 1..KeyCount(u, p)
  <2>2. HAVE i < j
  <2>3. CASE j < s
    <3>1. i < s
      BY <1>4, <1>6, <2>2, <2>3
    <3>2. QED
      BY <1>5, <1>8, <2>2, <2>3, <3>1
  <2>4. CASE j >= s /\ i < s
    <3>1. i < j + 1
      BY <1>4, <1>6, <2>2
    <3>2. QED
      BY <1>5, <1>8, <2>4, <3>1
  <2>5. CASE i >= s
    <3>1. j >= s /\ i + 1 < j + 1
      BY <1>4, <1>6, <2>2, <2>5
    <3>2. QED
      BY <1>5, <1>8, <2>5, <3>1
  <2>6. QED
    BY <1>9, <2>3, <2>4, <2>5
<1>13. Formed(u, level, span)
  BY <1>10, <1>12, DiffersFormed DEF Takes
<1>14. \A n \in Heap(t) \ {p} :
        KeyCount(u, n) = KeyCount(t, n) /\ \A i : EntAt(u, n, i) = EntAt(t, n, i)
  BY SameEnts DEF Takes, Differs
<1>15. Heap(u) = Heap(t)
  BY DEF Takes, Differs
<1>16. ASSUME NEW f, f \in Held(t), f # e PROVE f \in Held(u)
  <2>1. PICK n \in Heap(t) : \E i \in 1..KeyCount(t, n) : EntAt(t, n, i) = f
    BY <1>1, <1>16, HeldFacts
  <2>2. PICK i \in 1..KeyCount(t, n) : EntAt(t, n, i) = f
    BY <2>1
  <2>3. \E n2 \in Heap(u) : \E i2 \in 1..KeyCount(u, n2) : EntAt(u, n2, i2) = f
    <3>1. CASE n # p
      BY <1>14, <1>15, <2>2, <3>1
    <3>2. CASE n = p /\ i < s
      <4>1. i \in 1..KeyCount(u, p) /\ EntAt(u, p, i) = f
        BY <1>4, <1>6, <1>7, <2>2, <3>2
      <4>2. QED
        BY <1>15, <4>1
    <3>3. CASE n = p /\ i >= s
      <4>0. i # s
        BY <1>16, <2>2, <3>3 DEF e
      <4>1. i - 1 \in 1..KeyCount(u, p) /\ ~(i - 1 < s) /\ (i - 1) + 1 = i
        BY <1>4, <1>6, <2>2, <3>3, <4>0
      <4>2. EntAt(u, p, i - 1) = f
        BY <1>7, <2>2, <3>3, <4>1
      <4>3. QED
        BY <1>15, <4>1, <4>2
    <3>4. QED
      BY <1>4, <3>1, <3>2, <3>3
  <2>4. QED
    BY <2>3, HeldFacts
<1>18. ASSUME NEW f, f \in Held(u) PROVE f \in Held(t) /\ f # e
  <2>1. PICK n \in Heap(u) : \E i \in 1..KeyCount(u, n) : EntAt(u, n, i) = f
    BY <1>18, HeldFacts
  <2>2. PICK i \in 1..KeyCount(u, n) : EntAt(u, n, i) = f
    BY <2>1
  <2>3. \E n2 \in Heap(t) : \E i2 \in 1..KeyCount(t, n2) :
            EntAt(t, n2, i2) = f /\ ~(n2 = p /\ i2 = s)
    <3>1. CASE n # p
      BY <1>14, <1>15, <2>2, <3>1
    <3>2. CASE n = p
      <4>1. EntAt(u, p, i) = IF i < s THEN EntAt(t, p, i) ELSE EntAt(t, p, i + 1)
        BY <1>7, <2>2, <3>2
      <4>2. CASE i < s
        <5>1. i # s /\ i \in 1..KeyCount(t, p) /\ EntAt(t, p, i) = f
          BY <1>4, <1>8, <2>2, <3>2, <4>1, <4>2
        <5>2. QED
          BY <5>1
      <4>3. CASE i >= s
        <5>1. i + 1 # s /\ i + 1 \in 1..KeyCount(t, p) /\ EntAt(t, p, i + 1) = f
          BY <1>4, <1>6, <1>8, <2>2, <3>2, <4>1, <4>3
        <5>2. QED
          BY <5>1
      <4>4. QED
        BY <1>9, <2>2, <3>2, <4>2, <4>3
    <3>3. QED
      BY <3>1, <3>2
  <2>4. PICK n2 \in Heap(t) : \E i2 \in 1..KeyCount(t, n2) :
            EntAt(t, n2, i2) = f /\ ~(n2 = p /\ i2 = s)
    BY <2>3
  <2>5. PICK i2 \in 1..KeyCount(t, n2) : EntAt(t, n2, i2) = f /\ ~(n2 = p /\ i2 = s)
    BY <2>4
  <2>6. f \in Held(t)
    BY <1>1, <2>5, HeldFacts
  <2>7. f # e
    <3>1. SUFFICES ASSUME f = e PROVE FALSE
      OBVIOUS
    <3>2. KeyAt(t, n2, i2) = KeyAt(t, p, s)
      BY <2>5, <3>1, EntKey DEF e
    <3>3. QED
      BY <2>5, <3>2, OneEntry
  <2>8. QED
    BY <2>6, <2>7
<1>19. QED
  BY <1>13, <1>16, <1>18 DEF e

\* The same tree, whatever else is different.
Alike(t, u) ==
    /\ u.root = t.root
    /\ Heap(u) = Heap(t)
    /\ \A n \in Heap(t) :
        /\ Leaf(u, n) = Leaf(t, n) /\ Ents(u, n) = Ents(t, n)
        /\ Kids(u, n) = Kids(t, n) /\ Parent(u, n) = Parent(t, n)

\* What is said of a tree is said of one that is alike.
LEMMA AlikeFormed ==
    ASSUME NEW t, NEW u, NEW level, NEW span, Formed(t, level, span), Alike(t, u)
    PROVE  Formed(u, level, span) /\ Held(u) = Held(t)
<1>1. Typed(t) /\ Linked(t, level) /\ Spanned(t, span)
  BY DEF Formed
<1>2. /\ u.root = t.root /\ Heap(u) = Heap(t)
      /\ \A n \in Heap(t) :
            /\ Leaf(u, n) = Leaf(t, n) /\ Ents(u, n) = Ents(t, n)
            /\ Kids(u, n) = Kids(t, n) /\ Parent(u, n) = Parent(t, n)
            /\ KidCount(u, n) = KidCount(t, n) /\ \A i : Kid(u, n, i) = Kid(t, n, i)
            /\ KeyCount(u, n) = KeyCount(t, n) /\ \A i : KeyAt(u, n, i) = KeyAt(t, n, i)
            /\ \A i, x : Between(u, n, i, x) <=> Between(t, n, i, x)
  BY SameKids, SameEnts DEF Alike
<1>3. Typed(u)
  BY <1>1, <1>2 DEF Typed
<1>4. Linked(u, level)
  <2>1. level \in [Heap(u) -> Nat] /\ Parent(u, u.root) = Null
    BY <1>1, <1>2 DEF Linked, Typed
  <2>2. ASSUME NEW n \in Heap(u)
        PROVE  /\ level[n] =< level[u.root]
               /\ Leaf(u, n) <=> level[n] = 0
               /\ KidCount(u, n) = IF Leaf(u, n) THEN 0 ELSE KeyCount(u, n) + 1
    BY <1>1, <1>2 DEF Linked
  <2>3. ASSUME NEW n \in Heap(u), NEW i \in 1..KidCount(u, n)
        PROVE  /\ level[Kid(u, n, i)] = level[n] - 1
               /\ Parent(u, Kid(u, n, i)) = n
               /\ \A j \in 1..KidCount(u, n) : Kid(u, n, i) = Kid(u, n, j) => i = j
    <3>1. i \in 1..KidCount(t, n) /\ Kid(u, n, i) = Kid(t, n, i) /\ n \in Heap(t)
      BY <1>2
    <3>2. /\ Kid(t, n, i) \in Heap(t) /\ Parent(t, Kid(t, n, i)) = n
          /\ level[Kid(t, n, i)] = level[n] - 1
          /\ \A j \in 1..KidCount(t, n) : Kid(t, n, i) = Kid(t, n, j) => i = j
      BY <3>1, KidFacts
    <3>3. QED
      BY <1>2, <3>1, <3>2
  <2>4. ASSUME NEW n \in Heap(u), n # u.root
        PROVE  /\ Parent(u, n) \in Heap(u)
               /\ \E i \in 1..KidCount(u, Parent(u, n)) : Kid(u, Parent(u, n), i) = n
    <3> DEFINE o == Parent(t, n)
    <3>1. o \in Heap(t) /\ \E i \in 1..KidCount(t, o) : Kid(t, o, i) = n
      BY <1>1, <1>2, <2>4 DEF Linked
    <3>2. Parent(u, n) = o
      BY <1>2
    <3> HIDE DEF o
    <3>3. QED
      BY <1>2, <3>1, <3>2
  <2>5. QED
    BY <2>1, <2>2, <2>3, <2>4 DEF Linked
<1>5. Spanned(u, span)
  BY <1>1, <1>2 DEF Spanned
<1>6. Held(u) = Held(t)
  BY <1>2 DEF Held
<1>7. QED
  BY <1>3, <1>4, <1>5, <1>6 DEF Formed

\* t with a new root s, without entries, on top of the old one
Topped(t, s) ==
    [root |-> s,
     node |-> [n \in Heap(t) \cup {s} |->
        IF n = s THEN NewNode(FALSE, <<>>, <<t.root>>, Null)
        ELSE NewNode(Leaf(t, n), Ents(t, n), Kids(t, n),
                     IF n = t.root THEN s ELSE Parent(t, n))]]

\* A root without entries on top of a tree: what a split of the root starts from.
LEMMA ToppedFormed ==
    ASSUME NEW t, NEW level, NEW span, Formed(t, level, span),
           NEW s \in Nat \ {0}, s \notin Heap(t), NEW u, u = Topped(t, s)
    PROVE  /\ u.root = s
           /\ Heap(u) = Heap(t) \cup {s}
           /\ ~Leaf(u, s) /\ KeyCount(u, s) = 0 /\ KidCount(u, s) = 1
           /\ Kid(u, s, 1) = t.root /\ Parent(u, s) = Null /\ Ents(u, s) = <<>>
           /\ \A n \in Heap(t) :
                /\ Leaf(u, n) = Leaf(t, n) /\ Ents(u, n) = Ents(t, n) /\ Kids(u, n) = Kids(t, n)
                /\ Parent(u, n) = IF n = t.root THEN s ELSE Parent(t, n)
           /\ Held(u) = Held(t)
           /\ \E level2, span2 : Formed(u, level2, span2)
<1> DEFINE H == Heap(t)
           P(n) == IF n = t.root THEN s ELSE Parent(t, n)
           level2 == [n \in H \cup {s} |-> IF n = s THEN level[t.root] + 1 ELSE level[n]]
           span2 == [n \in H \cup {s} |-> IF n = s THEN Key ELSE span[n]]
<1>1. Typed(t) /\ Linked(t, level) /\ Spanned(t, span)
  BY DEF Formed
<1>2. /\ u.root = s /\ Heap(u) = H \cup {s}
      /\ u.node[s] = NewNode(FALSE, <<>>, <<t.root>>, Null)
      /\ \A n \in H : u.node[n] = NewNode(Leaf(t, n), Ents(t, n), Kids(t, n), P(n))
  BY DEF Topped, Heap
<1>3. Leaf(u, s) = FALSE /\ Ents(u, s) = <<>> /\ Kids(u, s) = <<t.root>> /\ Parent(u, s) = Null
  <2>1. u.node[s] = NewNode(FALSE, <<>>, <<t.root>>, Null)
    BY <1>2
  <2>2. QED
    BY <2>1 DEF NewNode, Leaf, Ents, Kids, Parent
<1>4. /\ KeyCount(u, s) = 0 /\ KidCount(u, s) = 1 /\ Kid(u, s, 1) = t.root
      /\ \A i \in 1..KidCount(u, s) : i = 1
  BY <1>3 DEF KeyCount, KidCount, Kid
<1> HIDE DEF P
<1>5. \A n \in H : Leaf(u, n) = Leaf(t, n) /\ Ents(u, n) = Ents(t, n) /\ Kids(u, n) = Kids(t, n)
                   /\ Parent(u, n) = P(n)
  BY <1>2, NodeFacts
<1>6. \A n \in H :
        /\ KidCount(u, n) = KidCount(t, n) /\ \A i : Kid(u, n, i) = Kid(t, n, i)
        /\ KeyCount(u, n) = KeyCount(t, n)
        /\ \A i : KeyAt(u, n, i) = KeyAt(t, n, i) /\ EntAt(u, n, i) = EntAt(t, n, i)
        /\ \A i, x : Between(u, n, i, x) <=> Between(t, n, i, x)
  BY <1>5, SameKids, SameEnts
<1>7. t.root \in H /\ t.root # s
  BY <1>1 DEF Typed
<1>8. Typed(u)
  <2>1. IsFiniteSet(Heap(u)) /\ Heap(u) \subseteq Nat \ {0} /\ u.root \in Heap(u)
    BY <1>1, <1>2, FS_AddElement DEF Typed
  <2>2. ASSUME NEW n \in Heap(u)
        PROVE  /\ Leaf(u, n) \in BOOLEAN
               /\ Ents(u, n) \in Seq(Entry)
               /\ Kids(u, n) \in Seq(H)
               /\ \A i \in 1..KidCount(u, n) : Kid(u, n, i) \in Heap(u)
               /\ Parent(u, n) \in Nat
    <3>1. CASE n = s
      <4>1. <<>> \in Seq(Entry) /\ <<t.root>> \in Seq(H) /\ Null \in Nat
        BY <1>7 DEF Null
      <4>2. QED
        BY <1>2, <1>3, <1>4, <1>7, <3>1, <4>1
    <3>2. CASE n \in H
      <4>1. P(n) \in Nat
        BY <1>1, <3>2, TypedFacts DEF P
      <4>2. QED
        BY <1>1, <1>2, <1>5, <1>6, <3>2, <4>1, TypedFacts
    <3>3. QED
      BY <1>2, <3>1, <3>2
  <2>3. QED
    BY <2>1, <2>2, TypedFrom
<1>9. /\ level2 \in [Heap(u) -> Nat] /\ level2[s] = level[t.root] + 1
      /\ \A n \in H : level2[n] = level[n] /\ level[n] \in Nat /\ level[n] =< level[t.root]
  BY <1>1, <1>2, <1>7 DEF Linked
<1> HIDE DEF level2
<1>10. \A n \in H : \A i \in 1..KidCount(t, n) :
            /\ Kid(t, n, i) \in H /\ Parent(t, Kid(t, n, i)) = n /\ Kid(t, n, i) # t.root
            /\ level[Kid(t, n, i)] = level[n] - 1
            /\ \A l \in 1..KidCount(t, n) : Kid(t, n, i) = Kid(t, n, l) => i = l
  BY KidFacts, SplitPlace
<1>11. Linked(u, level2)
  <2>1. ASSUME NEW n \in Heap(u)
        PROVE  /\ level2[n] =< level2[u.root]
               /\ Leaf(u, n) <=> level2[n] = 0
               /\ KidCount(u, n) = IF Leaf(u, n) THEN 0 ELSE KeyCount(u, n) + 1
    <3>1. CASE n = s
      <4>1. level2[s] \in Nat /\ level2[s] # 0
        BY <1>7, <1>9
      <4>2. ~Leaf(u, s) /\ KidCount(u, s) = KeyCount(u, s) + 1
        BY <1>3, <1>4
      <4>3. QED
        BY <1>2, <3>1, <4>1, <4>2
    <3>2. CASE n \in H
      <4>1. level2[n] =< level2[u.root]
        BY <1>2, <1>7, <1>9, <3>2
      <4>2. QED
        BY <1>1, <1>5, <1>6, <1>9, <3>2, <4>1 DEF Linked
    <3>3. QED
      BY <1>2, <3>1, <3>2
  <2>2. ASSUME NEW n \in Heap(u), NEW i \in 1..KidCount(u, n)
        PROVE  /\ level2[Kid(u, n, i)] = level2[n] - 1
               /\ Parent(u, Kid(u, n, i)) = n
               /\ \A j \in 1..KidCount(u, n) : Kid(u, n, i) = Kid(u, n, j) => i = j
    <3>1. CASE n = s
      <4>1. i = 1 /\ Kid(u, s, i) = t.root
        BY <1>4, <3>1
      <4>2. Parent(u, t.root) = s
        BY <1>5, <1>7 DEF P
      <4>3. level2[t.root] = level2[s] - 1
        BY <1>7, <1>9
      <4>4. QED
        BY <1>4, <3>1, <4>1, <4>2, <4>3
    <3>2. CASE n \in H
      <4>1. i \in 1..KidCount(t, n) /\ Kid(u, n, i) = Kid(t, n, i)
        BY <1>6, <3>2
      <4>2. P(Kid(t, n, i)) = n
        BY <1>10, <3>2, <4>1 DEF P
      <4>3. QED
        BY <1>5, <1>6, <1>9, <1>10, <3>2, <4>1, <4>2
    <3>3. QED
      BY <1>2, <3>1, <3>2
  <2>3. ASSUME NEW n \in Heap(u), n # u.root
        PROVE  /\ Parent(u, n) \in Heap(u)
               /\ \E i \in 1..KidCount(u, Parent(u, n)) : Kid(u, Parent(u, n), i) = n
    <3>1. n \in H
      BY <1>2, <2>3
    <3>2. CASE n = t.root
      <4>1. Parent(u, n) = s /\ 1 \in 1..KidCount(u, s) /\ Kid(u, s, 1) = n
        BY <1>4, <1>5, <3>1, <3>2 DEF P
      <4>2. QED
        BY <1>2, <4>1
    <3>3. CASE n # t.root
      <4> DEFINE o == Parent(t, n)
      <4>1. o \in Heap(t) /\ \E i \in 1..KidCount(t, o) : Kid(t, o, i) = n
        BY <1>1, <3>1, <3>3 DEF Linked
      <4>2. Parent(u, n) = o
        BY <1>5, <3>1, <3>3 DEF P
      <4> HIDE DEF o
      <4>3. QED
        BY <1>2, <1>6, <4>1, <4>2
    <3>4. QED
      BY <3>2, <3>3
  <2>4. level2 \in [Heap(u) -> Nat] /\ Parent(u, u.root) = Null
    BY <1>2, <1>3, <1>9
  <2>5. \A n \in Heap(u) :
            /\ level2[n] =< level2[u.root]
            /\ Leaf(u, n) <=> level2[n] = 0
            /\ KidCount(u, n) = IF Leaf(u, n) THEN 0 ELSE KeyCount(u, n) + 1
            /\ \A i \in 1..KidCount(u, n) :
                /\ level2[Kid(u, n, i)] = level2[n] - 1
                /\ Parent(u, Kid(u, n, i)) = n
                /\ \A j \in 1..KidCount(u, n) : Kid(u, n, i) = Kid(u, n, j) => i = j
            /\ n # u.root =>
                /\ Parent(u, n) \in Heap(u)
                /\ \E i \in 1..KidCount(u, Parent(u, n)) : Kid(u, Parent(u, n), i) = n
    BY <2>1, <2>2, <2>3, Zenon
  <2>6. QED
    BY <2>4, <2>5, Zenon DEF Linked
<1>12. /\ span2 \in [Heap(u) -> SUBSET Key] /\ span2[s] = Key
       /\ \A n \in H : span2[n] = span[n]
  BY <1>1, <1>2 DEF Spanned
<1> HIDE DEF span2
<1>13. Spanned(u, span2)
  <2>1. ASSUME NEW n \in Heap(u)
        PROVE  \A i \in 1..KeyCount(u, n) :
                /\ KeyAt(u, n, i) \in span2[n]
                /\ \A j \in 1..KeyCount(u, n) : i < j => KeyAt(u, n, i) < KeyAt(u, n, j)
    <3>1. CASE n = s
      BY <1>4, <3>1
    <3>2. CASE n \in H
      BY <1>1, <1>6, <1>12, <3>2 DEF Spanned
    <3>3. QED
      BY <1>2, <3>1, <3>2
  <2>2. ASSUME NEW n \in Heap(u), NEW i \in 1..KidCount(u, n), NEW x \in Key
        PROVE  x \in span2[Kid(u, n, i)] <=> x \in span2[n] /\ Between(u, n, i, x)
    <3>1. CASE n = s
      <4>1. i = 1 /\ Kid(u, s, i) = t.root
        BY <1>4, <3>1
      <4>2. Between(u, s, i, x)
        BY <1>4, <4>1 DEF Between
      <4>3. span2[t.root] = Key
        BY <1>1, <1>7, <1>12 DEF Spanned
      <4>4. QED
        BY <1>12, <3>1, <4>1, <4>2, <4>3
    <3>2. CASE n \in H
      <4>1. i \in 1..KidCount(t, n) /\ Kid(u, n, i) = Kid(t, n, i) /\ Kid(t, n, i) \in H
        BY <1>6, <1>10, <3>2
      <4>2. x \in span[Kid(t, n, i)] <=> x \in span[n] /\ Between(t, n, i, x)
        BY <3>2, <4>1, KidFacts
      <4>3. QED
        BY <1>6, <1>12, <3>2, <4>1, <4>2
    <3>3. QED
      BY <1>2, <3>1, <3>2
  <2>3. QED
    BY <1>2, <1>12, <2>1, <2>2 DEF Spanned
<1>14. Formed(u, level2, span2)
  BY <1>8, <1>11, <1>13 DEF Formed
<1>15. Held(u) = Held(t)
  <2>1. ToSet(Ents(u, s)) = {}
    BY <1>3 DEF ToSet
  <2>2. \A n \in H : Ents(u, n) = Ents(t, n)
    BY <1>5
  <2>3. QED
    BY <1>2, <2>1, <2>2 DEF Held
<1>16. QED
  BY <1>2, <1>3, <1>4, <1>5, <1>14, <1>15 DEF P

\* u is t without its root, which has one child and no entries
Drops(t, u) ==
    /\ u.root = Kid(t, t.root, 1)
    /\ Heap(u) = Heap(t) \ {t.root}
    /\ \A n \in Heap(u) :
        /\ Leaf(u, n) = Leaf(t, n) /\ Ents(u, n) = Ents(t, n) /\ Kids(u, n) = Kids(t, n)
        /\ Parent(u, n) = IF n = Kid(t, t.root, 1) THEN Null ELSE Parent(t, n)

\* A root without entries taken off: what the end of a deletion does.
LEMMA DropFormed ==
    ASSUME NEW t, NEW u, NEW level, NEW span, Formed(t, level, span),
           ~Leaf(t, t.root), Ents(t, t.root) = <<>>, Drops(t, u)
    PROVE  Held(u) = Held(t) /\ \E level2, span2 : Formed(u, level2, span2)
<1> DEFINE H == Heap(t)
           o == t.root
           r == Kid(t, o, 1)
           level2 == [n \in Heap(u) |-> level[n]]
           span2 == [n \in Heap(u) |-> span[n]]
<1>1. Typed(t) /\ Linked(t, level) /\ Spanned(t, span)
  BY DEF Formed
<1>2. o \in H
  BY <1>1 DEF Typed
<1>3. KeyCount(t, o) = 0
  BY DEF KeyCount
<1>4. KidCount(t, o) = 1
  BY <1>1, <1>2, <1>3 DEF Linked
<1>5. /\ u.root = r /\ Heap(u) = H \ {o}
      /\ \A n \in Heap(u) :
            /\ Leaf(u, n) = Leaf(t, n) /\ Ents(u, n) = Ents(t, n) /\ Kids(u, n) = Kids(t, n)
            /\ Parent(u, n) = IF n = r THEN Null ELSE Parent(t, n)
  BY DEF Drops
<1> HIDE DEF o
<1>6. 1 \in 1..KidCount(t, o) /\ \A i \in 1..KidCount(t, o) : i = 1
  BY <1>4
<1>7. /\ r \in H /\ r # o /\ Parent(t, r) = o /\ level[r] = level[o] - 1
      /\ \A x \in Key : x \in span[r] <=> x \in span[o] /\ Between(t, o, 1, x)
  BY <1>2, <1>6, KidFacts
<1> HIDE DEF r
<1>8. \A n \in Heap(u) :
        /\ KidCount(u, n) = KidCount(t, n) /\ \A i : Kid(u, n, i) = Kid(t, n, i)
        /\ KeyCount(u, n) = KeyCount(t, n)
        /\ \A i : KeyAt(u, n, i) = KeyAt(t, n, i) /\ EntAt(u, n, i) = EntAt(t, n, i)
        /\ \A i, x : Between(u, n, i, x) <=> Between(t, n, i, x)
  BY <1>5, SameKids, SameEnts
<1>9. \A n \in H : \A i \in 1..KidCount(t, n) :
            /\ Kid(t, n, i) \in H /\ Parent(t, Kid(t, n, i)) = n /\ Kid(t, n, i) # o
            /\ level[Kid(t, n, i)] = level[n] - 1
            /\ \A l \in 1..KidCount(t, n) : Kid(t, n, i) = Kid(t, n, l) => i = l
            /\ \A x \in Key : x \in span[Kid(t, n, i)] <=> x \in span[n] /\ Between(t, n, i, x)
  BY KidFacts, SplitPlace DEF o
<1>10. \A n \in Heap(u) : \A i \in 1..KidCount(t, n) :
            Kid(t, n, i) \in Heap(u) /\ Kid(t, n, i) # r
  BY <1>5, <1>7, <1>9
<1>11. Typed(u)
  <2>1. IsFiniteSet(Heap(u)) /\ Heap(u) \subseteq Nat \ {0} /\ u.root \in Heap(u)
    BY <1>1, <1>5, <1>7, FS_Subset DEF Typed
  <2>2. ASSUME NEW n \in Heap(u)
        PROVE  /\ Leaf(u, n) \in BOOLEAN
               /\ Ents(u, n) \in Seq(Entry)
               /\ Kids(u, n) \in Seq(H)
               /\ \A i \in 1..KidCount(u, n) : Kid(u, n, i) \in Heap(u)
               /\ Parent(u, n) \in Nat
    <3>1. Parent(u, n) \in Nat
      <4>1. Parent(t, n) \in Nat /\ Null \in Nat
        BY <1>1, <1>5, TypedFacts DEF Null
      <4>2. Parent(u, n) = Null \/ Parent(u, n) = Parent(t, n)
        BY <1>5
      <4>3. QED
        BY <4>1, <4>2
    <3>2. QED
      BY <1>1, <1>5, <1>8, <1>10, <3>1, TypedFacts
  <2>3. QED
    BY <2>1, <2>2, TypedFrom
<1>12. \A n \in H : level[n] \in Nat /\ level[n] =< level[o]
  BY <1>1 DEF Linked, o
<1>13. \A n \in H \ {o} : level[n] =< level[r]
  <2>1. TAKE n \in H \ {o}
  <2>2. Parent(t, n) \in H /\ level[Parent(t, n)] = level[n] + 1
    BY ParentFacts DEF o
  <2>3. QED
    BY <1>2, <1>7, <1>12, <2>2
<1>14. level2 \in [Heap(u) -> Nat] /\ \A n \in Heap(u) : level2[n] = level[n]
  BY <1>5, <1>12
<1> HIDE DEF level2
<1>15. Linked(u, level2)
  <2>1. ASSUME NEW n \in Heap(u)
        PROVE  /\ level2[n] =< level2[u.root]
               /\ Leaf(u, n) <=> level2[n] = 0
               /\ KidCount(u, n) = IF Leaf(u, n) THEN 0 ELSE KeyCount(u, n) + 1
    <3>1. level2[n] =< level2[u.root]
      BY <1>5, <1>7, <1>13, <1>14
    <3>2. QED
      BY <1>1, <1>5, <1>8, <1>14, <3>1 DEF Linked
  <2>2. ASSUME NEW n \in Heap(u), NEW i \in 1..KidCount(u, n)
        PROVE  /\ level2[Kid(u, n, i)] = level2[n] - 1
               /\ Parent(u, Kid(u, n, i)) = n
               /\ \A j \in 1..KidCount(u, n) : Kid(u, n, i) = Kid(u, n, j) => i = j
    <3>1. i \in 1..KidCount(t, n) /\ Kid(u, n, i) = Kid(t, n, i) /\ n \in H
      BY <1>5, <1>8
    <3>2. Kid(t, n, i) \in Heap(u) /\ Parent(u, Kid(t, n, i)) = n
      BY <1>5, <1>9, <1>10, <3>1
    <3>3. QED
      BY <1>8, <1>9, <1>14, <3>1, <3>2
  <2>3. ASSUME NEW n \in Heap(u), n # u.root
        PROVE  /\ Parent(u, n) \in Heap(u)
               /\ \E i \in 1..KidCount(u, Parent(u, n)) : Kid(u, Parent(u, n), i) = n
    <3> DEFINE q == Parent(t, n)
    <3>1. q \in Heap(t) /\ \E i \in 1..KidCount(t, q) : Kid(t, q, i) = n
      BY <1>1, <1>5 DEF Linked, o
    <3>2. Parent(u, n) = q
      BY <1>5, <2>3
    <3> HIDE DEF q
    <3>3. q # o
      BY <1>5, <1>6, <2>3, <3>1 DEF r
    <3>4. QED
      BY <1>5, <1>8, <3>1, <3>2, <3>3
  <2>4. Parent(u, u.root) = Null
    BY <1>5, <1>7
  <2>5. QED
    BY <1>14, <2>1, <2>2, <2>3, <2>4 DEF Linked
<1>16. /\ span2 \in [Heap(u) -> SUBSET Key]
       /\ \A n \in Heap(u) : span2[n] = span[n]
  BY <1>1, <1>5 DEF Spanned
<1> HIDE DEF span2
<1>17. Spanned(u, span2)
  <2>1. ASSUME NEW n \in Heap(u)
        PROVE  \A i \in 1..KeyCount(u, n) :
                /\ KeyAt(u, n, i) \in span2[n]
                /\ \A j \in 1..KeyCount(u, n) : i < j => KeyAt(u, n, i) < KeyAt(u, n, j)
    BY <1>1, <1>5, <1>8, <1>16 DEF Spanned
  <2>2. ASSUME NEW n \in Heap(u), NEW i \in 1..KidCount(u, n), NEW x \in Key
        PROVE  x \in span2[Kid(u, n, i)] <=> x \in span2[n] /\ Between(u, n, i, x)
    <3>1. /\ i \in 1..KidCount(t, n) /\ Kid(u, n, i) = Kid(t, n, i)
          /\ Kid(t, n, i) \in Heap(u) /\ n \in H
      BY <1>5, <1>8, <1>10
    <3>2. x \in span[Kid(t, n, i)] <=> x \in span[n] /\ Between(t, n, i, x)
      BY <1>9, <3>1
    <3>3. QED
      BY <1>8, <1>16, <3>1, <3>2
  <2>3. span2[u.root] = Key
    <3>1. \A x : Between(t, o, 1, x)
      BY <1>3 DEF Between, o
    <3>2. span[o] = Key /\ span[r] \subseteq Key
      BY <1>1, <1>7 DEF Spanned, o
    <3>3. span[r] = Key
      BY <1>7, <3>1, <3>2
    <3>4. QED
      BY <1>5, <1>7, <1>16, <3>3
  <2>4. QED
    BY <1>16, <2>1, <2>2, <2>3 DEF Spanned
<1>18. Held(u) = Held(t)
  <2>1. ToSet(Ents(t, o)) = {}
    BY DEF ToSet, o
  <2>2. \A n \in Heap(u) : Ents(u, n) = Ents(t, n)
    BY <1>5
  <2>3. QED
    BY <1>2, <1>5, <2>1, <2>2 DEF Held
<1>19. QED
  BY <1>11, <1>15, <1>17, <1>18 DEF Formed

(***************************************************************************)
(* The loops.                                                              *)
(***************************************************************************)
\* The loops of the operations, by themselves.
SeekLoop(t, k) ==
    CHOOSE at : at = [i \in 0..Rounds(t) |-> IF i = 0 THEN t.root
                                       ELSE Seek(t, at[i - 1], k)]

\* The rounds of btree_search.
LEMMA SeekLoopFacts ==
    ASSUME NEW t, NEW k, Rounds(t) \in Nat
    PROVE  /\ SeekLoop(t, k)[0] = t.root
           /\ \A i \in 0..Rounds(t) : i < Rounds(t) =>
                SeekLoop(t, k)[i + 1] = Seek(t, SeekLoop(t, k)[i], k)
<1> DEFINE a == t.root
           N == Rounds(t)
           P == {n \in 0..N : \E at : at = [i \in 0..n |-> IF i = 0 THEN a
                                                       ELSE Seek(t, at[i - 1], k)]}
<1> HIDE DEF a
<1>1. N \in Nat
  OBVIOUS
<1> HIDE DEF N
<1>2. 0 \in P
  <2> DEFINE first == [i \in 0..0 |-> a]
  <2>1. first = [i \in 0..0 |-> IF i = 0 THEN a ELSE Seek(t, first[i - 1], k)]
    OBVIOUS
  <2> HIDE DEF first
  <2>2. \E at : at = [i \in 0..0 |-> IF i = 0 THEN a ELSE Seek(t, at[i - 1], k)]
    BY <2>1
  <2>3. QED
    BY <1>1, <2>2
<1>3. ASSUME NEW n \in 0..N, n \in P, n < N
      PROVE  n + 1 \in P
  <2>1. PICK at : at = [i \in 0..n |-> IF i = 0 THEN a ELSE Seek(t, at[i - 1], k)]
    BY <1>3
  <2> DEFINE more == [i \in 0..(n + 1) |-> IF i = n + 1 THEN Seek(t, at[n], k) ELSE at[i]]
  <2>2. /\ n \in Nat /\ n + 1 \in 0..N /\ n + 1 # 0 /\ (n + 1) - 1 = n
        /\ \A i \in 0..(n + 1) : i # n + 1 => i \in 0..n
        /\ \A i \in 0..(n + 1) : i # 0 => i - 1 \in 0..n /\ i - 1 \in 0..(n + 1) /\ i - 1 # n + 1
    BY <1>1, <1>3
  <2>3. \A i \in 0..n : at[i] = IF i = 0 THEN a ELSE Seek(t, at[i - 1], k)
    BY <2>1
  <2>4. \A i \in 0..(n + 1) : i # 0 => more[i - 1] = at[i - 1]
    BY <2>2
  <2>5. ASSUME NEW i \in 0..(n + 1)
        PROVE  more[i] = IF i = 0 THEN a ELSE Seek(t, more[i - 1], k)
    <3>1. CASE i = n + 1
      <4>1. more[i] = Seek(t, at[n], k) /\ more[i - 1] = at[n] /\ i # 0
        BY <2>2, <2>4, <3>1
      <4>2. QED
        BY <4>1
    <3>2. CASE i # n + 1
      <4>1. i \in 0..n /\ more[i] = at[i]
        BY <2>2, <3>2
      <4>2. QED
        BY <2>3, <2>4, <4>1
    <3>3. QED
      BY <3>1, <3>2
  <2>6. more = [i \in 0..(n + 1) |-> IF i = 0 THEN a ELSE Seek(t, more[i - 1], k)]
    <3>1. more = [i \in 0..(n + 1) |-> more[i]]
      OBVIOUS
    <3> HIDE DEF more
    <3>2. QED
      BY <2>5, <3>1, Zenon
  <2> HIDE DEF more
  <2>7. QED
    BY <2>2, <2>6
<1>4. N \in P
  <2> HIDE DEF P
  <2>1. N \in 0..N
    BY <1>1
  <2>2. QED
    BY <1>1, <1>2, <1>3, <2>1, Induction
<1>5. PICK f : f = [i \in 0..N |-> IF i = 0 THEN a ELSE Seek(t, f[i - 1], k)]
  BY <1>4
<1> DEFINE g == SeekLoop(t, k)
<1>6. g = [i \in 0..N |-> IF i = 0 THEN a ELSE Seek(t, g[i - 1], k)]
  BY <1>5, Zenon DEF SeekLoop, N, a
<1> HIDE DEF g
<1>7. g[0] = a
  BY <1>1, <1>6
<1>8. \A i \in 0..N : i < N => g[i + 1] = Seek(t, g[i], k)
  <2>1. TAKE i \in 0..N
  <2>2. HAVE i < N
  <2>3. i + 1 \in 0..N /\ i + 1 # 0 /\ (i + 1) - 1 = i
    BY <1>1, <2>2
  <2>4. QED
    BY <1>6, <2>3
<1>9. QED
  BY <1>7, <1>8 DEF N, a, g

\* The loop of find_leaf.
DownLoop(t, k) ==
    CHOOSE at : at = [i \in 0..Rounds(t) |-> IF i = 0 THEN t.root
                                       ELSE Down(t, at[i - 1], k)]

\* The rounds of find_leaf.
LEMMA DownLoopFacts ==
    ASSUME NEW t, NEW k, Rounds(t) \in Nat
    PROVE  /\ DownLoop(t, k)[0] = t.root
           /\ \A i \in 0..Rounds(t) : i < Rounds(t) =>
                DownLoop(t, k)[i + 1] = Down(t, DownLoop(t, k)[i], k)
<1> DEFINE a == t.root
           N == Rounds(t)
           P == {n \in 0..N : \E at : at = [i \in 0..n |-> IF i = 0 THEN a
                                                       ELSE Down(t, at[i - 1], k)]}
<1> HIDE DEF a
<1>1. N \in Nat
  OBVIOUS
<1> HIDE DEF N
<1>2. 0 \in P
  <2> DEFINE first == [i \in 0..0 |-> a]
  <2>1. first = [i \in 0..0 |-> IF i = 0 THEN a ELSE Down(t, first[i - 1], k)]
    OBVIOUS
  <2> HIDE DEF first
  <2>2. \E at : at = [i \in 0..0 |-> IF i = 0 THEN a ELSE Down(t, at[i - 1], k)]
    BY <2>1
  <2>3. QED
    BY <1>1, <2>2
<1>3. ASSUME NEW n \in 0..N, n \in P, n < N
      PROVE  n + 1 \in P
  <2>1. PICK at : at = [i \in 0..n |-> IF i = 0 THEN a ELSE Down(t, at[i - 1], k)]
    BY <1>3
  <2> DEFINE more == [i \in 0..(n + 1) |-> IF i = n + 1 THEN Down(t, at[n], k) ELSE at[i]]
  <2>2. /\ n \in Nat /\ n + 1 \in 0..N /\ n + 1 # 0 /\ (n + 1) - 1 = n
        /\ \A i \in 0..(n + 1) : i # n + 1 => i \in 0..n
        /\ \A i \in 0..(n + 1) : i # 0 => i - 1 \in 0..n /\ i - 1 \in 0..(n + 1) /\ i - 1 # n + 1
    BY <1>1, <1>3
  <2>3. \A i \in 0..n : at[i] = IF i = 0 THEN a ELSE Down(t, at[i - 1], k)
    BY <2>1
  <2>4. \A i \in 0..(n + 1) : i # 0 => more[i - 1] = at[i - 1]
    BY <2>2
  <2>5. ASSUME NEW i \in 0..(n + 1)
        PROVE  more[i] = IF i = 0 THEN a ELSE Down(t, more[i - 1], k)
    <3>1. CASE i = n + 1
      <4>1. more[i] = Down(t, at[n], k) /\ more[i - 1] = at[n] /\ i # 0
        BY <2>2, <2>4, <3>1
      <4>2. QED
        BY <4>1
    <3>2. CASE i # n + 1
      <4>1. i \in 0..n /\ more[i] = at[i]
        BY <2>2, <3>2
      <4>2. QED
        BY <2>3, <2>4, <4>1
    <3>3. QED
      BY <3>1, <3>2
  <2>6. more = [i \in 0..(n + 1) |-> IF i = 0 THEN a ELSE Down(t, more[i - 1], k)]
    <3>1. more = [i \in 0..(n + 1) |-> more[i]]
      OBVIOUS
    <3> HIDE DEF more
    <3>2. QED
      BY <2>5, <3>1, Zenon
  <2> HIDE DEF more
  <2>7. QED
    BY <2>2, <2>6
<1>4. N \in P
  <2> HIDE DEF P
  <2>1. N \in 0..N
    BY <1>1
  <2>2. QED
    BY <1>1, <1>2, <1>3, <2>1, Induction
<1>5. PICK f : f = [i \in 0..N |-> IF i = 0 THEN a ELSE Down(t, f[i - 1], k)]
  BY <1>4
<1> DEFINE g == DownLoop(t, k)
<1>6. g = [i \in 0..N |-> IF i = 0 THEN a ELSE Down(t, g[i - 1], k)]
  BY <1>5, Zenon DEF DownLoop, N, a
<1> HIDE DEF g
<1>7. g[0] = a
  BY <1>1, <1>6
<1>8. \A i \in 0..N : i < N => g[i + 1] = Down(t, g[i], k)
  <2>1. TAKE i \in 0..N
  <2>2. HAVE i < N
  <2>3. i + 1 \in 0..N /\ i + 1 # 0 /\ (i + 1) - 1 = i
    BY <1>1, <2>2
  <2>4. QED
    BY <1>6, <2>3
<1>9. QED
  BY <1>7, <1>8 DEF N, a, g

\* The loop of btree_insert_do.
RaiseLoop(t, leaf, e) ==
    CHOOSE at : at = [i \in 0..Rounds(t) |-> IF i = 0 THEN [tree |-> t, at |-> leaf, ent |-> e, right |-> Null]
                                       ELSE Raise(at[i - 1])]

\* The rounds of btree_insert_do.
LEMMA RaiseLoopFacts ==
    ASSUME NEW t, NEW leaf, NEW e, Rounds(t) \in Nat
    PROVE  /\ RaiseLoop(t, leaf, e)[0] = [tree |-> t, at |-> leaf, ent |-> e, right |-> Null]
           /\ \A i \in 0..Rounds(t) : i < Rounds(t) =>
                RaiseLoop(t, leaf, e)[i + 1] = Raise(RaiseLoop(t, leaf, e)[i])
<1> DEFINE a == [tree |-> t, at |-> leaf, ent |-> e, right |-> Null]
           N == Rounds(t)
           P == {n \in 0..N : \E at : at = [i \in 0..n |-> IF i = 0 THEN a
                                                       ELSE Raise(at[i - 1])]}
<1> HIDE DEF a
<1>1. N \in Nat
  OBVIOUS
<1> HIDE DEF N
<1>2. 0 \in P
  <2> DEFINE first == [i \in 0..0 |-> a]
  <2>1. first = [i \in 0..0 |-> IF i = 0 THEN a ELSE Raise(first[i - 1])]
    OBVIOUS
  <2> HIDE DEF first
  <2>2. \E at : at = [i \in 0..0 |-> IF i = 0 THEN a ELSE Raise(at[i - 1])]
    BY <2>1
  <2>3. QED
    BY <1>1, <2>2
<1>3. ASSUME NEW n \in 0..N, n \in P, n < N
      PROVE  n + 1 \in P
  <2>1. PICK at : at = [i \in 0..n |-> IF i = 0 THEN a ELSE Raise(at[i - 1])]
    BY <1>3
  <2> DEFINE more == [i \in 0..(n + 1) |-> IF i = n + 1 THEN Raise(at[n]) ELSE at[i]]
  <2>2. /\ n \in Nat /\ n + 1 \in 0..N /\ n + 1 # 0 /\ (n + 1) - 1 = n
        /\ \A i \in 0..(n + 1) : i # n + 1 => i \in 0..n
        /\ \A i \in 0..(n + 1) : i # 0 => i - 1 \in 0..n /\ i - 1 \in 0..(n + 1) /\ i - 1 # n + 1
    BY <1>1, <1>3
  <2>3. \A i \in 0..n : at[i] = IF i = 0 THEN a ELSE Raise(at[i - 1])
    BY <2>1
  <2>4. \A i \in 0..(n + 1) : i # 0 => more[i - 1] = at[i - 1]
    BY <2>2
  <2>5. ASSUME NEW i \in 0..(n + 1)
        PROVE  more[i] = IF i = 0 THEN a ELSE Raise(more[i - 1])
    <3>1. CASE i = n + 1
      <4>1. more[i] = Raise(at[n]) /\ more[i - 1] = at[n] /\ i # 0
        BY <2>2, <2>4, <3>1
      <4>2. QED
        BY <4>1
    <3>2. CASE i # n + 1
      <4>1. i \in 0..n /\ more[i] = at[i]
        BY <2>2, <3>2
      <4>2. QED
        BY <2>3, <2>4, <4>1
    <3>3. QED
      BY <3>1, <3>2
  <2>6. more = [i \in 0..(n + 1) |-> IF i = 0 THEN a ELSE Raise(more[i - 1])]
    <3>1. more = [i \in 0..(n + 1) |-> more[i]]
      OBVIOUS
    <3> HIDE DEF more
    <3>2. QED
      BY <2>5, <3>1, Zenon
  <2> HIDE DEF more
  <2>7. QED
    BY <2>2, <2>6
<1>4. N \in P
  <2> HIDE DEF P
  <2>1. N \in 0..N
    BY <1>1
  <2>2. QED
    BY <1>1, <1>2, <1>3, <2>1, Induction
<1>5. PICK f : f = [i \in 0..N |-> IF i = 0 THEN a ELSE Raise(f[i - 1])]
  BY <1>4
<1> DEFINE g == RaiseLoop(t, leaf, e)
<1>6. g = [i \in 0..N |-> IF i = 0 THEN a ELSE Raise(g[i - 1])]
  BY <1>5, Zenon DEF RaiseLoop, N, a
<1> HIDE DEF g
<1>7. g[0] = a
  BY <1>1, <1>6
<1>8. \A i \in 0..N : i < N => g[i + 1] = Raise(g[i])
  <2>1. TAKE i \in 0..N
  <2>2. HAVE i < N
  <2>3. i + 1 \in 0..N /\ i + 1 # 0 /\ (i + 1) - 1 = i
    BY <1>1, <2>2
  <2>4. QED
    BY <1>6, <2>3
<1>9. QED
  BY <1>7, <1>8 DEF N, a, g

\* The recursion of delete_recursive.
LowerLoop(t, k) ==
    CHOOSE at : at = [i \in 0..Rounds(t) |-> IF i = 0 THEN [tree |-> t, at |-> t.root, key |-> k, sound |-> TRUE]
                                       ELSE Lower(at[i - 1])]

\* The calls of delete_recursive.
LEMMA LowerLoopFacts ==
    ASSUME NEW t, NEW k, Rounds(t) \in Nat
    PROVE  /\ LowerLoop(t, k)[0] = [tree |-> t, at |-> t.root, key |-> k, sound |-> TRUE]
           /\ \A i \in 0..Rounds(t) : i < Rounds(t) =>
                LowerLoop(t, k)[i + 1] = Lower(LowerLoop(t, k)[i])
<1> DEFINE a == [tree |-> t, at |-> t.root, key |-> k, sound |-> TRUE]
           N == Rounds(t)
           P == {n \in 0..N : \E at : at = [i \in 0..n |-> IF i = 0 THEN a
                                                       ELSE Lower(at[i - 1])]}
<1> HIDE DEF a
<1>1. N \in Nat
  OBVIOUS
<1> HIDE DEF N
<1>2. 0 \in P
  <2> DEFINE first == [i \in 0..0 |-> a]
  <2>1. first = [i \in 0..0 |-> IF i = 0 THEN a ELSE Lower(first[i - 1])]
    OBVIOUS
  <2> HIDE DEF first
  <2>2. \E at : at = [i \in 0..0 |-> IF i = 0 THEN a ELSE Lower(at[i - 1])]
    BY <2>1
  <2>3. QED
    BY <1>1, <2>2
<1>3. ASSUME NEW n \in 0..N, n \in P, n < N
      PROVE  n + 1 \in P
  <2>1. PICK at : at = [i \in 0..n |-> IF i = 0 THEN a ELSE Lower(at[i - 1])]
    BY <1>3
  <2> DEFINE more == [i \in 0..(n + 1) |-> IF i = n + 1 THEN Lower(at[n]) ELSE at[i]]
  <2>2. /\ n \in Nat /\ n + 1 \in 0..N /\ n + 1 # 0 /\ (n + 1) - 1 = n
        /\ \A i \in 0..(n + 1) : i # n + 1 => i \in 0..n
        /\ \A i \in 0..(n + 1) : i # 0 => i - 1 \in 0..n /\ i - 1 \in 0..(n + 1) /\ i - 1 # n + 1
    BY <1>1, <1>3
  <2>3. \A i \in 0..n : at[i] = IF i = 0 THEN a ELSE Lower(at[i - 1])
    BY <2>1
  <2>4. \A i \in 0..(n + 1) : i # 0 => more[i - 1] = at[i - 1]
    BY <2>2
  <2>5. ASSUME NEW i \in 0..(n + 1)
        PROVE  more[i] = IF i = 0 THEN a ELSE Lower(more[i - 1])
    <3>1. CASE i = n + 1
      <4>1. more[i] = Lower(at[n]) /\ more[i - 1] = at[n] /\ i # 0
        BY <2>2, <2>4, <3>1
      <4>2. QED
        BY <4>1
    <3>2. CASE i # n + 1
      <4>1. i \in 0..n /\ more[i] = at[i]
        BY <2>2, <3>2
      <4>2. QED
        BY <2>3, <2>4, <4>1
    <3>3. QED
      BY <3>1, <3>2
  <2>6. more = [i \in 0..(n + 1) |-> IF i = 0 THEN a ELSE Lower(more[i - 1])]
    <3>1. more = [i \in 0..(n + 1) |-> more[i]]
      OBVIOUS
    <3> HIDE DEF more
    <3>2. QED
      BY <2>5, <3>1, Zenon
  <2> HIDE DEF more
  <2>7. QED
    BY <2>2, <2>6
<1>4. N \in P
  <2> HIDE DEF P
  <2>1. N \in 0..N
    BY <1>1
  <2>2. QED
    BY <1>1, <1>2, <1>3, <2>1, Induction
<1>5. PICK f : f = [i \in 0..N |-> IF i = 0 THEN a ELSE Lower(f[i - 1])]
  BY <1>4
<1> DEFINE g == LowerLoop(t, k)
<1>6. g = [i \in 0..N |-> IF i = 0 THEN a ELSE Lower(g[i - 1])]
  BY <1>5, Zenon DEF LowerLoop, N, a
<1> HIDE DEF g
<1>7. g[0] = a
  BY <1>1, <1>6
<1>8. \A i \in 0..N : i < N => g[i + 1] = Lower(g[i])
  <2>1. TAKE i \in 0..N
  <2>2. HAVE i < N
  <2>3. i + 1 \in 0..N /\ i + 1 # 0 /\ (i + 1) - 1 = i
    BY <1>1, <2>2
  <2>4. QED
    BY <1>6, <2>3
<1>9. QED
  BY <1>7, <1>8 DEF N, a, g

\* The recursion of btree_to_bin.
VisitLoop(t, n) ==
    CHOOSE at : at = [i \in 0..Rounds(t) |-> IF i = 0 THEN [done |-> <<>>, todo |-> <<n>>]
                                       ELSE Visit(t, at[i - 1])]

\* The calls of btree_to_bin.
LEMMA VisitLoopFacts ==
    ASSUME NEW t, NEW m, Rounds(t) \in Nat
    PROVE  /\ VisitLoop(t, m)[0] = [done |-> <<>>, todo |-> <<m>>]
           /\ \A i \in 0..Rounds(t) : i < Rounds(t) =>
                VisitLoop(t, m)[i + 1] = Visit(t, VisitLoop(t, m)[i])
<1> DEFINE a == [done |-> <<>>, todo |-> <<m>>]
           N == Rounds(t)
           P == {n \in 0..N : \E at : at = [i \in 0..n |-> IF i = 0 THEN a
                                                       ELSE Visit(t, at[i - 1])]}
<1> HIDE DEF a
<1>1. N \in Nat
  OBVIOUS
<1> HIDE DEF N
<1>2. 0 \in P
  <2> DEFINE first == [i \in 0..0 |-> a]
  <2>1. first = [i \in 0..0 |-> IF i = 0 THEN a ELSE Visit(t, first[i - 1])]
    OBVIOUS
  <2> HIDE DEF first
  <2>2. \E at : at = [i \in 0..0 |-> IF i = 0 THEN a ELSE Visit(t, at[i - 1])]
    BY <2>1
  <2>3. QED
    BY <1>1, <2>2
<1>3. ASSUME NEW n \in 0..N, n \in P, n < N
      PROVE  n + 1 \in P
  <2>1. PICK at : at = [i \in 0..n |-> IF i = 0 THEN a ELSE Visit(t, at[i - 1])]
    BY <1>3
  <2> DEFINE more == [i \in 0..(n + 1) |-> IF i = n + 1 THEN Visit(t, at[n]) ELSE at[i]]
  <2>2. /\ n \in Nat /\ n + 1 \in 0..N /\ n + 1 # 0 /\ (n + 1) - 1 = n
        /\ \A i \in 0..(n + 1) : i # n + 1 => i \in 0..n
        /\ \A i \in 0..(n + 1) : i # 0 => i - 1 \in 0..n /\ i - 1 \in 0..(n + 1) /\ i - 1 # n + 1
    BY <1>1, <1>3
  <2>3. \A i \in 0..n : at[i] = IF i = 0 THEN a ELSE Visit(t, at[i - 1])
    BY <2>1
  <2>4. \A i \in 0..(n + 1) : i # 0 => more[i - 1] = at[i - 1]
    BY <2>2
  <2>5. ASSUME NEW i \in 0..(n + 1)
        PROVE  more[i] = IF i = 0 THEN a ELSE Visit(t, more[i - 1])
    <3>1. CASE i = n + 1
      <4>1. more[i] = Visit(t, at[n]) /\ more[i - 1] = at[n] /\ i # 0
        BY <2>2, <2>4, <3>1
      <4>2. QED
        BY <4>1
    <3>2. CASE i # n + 1
      <4>1. i \in 0..n /\ more[i] = at[i]
        BY <2>2, <3>2
      <4>2. QED
        BY <2>3, <2>4, <4>1
    <3>3. QED
      BY <3>1, <3>2
  <2>6. more = [i \in 0..(n + 1) |-> IF i = 0 THEN a ELSE Visit(t, more[i - 1])]
    <3>1. more = [i \in 0..(n + 1) |-> more[i]]
      OBVIOUS
    <3> HIDE DEF more
    <3>2. QED
      BY <2>5, <3>1, Zenon
  <2> HIDE DEF more
  <2>7. QED
    BY <2>2, <2>6
<1>4. N \in P
  <2> HIDE DEF P
  <2>1. N \in 0..N
    BY <1>1
  <2>2. QED
    BY <1>1, <1>2, <1>3, <2>1, Induction
<1>5. PICK f : f = [i \in 0..N |-> IF i = 0 THEN a ELSE Visit(t, f[i - 1])]
  BY <1>4
<1> DEFINE g == VisitLoop(t, m)
<1>6. g = [i \in 0..N |-> IF i = 0 THEN a ELSE Visit(t, g[i - 1])]
  BY <1>5, Zenon DEF VisitLoop, N, a
<1> HIDE DEF g
<1>7. g[0] = a
  BY <1>1, <1>6
<1>8. \A i \in 0..N : i < N => g[i + 1] = Visit(t, g[i])
  <2>1. TAKE i \in 0..N
  <2>2. HAVE i < N
  <2>3. i + 1 \in 0..N /\ i + 1 # 0 /\ (i + 1) - 1 = i
    BY <1>1, <2>2
  <2>4. QED
    BY <1>6, <2>3
<1>9. QED
  BY <1>7, <1>8 DEF N, a, g

\* The loop of btree_search_stream.
StreamLoop(bin, k) ==
    CHOOSE at : at = [i \in 0..Len(bin) |-> IF i = 0 THEN 1
                                       ELSE StreamSeek(bin, at[i - 1], k)]

\* The rounds of btree_search_stream.
LEMMA StreamLoopFacts ==
    ASSUME NEW bin, NEW k, Len(bin) \in Nat
    PROVE  /\ StreamLoop(bin, k)[0] = 1
           /\ \A i \in 0..Len(bin) : i < Len(bin) =>
                StreamLoop(bin, k)[i + 1] = StreamSeek(bin, StreamLoop(bin, k)[i], k)
<1> DEFINE a == 1
           N == Len(bin)
           P == {n \in 0..N : \E at : at = [i \in 0..n |-> IF i = 0 THEN a
                                                       ELSE StreamSeek(bin, at[i - 1], k)]}
<1> HIDE DEF a
<1>1. N \in Nat
  OBVIOUS
<1> HIDE DEF N
<1>2. 0 \in P
  <2> DEFINE first == [i \in 0..0 |-> a]
  <2>1. first = [i \in 0..0 |-> IF i = 0 THEN a ELSE StreamSeek(bin, first[i - 1], k)]
    OBVIOUS
  <2> HIDE DEF first
  <2>2. \E at : at = [i \in 0..0 |-> IF i = 0 THEN a ELSE StreamSeek(bin, at[i - 1], k)]
    BY <2>1
  <2>3. QED
    BY <1>1, <2>2
<1>3. ASSUME NEW n \in 0..N, n \in P, n < N
      PROVE  n + 1 \in P
  <2>1. PICK at : at = [i \in 0..n |-> IF i = 0 THEN a ELSE StreamSeek(bin, at[i - 1], k)]
    BY <1>3
  <2> DEFINE more == [i \in 0..(n + 1) |-> IF i = n + 1 THEN StreamSeek(bin, at[n], k) ELSE at[i]]
  <2>2. /\ n \in Nat /\ n + 1 \in 0..N /\ n + 1 # 0 /\ (n + 1) - 1 = n
        /\ \A i \in 0..(n + 1) : i # n + 1 => i \in 0..n
        /\ \A i \in 0..(n + 1) : i # 0 => i - 1 \in 0..n /\ i - 1 \in 0..(n + 1) /\ i - 1 # n + 1
    BY <1>1, <1>3
  <2>3. \A i \in 0..n : at[i] = IF i = 0 THEN a ELSE StreamSeek(bin, at[i - 1], k)
    BY <2>1
  <2>4. \A i \in 0..(n + 1) : i # 0 => more[i - 1] = at[i - 1]
    BY <2>2
  <2>5. ASSUME NEW i \in 0..(n + 1)
        PROVE  more[i] = IF i = 0 THEN a ELSE StreamSeek(bin, more[i - 1], k)
    <3>1. CASE i = n + 1
      <4>1. more[i] = StreamSeek(bin, at[n], k) /\ more[i - 1] = at[n] /\ i # 0
        BY <2>2, <2>4, <3>1
      <4>2. QED
        BY <4>1
    <3>2. CASE i # n + 1
      <4>1. i \in 0..n /\ more[i] = at[i]
        BY <2>2, <3>2
      <4>2. QED
        BY <2>3, <2>4, <4>1
    <3>3. QED
      BY <3>1, <3>2
  <2>6. more = [i \in 0..(n + 1) |-> IF i = 0 THEN a ELSE StreamSeek(bin, more[i - 1], k)]
    <3>1. more = [i \in 0..(n + 1) |-> more[i]]
      OBVIOUS
    <3> HIDE DEF more
    <3>2. QED
      BY <2>5, <3>1, Zenon
  <2> HIDE DEF more
  <2>7. QED
    BY <2>2, <2>6
<1>4. N \in P
  <2> HIDE DEF P
  <2>1. N \in 0..N
    BY <1>1
  <2>2. QED
    BY <1>1, <1>2, <1>3, <2>1, Induction
<1>5. PICK f : f = [i \in 0..N |-> IF i = 0 THEN a ELSE StreamSeek(bin, f[i - 1], k)]
  BY <1>4
<1> DEFINE g == StreamLoop(bin, k)
<1>6. g = [i \in 0..N |-> IF i = 0 THEN a ELSE StreamSeek(bin, g[i - 1], k)]
  BY <1>5, Zenon DEF StreamLoop, N, a
<1> HIDE DEF g
<1>7. g[0] = a
  BY <1>1, <1>6
<1>8. \A i \in 0..N : i < N => g[i + 1] = StreamSeek(bin, g[i], k)
  <2>1. TAKE i \in 0..N
  <2>2. HAVE i < N
  <2>3. i + 1 \in 0..N /\ i + 1 # 0 /\ (i + 1) - 1 = i
    BY <1>1, <2>2
  <2>4. QED
    BY <1>6, <2>3
<1>9. QED
  BY <1>7, <1>8 DEF N, a, g

\* There is a node on each level, so that no way down is longer than there are nodes.
LEMMA Tall ==
    ASSUME NEW t, NEW level, NEW span, Formed(t, level, span)
    PROVE  Rounds(t) \in Nat /\ level[t.root] \in Nat /\ level[t.root] < Rounds(t)
<1> DEFINE top == level[t.root]
           H == Heap(t)
           P == {d \in 0..top : \E n \in H : level[n] = top - d}
<1>1. Typed(t) /\ Linked(t, level) /\ Spanned(t, span)
  BY DEF Formed
<1>2. t.root \in H /\ top \in Nat /\ IsFiniteSet(H)
  BY <1>1 DEF Typed, Linked
<1>3. \A n \in H : level[n] \in Nat /\ level[n] =< top
  BY <1>1 DEF Linked
<1>4. 0 \in P
  BY <1>2
<1>5. ASSUME NEW d \in 0..top, d \in P, d < top
      PROVE  d + 1 \in P
  <2>1. PICK n \in H : level[n] = top - d
    BY <1>5
  <2>2. ~Leaf(t, n)
    BY <1>1, <1>2, <1>5, <2>1 DEF Linked
  <2>3. KidCount(t, n) = KeyCount(t, n) + 1 /\ KeyCount(t, n) \in Nat
    BY <1>1, <2>2, Counts
  <2>4. 1 \in 1..KidCount(t, n)
    BY <2>3
  <2>5. Kid(t, n, 1) \in H /\ level[Kid(t, n, 1)] = level[n] - 1
    BY <2>4, KidFacts
  <2>6. level[Kid(t, n, 1)] = top - (d + 1)
    BY <1>2, <2>1, <2>5
  <2>7. QED
    BY <1>2, <1>5, <2>5, <2>6
<1>6. \A d \in 0..top : d \in P
  <2> HIDE DEF P
  <2>1. top \in Nat
    BY <1>2
  <2> HIDE DEF top
  <2>2. QED
    BY <1>4, <1>5, <2>1, Induction
<1>7. \A l \in 0..top : \E n \in H : level[n] = l
  <2>1. TAKE l \in 0..top
  <2>2. top - l \in 0..top /\ top - (top - l) = l
    BY <1>2
  <2>3. top - l \in P
    BY <1>6, <2>2
  <2>4. QED
    BY <2>2, <2>3
<1>8. level \in Surjection(H, 0..top)
  <2>1. level \in [H -> 0..top]
    BY <1>1, <1>2, <1>3 DEF Linked
  <2>2. QED
    BY <1>7, <2>1 DEF Surjection
<1>9. Cardinality(0..top) =< Cardinality(H)
  BY <1>2, <1>8, FS_Surjection
<1>10. Cardinality(0..top) = top + 1
  BY <1>2, FS_Interval
<1>11. Cardinality(H) \in Nat
  BY <1>2, FS_CardinalityType
<1>12. QED
  BY <1>2, <1>9, <1>10, <1>11 DEF Rounds

\* btree_search ends at the node with the key, or at the leaf where it belongs.
LEMMA SeekEnds ==
    ASSUME NEW t, NEW level, NEW span, Formed(t, level, span), NEW k \in Key,
           NEW n, n = SeekLoop(t, k)[Rounds(t)]
    PROVE  n \in Heap(t) /\ k \in span[n] /\ (Here(Ents(t, n), k) \/ Leaf(t, n))
<1> DEFINE top == level[t.root]
           N == Rounds(t)
           at == SeekLoop(t, k)
           P == {i \in 0..N :
                    /\ at[i] \in Heap(t) /\ k \in span[at[i]]
                    /\ Here(Ents(t, at[i]), k) \/ Leaf(t, at[i]) \/ level[at[i]] = top - i}
<1>1. Typed(t) /\ Linked(t, level) /\ Spanned(t, span)
  BY DEF Formed
<1>2. t.root \in Heap(t) /\ Null \notin Heap(t) /\ span[t.root] = Key
  BY <1>1 DEF Typed, Spanned, Null
<1>3. N \in Nat /\ top \in Nat /\ top < N
  BY Tall
<1>4. at[0] = t.root /\ \A i \in 0..N : i < N => at[i + 1] = Seek(t, at[i], k)
  BY <1>3, SeekLoopFacts
<1> HIDE DEF at, N
<1>5. 0 \in P
  BY <1>2, <1>3, <1>4
<1>6. ASSUME NEW i \in 0..N, i \in P, i < N
      PROVE  i + 1 \in P
  <2> DEFINE m == at[i]
  <2>1. /\ m \in Heap(t) /\ k \in span[m]
        /\ Here(Ents(t, m), k) \/ Leaf(t, m) \/ level[m] = top - i
    BY <1>6
  <2>2. at[i + 1] = Seek(t, m, k)
    BY <1>4, <1>6
  <2> HIDE DEF m
  <2>3. CASE Here(Ents(t, m), k) \/ Leaf(t, m)
    <3>1. at[i + 1] = m
      BY <1>2, <2>1, <2>2, <2>3 DEF Seek, Down
    <3>2. QED
      BY <1>3, <1>6, <2>1, <2>3, <3>1
  <2>4. CASE ~Here(Ents(t, m), k) /\ ~Leaf(t, m)
    <3> DEFINE s == Slot(Ents(t, m), k)
    <3>1. at[i + 1] = Kid(t, m, s)
      BY <1>2, <2>1, <2>2, <2>4 DEF Seek, Down, Kid
    <3>2. Kid(t, m, s) \in Heap(t) /\ k \in span[Kid(t, m, s)] /\ level[Kid(t, m, s)] = level[m] - 1
      BY <2>1, <2>4, StepDown
    <3> HIDE DEF s
    <3>3. level[at[i + 1]] = top - (i + 1)
      BY <1>3, <1>6, <2>1, <2>4, <3>1, <3>2
    <3>4. QED
      BY <1>3, <1>6, <3>1, <3>2, <3>3
  <2>5. QED
    BY <2>3, <2>4
<1>7. N \in P
  <2> HIDE DEF P
  <2>1. N \in 0..N
    BY <1>3
  <2>2. QED
    BY <1>3, <1>5, <1>6, <2>1, Induction
<1>8. n = at[N]
  BY DEF at, N
<1>9. \A m \in Heap(t) : level[m] \in Nat
  BY <1>1 DEF Linked
<1>10. level[n] # top - N
  BY <1>3, <1>7, <1>8, <1>9
<1>11. QED
  BY <1>7, <1>8, <1>10

\* Search is the end of that loop.
LEMMA SearchLoop ==
    ASSUME NEW t, NEW k
    PROVE  Search(t, k) =
            IF t.root = Null THEN 0
            ELSE IF SeekLoop(t, k)[Rounds(t)] = Null THEN Lost
            ELSE Found(Ents(t, SeekLoop(t, k)[Rounds(t)]), k)
  BY DEF Search, SeekLoop

\* btree_search finds a key that is there, and its offset, and no other.
LEMMA SearchFormed ==
    ASSUME NEW t, NEW level, NEW span, Formed(t, level, span), NEW k \in Key
    PROVE  /\ \A e \in Held(t) : e.key = k => Search(t, k) = e.off /\ Search(t, k) > 0
           /\ (\A e \in Held(t) : e.key # k) => Search(t, k) = 0
<1> DEFINE n == SeekLoop(t, k)[Rounds(t)]
           s == Slot(Ents(t, n), k)
<1>1. Typed(t) /\ Linked(t, level) /\ Spanned(t, span)
  BY DEF Formed
<1>2. n \in Heap(t) /\ k \in span[n] /\ (Here(Ents(t, n), k) \/ Leaf(t, n))
  BY SeekEnds
<1>3. n # Null /\ t.root # Null
  BY <1>1, <1>2 DEF Typed, Null
<1>4. Search(t, k) = Found(Ents(t, n), k)
  BY <1>3, SearchLoop
<1> HIDE DEF n
<1>5. Search(t, k) = IF Here(Ents(t, n), k) THEN EntAt(t, n, s).off ELSE 0
  BY <1>4 DEF Found, EntAt
<1>6. Here(Ents(t, n), k) <=> s =< KeyCount(t, n) /\ KeyAt(t, n, s) = k
  BY <1>1, <1>2, NodeSlot
<1>7. s \in 1..(KeyCount(t, n) + 1) /\ KeyCount(t, n) \in Nat
  BY <1>1, <1>2, NodeSlot, TypedFacts
<1> HIDE DEF s
<1>8. ASSUME NEW e \in Held(t), e.key = k
      PROVE  Search(t, k) = e.off /\ Search(t, k) > 0
  <2>1. PICK m \in Heap(t) : \E i \in 1..KeyCount(t, m) : EntAt(t, m, i) = e
    BY <1>1, <1>8, HeldFacts
  <2>2. PICK i \in 1..KeyCount(t, m) : EntAt(t, m, i) = e
    BY <2>1
  <2>3. KeyAt(t, m, i) = k
    BY <1>8, <2>2, EntKey
  <2>4. m = n
    BY <1>2, <2>3, OnePlace
  <2>5. Here(Ents(t, n), k)
    BY <1>1, <1>2, <2>3, <2>4, HereFacts
  <2>6. s \in 1..KeyCount(t, n) /\ KeyAt(t, n, s) = k
    BY <1>6, <1>7, <2>5
  <2>7. i = s
    BY <1>2, <2>3, <2>4, <2>6, OneEntry
  <2>8. Search(t, k) = e.off
    BY <1>5, <2>2, <2>4, <2>5, <2>7
  <2>9. e \in Entry
    BY <1>1, <2>2, TypedFacts
  <2>10. e.off \in Nat \ {0}
    BY <2>9, BTreeAssumption DEF Entry
  <2>11. QED
    BY <2>8, <2>10
<1>9. ASSUME \A e \in Held(t) : e.key # k
      PROVE  Search(t, k) = 0
  <2>1. SUFFICES ASSUME Here(Ents(t, n), k) PROVE FALSE
    BY <1>5
  <2>2. s \in 1..KeyCount(t, n) /\ KeyAt(t, n, s) = k
    BY <1>6, <1>7, <2>1
  <2>3. EntAt(t, n, s) \in Held(t)
    BY <1>1, <1>2, <2>2, HeldFacts
  <2>4. QED
    BY <1>9, <2>2, <2>3, EntKey
<1>10. QED
  BY <1>8, <1>9

\* find_leaf ends in the leaf where the key belongs.
LEMMA FindLeafFormed ==
    ASSUME NEW t, NEW level, NEW span, Formed(t, level, span), NEW k \in Key,
           \A e \in Held(t) : e.key # k, NEW n, n = FindLeaf(t, k)
    PROVE  n \in Heap(t) /\ k \in span[n] /\ Leaf(t, n) /\ ~Here(Ents(t, n), k)
<1> DEFINE top == level[t.root]
           N == Rounds(t)
           at == DownLoop(t, k)
           P == {i \in 0..N :
                    /\ at[i] \in Heap(t) /\ k \in span[at[i]]
                    /\ Leaf(t, at[i]) \/ level[at[i]] = top - i}
<1>1. Typed(t) /\ Linked(t, level) /\ Spanned(t, span)
  BY DEF Formed
<1>2. t.root \in Heap(t) /\ Null \notin Heap(t) /\ span[t.root] = Key
  BY <1>1 DEF Typed, Spanned, Null
<1>3. N \in Nat /\ top \in Nat /\ top < N
  BY Tall
<1>4. at[0] = t.root /\ \A i \in 0..N : i < N => at[i + 1] = Down(t, at[i], k)
  BY <1>3, DownLoopFacts
<1>0. n = at[N]
  BY DEF FindLeaf, DownLoop
<1> HIDE DEF at, N
<1>5. 0 \in P
  BY <1>2, <1>3, <1>4
<1>13. \A m \in Heap(t) : ~Here(Ents(t, m), k)
  <2>1. TAKE m \in Heap(t)
  <2>2. SUFFICES ASSUME Here(Ents(t, m), k) PROVE FALSE
    OBVIOUS
  <2>3. PICK i \in 1..KeyCount(t, m) : KeyAt(t, m, i) = k
    BY <1>1, <2>2, HereFacts
  <2>4. EntAt(t, m, i) \in Held(t)
    BY <1>1, HeldFacts
  <2>5. QED
    BY <2>3, <2>4, EntKey
<1>6. ASSUME NEW i \in 0..N, i \in P, i < N
      PROVE  i + 1 \in P
  <2> DEFINE m == at[i]
  <2>1. /\ m \in Heap(t) /\ k \in span[m]
        /\ Leaf(t, m) \/ level[m] = top - i
    BY <1>6
  <2>2. at[i + 1] = Down(t, m, k)
    BY <1>4, <1>6
  <2> HIDE DEF m
  <2>3. CASE Leaf(t, m)
    <3>1. at[i + 1] = m
      BY <1>2, <2>1, <2>2, <2>3 DEF Down
    <3>2. QED
      BY <1>3, <1>6, <2>1, <2>3, <3>1
  <2>4. CASE ~Leaf(t, m)
    <3> DEFINE s == Slot(Ents(t, m), k)
    <3>1. at[i + 1] = Kid(t, m, s)
      BY <1>2, <2>1, <2>2, <2>4 DEF Down, Kid
    <3>2. Kid(t, m, s) \in Heap(t) /\ k \in span[Kid(t, m, s)] /\ level[Kid(t, m, s)] = level[m] - 1
      BY <1>13, <2>1, <2>4, StepDown
    <3> HIDE DEF s
    <3>3. level[at[i + 1]] = top - (i + 1)
      BY <1>3, <1>6, <2>1, <2>4, <3>1, <3>2
    <3>4. QED
      BY <1>3, <1>6, <3>1, <3>2, <3>3
  <2>5. QED
    BY <2>3, <2>4
<1>7. N \in P
  <2> HIDE DEF P
  <2>1. N \in 0..N
    BY <1>3
  <2>2. QED
    BY <1>3, <1>5, <1>6, <2>1, Induction
<1>9. \A m \in Heap(t) : level[m] \in Nat
  BY <1>1 DEF Linked
<1>10. level[n] # top - N
  BY <1>0, <1>3, <1>7, <1>9
<1>11. QED
  BY <1>0, <1>7, <1>10, <1>13

(***************************************************************************)
(* Insertion.                                                              *)
(***************************************************************************)
\* A node split has enough for two, and two nodes that are not more than half
\* full, with the entry between them, fit into one.
LEMMA Sizes ==
    /\ LeftCount \in Nat /\ MinKeys \in Nat /\ MaxKeys \in Nat
    /\ 1 =< MinKeys /\ MinKeys =< LeftCount /\ LeftCount + 1 =< MaxKeys
    /\ MinKeys =< MaxKeys - LeftCount
    /\ MinKeys + 1 + MinKeys =< MaxKeys
  BY BTreeAssumption DEF LeftCount, MinKeys

\* t with entry e in node p and, unless p is a leaf, incoming to its right
Grafted(t, p, e, incoming) ==
    Fill(t, p, MoreEnts(t, p, e), MoreKids(t, p, e, incoming))

\* A node with an entry, and a child to its right, more.
LEMMA GraftFacts ==
    ASSUME NEW t, Typed(t), NEW p \in Heap(t), NEW e \in Entry, NEW incoming,
           NEW s, s = Slot(Ents(t, p), e.key),
           ~Leaf(t, p) => KidCount(t, p) = KeyCount(t, p) + 1 /\ incoming \in Heap(t),
           NEW u, u = Grafted(t, p, e, incoming)
    PROVE  /\ Typed(u)
           /\ u.root = t.root /\ Heap(u) = Heap(t)
           /\ \A n \in Heap(t) : Leaf(u, n) = Leaf(t, n) /\ Parent(u, n) = Parent(t, n)
           /\ \A n \in Heap(t) \ {p} : Ents(u, n) = Ents(t, n) /\ Kids(u, n) = Kids(t, n)
           /\ s \in 1..(KeyCount(t, p) + 1)
           /\ KeyCount(u, p) = KeyCount(t, p) + 1
           /\ \A i \in 1..(KeyCount(t, p) + 1) :
                EntAt(u, p, i) = IF i < s THEN EntAt(t, p, i)
                                 ELSE IF i = s THEN e ELSE EntAt(t, p, i - 1)
           /\ Leaf(t, p) => KidCount(u, p) = 0 /\ Kids(u, p) = <<>>
           /\ ~Leaf(t, p) => KidCount(u, p) = KidCount(t, p) + 1
           /\ ~Leaf(t, p) => \A i \in 1..(KidCount(t, p) + 1) :
                Kid(u, p, i) = IF i < s + 1 THEN Kid(t, p, i)
                               ELSE IF i = s + 1 THEN incoming ELSE Kid(t, p, i - 1)
<1> DEFINE H == Heap(t)
           ents == MoreEnts(t, p, e)
           kids == MoreKids(t, p, e, incoming)
<1>1. e.key \in Key
  BY DEF Entry
<1>2. s \in 1..(KeyCount(t, p) + 1) /\ KeyCount(t, p) \in Nat
  BY <1>1, NodeSlot, TypedFacts
<1>3. /\ ents \in Seq(Entry) /\ Len(ents) = KeyCount(t, p) + 1
      /\ \A i \in 1..(KeyCount(t, p) + 1) :
            ents[i] = IF i < s THEN EntAt(t, p, i) ELSE IF i = s THEN e ELSE EntAt(t, p, i - 1)
  <2> DEFINE old == Ents(t, p)
  <2>1. old \in Seq(Entry) /\ Len(old) = KeyCount(t, p) /\ \A i : old[i] = EntAt(t, p, i)
    BY TypedFacts DEF KeyCount, EntAt
  <2>2. ents = InsertAt(old, s, e)
    BY DEF MoreEnts
  <2> HIDE DEF old, ents
  <2>3. s \in 1..(Len(old) + 1)
    BY <1>2, <2>1
  <2>4. InsertAt(old, s, e) \in Seq(Entry) /\ Len(InsertAt(old, s, e)) = Len(old) + 1
    BY <2>1, <2>3, InsertAtFacts
  <2>7. old \in Seq(Entry)
    BY <2>1
  <2>6. \A j \in 1..(Len(old) + 1) :
             InsertAt(old, s, e)[j] = IF j < s THEN old[j] ELSE IF j = s THEN e ELSE old[j - 1]
    BY <2>3, <2>7, InsertAtFacts
  <2>5. QED
    BY <2>1, <2>2, <2>4, <2>6
<1>4. Leaf(t, p) => kids = <<>>
  BY DEF MoreKids
<1>5. ASSUME ~Leaf(t, p)
      PROVE  /\ kids \in Seq(H) /\ Len(kids) = KidCount(t, p) + 1
             /\ \A i \in 1..(KidCount(t, p) + 1) :
                    kids[i] = IF i < s + 1 THEN Kid(t, p, i)
                              ELSE IF i = s + 1 THEN incoming ELSE Kid(t, p, i - 1)
  <2> DEFINE s1 == s + 1
             old == Kids(t, p)
  <2>1. KidCount(t, p) = KeyCount(t, p) + 1 /\ incoming \in H
    BY <1>5
  <2>2. s1 \in 1..(KidCount(t, p) + 1)
    BY <1>2, <2>1
  <2>3. old \in Seq(H) /\ Len(old) = KidCount(t, p) /\ \A i : old[i] = Kid(t, p, i)
    BY TypedFacts DEF KidCount, Kid
  <2>4. kids = InsertAt(old, s1, incoming)
    BY <1>5 DEF MoreKids
  <2> HIDE DEF s1, old, kids, H
  <2>5. s1 \in 1..(Len(old) + 1)
    BY <2>2, <2>3
  <2>8. old \in Seq(H)
    BY <2>3
  <2>6. /\ InsertAt(old, s1, incoming) \in Seq(H)
        /\ Len(InsertAt(old, s1, incoming)) = Len(old) + 1
        /\ \A j \in 1..(Len(old) + 1) :
             InsertAt(old, s1, incoming)[j] =
                IF j < s1 THEN old[j] ELSE IF j = s1 THEN incoming ELSE old[j - 1]
    BY <2>1, <2>5, <2>8, InsertAtFacts
  <2>7. QED
    BY <2>3, <2>4, <2>6 DEF s1
<1>6. /\ u.root = t.root /\ Heap(u) = H /\ Ents(u, p) = ents /\ Kids(u, p) = kids
      /\ \A n \in H : Leaf(u, n) = Leaf(t, n) /\ Parent(u, n) = Parent(t, n)
      /\ \A n \in H \ {p} : Ents(u, n) = Ents(t, n) /\ Kids(u, n) = Kids(t, n)
  BY FillFacts DEF Grafted
<1> HIDE DEF ents, kids
<1>7. /\ KeyCount(u, p) = KeyCount(t, p) + 1
      /\ \A i \in 1..(KeyCount(t, p) + 1) :
            EntAt(u, p, i) = IF i < s THEN EntAt(t, p, i)
                             ELSE IF i = s THEN e ELSE EntAt(t, p, i - 1)
  BY <1>3, <1>6 DEF KeyCount, EntAt
<1>8. Leaf(t, p) => KidCount(u, p) = 0 /\ Kids(u, p) = <<>>
  BY <1>4, <1>6 DEF KidCount
<1>9. ~Leaf(t, p) =>
        /\ KidCount(u, p) = KidCount(t, p) + 1
        /\ \A i \in 1..(KidCount(t, p) + 1) :
            Kid(u, p, i) = IF i < s + 1 THEN Kid(t, p, i)
                           ELSE IF i = s + 1 THEN incoming ELSE Kid(t, p, i - 1)
  BY <1>5, <1>6 DEF KidCount, Kid
<1>10. Typed(u)
  <2>1. kids \in Seq(H)
    <3>1. <<>> \in Seq(H)
      OBVIOUS
    <3>2. CASE Leaf(t, p)
      BY <1>4, <3>1, <3>2
    <3>3. CASE ~Leaf(t, p)
      BY <1>5, <3>3
    <3>4. QED
      BY <3>2, <3>3
  <2>2. \A n \in H : Ents(u, n) \in Seq(Entry) /\ Kids(u, n) \in Seq(H)
    BY <1>3, <1>6, <2>1, TypedFacts
  <2>3. QED
    BY <1>6, <2>2 DEF Typed
<1>11. QED
  BY <1>2, <1>6, <1>7, <1>8, <1>9, <1>10

\* What split_node does, told by the node that would be too full.
LEMMA SplitNodeFacts ==
    ASSUME NEW t, Typed(t), NEW p \in Heap(t), NEW e, NEW incoming,
           NEW u, u = Grafted(t, p, e, incoming), Typed(u), Heap(u) = Heap(t),
           KeyCount(u, p) = MaxKeys + 1,
           KidCount(u, p) = IF Leaf(t, p) THEN 0 ELSE MaxKeys + 2,
           NEW r \in Nat \ {0}, r \notin Heap(t), NEW v, v = SplitNode(t, p, r, e, incoming)
    PROVE  /\ v.root = t.root /\ Heap(v) = Heap(t) \cup {r}
           /\ \A n \in Heap(t) : Leaf(v, n) = Leaf(t, n)
           /\ Leaf(v, r) = Leaf(t, p) /\ Parent(v, r) = Parent(t, p)
           /\ \A n \in Heap(t) :
                Parent(v, n) = IF \E i \in (LeftCount + 2)..KidCount(u, p) : Kid(u, p, i) = n
                               THEN r ELSE Parent(t, n)
           /\ \A n \in Heap(t) \ {p} : Ents(v, n) = Ents(t, n) /\ Kids(v, n) = Kids(t, n)
           /\ Ents(v, p) \in Seq(Entry) /\ KeyCount(v, p) = LeftCount
           /\ \A i \in 1..LeftCount : EntAt(v, p, i) = EntAt(u, p, i)
           /\ KidCount(v, p) = IF Leaf(t, p) THEN 0 ELSE LeftCount + 1
           /\ \A i \in 1..(LeftCount + 1) : ~Leaf(t, p) => Kid(v, p, i) = Kid(u, p, i)
           /\ Ents(v, r) \in Seq(Entry) /\ KeyCount(v, r) = MaxKeys - LeftCount
           /\ \A i \in 1..(MaxKeys - LeftCount) : EntAt(v, r, i) = EntAt(u, p, i + LeftCount + 1)
           /\ KidCount(v, r) = IF Leaf(t, p) THEN 0 ELSE MaxKeys - LeftCount + 1
           /\ \A i \in 1..(MaxKeys - LeftCount + 1) :
                ~Leaf(t, p) => Kid(v, r, i) = Kid(u, p, i + LeftCount + 1)
           /\ Typed(v)
<1> DEFINE H == Heap(t)
           ents == Ents(u, p)
           kids == Kids(u, p)
           KidsOf(from, to) == IF Leaf(t, p) THEN <<>> ELSE SubSeq(kids, from, to)
           ents1 == SubSeq(ents, 1, LeftCount)
           ents2 == SubSeq(ents, LeftCount + 2, MaxKeys + 1)
           kids1 == KidsOf(1, LeftCount + 1)
           kids2 == KidsOf(LeftCount + 2, MaxKeys + 2)
           left == Fill(t, p, ents1, kids1)
           both == Put(left, r, NewNode(Leaf(t, p), ents2, kids2, Parent(t, p)))
<1>1. ents = MoreEnts(t, p, e) /\ kids = MoreKids(t, p, e, incoming)
  BY FillFacts DEF Grafted
<1>2. v = Adopt(both, r, kids2)
  BY <1>1 DEF SplitNode
<1>3. /\ LeftCount \in Nat /\ MaxKeys \in Nat /\ 1 =< LeftCount /\ LeftCount + 1 =< MaxKeys
  BY Sizes
<1>4. ents \in Seq(Entry) /\ Len(ents) = MaxKeys + 1 /\ kids \in Seq(H)
      /\ (~Leaf(t, p) => Len(kids) = MaxKeys + 2)
  BY TypedFacts DEF KeyCount, KidCount
<1> HIDE DEF ents, kids
<1>5. /\ ents1 \in Seq(Entry) /\ Len(ents1) = LeftCount
      /\ \A i \in 1..LeftCount : ents1[i] = ents[i]
  <2>1. /\ SubSeq(ents, 1, LeftCount) \in Seq(Entry)
        /\ Len(SubSeq(ents, 1, LeftCount)) = LeftCount - 1 + 1
        /\ \A x \in 1..(LeftCount - 1 + 1) : SubSeq(ents, 1, LeftCount)[x] = ents[1 + x - 1]
    BY <1>3, <1>4, SubSeqFacts
  <2>2. LeftCount - 1 + 1 = LeftCount /\ \A x \in 1..LeftCount : 1 + x - 1 = x
    BY <1>3
  <2>3. QED
    BY <2>1, <2>2
<1>6. /\ ents2 \in Seq(Entry) /\ Len(ents2) = MaxKeys - LeftCount
      /\ \A i \in 1..(MaxKeys - LeftCount) : ents2[i] = ents[i + LeftCount + 1]
  <2> DEFINE from == LeftCount + 2
             to == MaxKeys + 1
  <2>1. from \in Nat /\ to \in Nat /\ 1 =< from /\ from =< to + 1 /\ to =< Len(ents)
    BY <1>3, <1>4
  <2>2. to - from + 1 = MaxKeys - LeftCount
        /\ \A x \in 1..(MaxKeys - LeftCount) : from + x - 1 = x + LeftCount + 1
    BY <1>3
  <2>3. ents2 = SubSeq(ents, from, to)
    OBVIOUS
  <2> HIDE DEF from, to, ents2
  <2>4. /\ ents2 \in Seq(Entry) /\ Len(ents2) = to - from + 1
        /\ \A x \in 1..(to - from + 1) : ents2[x] = ents[from + x - 1]
    BY <1>4, <2>1, <2>3, SubSeqFacts
  <2>5. QED
    BY <2>2, <2>4
<1>7. /\ kids1 \in Seq(H) /\ Len(kids1) = IF Leaf(t, p) THEN 0 ELSE LeftCount + 1
      /\ \A i \in 1..(LeftCount + 1) : ~Leaf(t, p) => kids1[i] = kids[i]
  <2>1. CASE Leaf(t, p)
    BY <2>1
  <2>2. CASE ~Leaf(t, p)
    <3> DEFINE to == LeftCount + 1
    <3>1. to \in Nat /\ 1 =< to + 1 /\ to =< Len(kids) /\ to - 1 + 1 = to
      BY <1>3, <1>4, <2>2
    <3>2. kids1 = SubSeq(kids, 1, to)
      BY <2>2
    <3> HIDE DEF to, kids1
    <3>3. /\ kids1 \in Seq(H) /\ Len(kids1) = to - 1 + 1
          /\ \A x \in 1..(to - 1 + 1) : kids1[x] = kids[1 + x - 1]
      BY <1>4, <3>1, <3>2, SubSeqFacts
    <3>4. \A x \in 1..to : 1 + x - 1 = x
      BY <3>1
    <3>5. /\ kids1 \in Seq(H) /\ Len(kids1) = to
          /\ \A x \in 1..to : kids1[x] = kids[x]
      BY <3>1, <3>3, <3>4
    <3>6. QED
      BY <2>2, <3>5 DEF to
  <2>3. QED
    BY <2>1, <2>2
<1>8. /\ kids2 \in Seq(H) /\ Len(kids2) = IF Leaf(t, p) THEN 0 ELSE MaxKeys - LeftCount + 1
      /\ \A i \in 1..(MaxKeys - LeftCount + 1) :
            ~Leaf(t, p) => kids2[i] = kids[i + LeftCount + 1]
  <2>1. CASE Leaf(t, p)
    BY <2>1
  <2>2. CASE ~Leaf(t, p)
    <3> DEFINE from == LeftCount + 2
               to == MaxKeys + 2
    <3>1. from \in Nat /\ to \in Nat /\ 1 =< from /\ from =< to + 1 /\ to =< Len(kids)
      BY <1>3, <1>4, <2>2
    <3>2. to - from + 1 = MaxKeys - LeftCount + 1
          /\ \A x \in 1..(MaxKeys - LeftCount + 1) : from + x - 1 = x + LeftCount + 1
      BY <1>3
    <3>3. kids2 = SubSeq(kids, from, to)
      BY <2>2
    <3> HIDE DEF from, to, kids2
    <3>4. /\ kids2 \in Seq(H) /\ Len(kids2) = to - from + 1
          /\ \A x \in 1..(to - from + 1) : kids2[x] = kids[from + x - 1]
      BY <1>4, <3>1, <3>3, SubSeqFacts
    <3>5. QED
      BY <2>2, <3>2, <3>4
  <2>3. QED
    BY <2>1, <2>2
<1> HIDE DEF ents1, ents2, kids1, kids2
<1>9. /\ left.root = t.root /\ Heap(left) = H /\ Ents(left, p) = ents1 /\ Kids(left, p) = kids1
      /\ \A n \in H : Leaf(left, n) = Leaf(t, n) /\ Parent(left, n) = Parent(t, n)
      /\ \A n \in H \ {p} : Ents(left, n) = Ents(t, n) /\ Kids(left, n) = Kids(t, n)
  BY FillFacts
<1> HIDE DEF left
<1>10. /\ both.root = left.root /\ Heap(both) = Heap(left) \cup {r}
       /\ Leaf(both, r) = Leaf(t, p) /\ Ents(both, r) = ents2 /\ Kids(both, r) = kids2
       /\ Parent(both, r) = Parent(t, p)
       /\ \A n \in Heap(left) \ {r} :
            /\ Leaf(both, n) = Leaf(left, n) /\ Ents(both, n) = Ents(left, n)
            /\ Kids(both, n) = Kids(left, n) /\ Parent(both, n) = Parent(left, n)
  BY PutFacts
<1> HIDE DEF both
<1>11. /\ both.root = t.root /\ Heap(both) = H \cup {r} /\ Null \notin Heap(both)
       /\ Ents(both, p) = ents1 /\ Kids(both, p) = kids1
       /\ \A n \in H : Leaf(both, n) = Leaf(t, n) /\ Parent(both, n) = Parent(t, n)
       /\ \A n \in H \ {p} : Ents(both, n) = Ents(t, n) /\ Kids(both, n) = Kids(t, n)
       /\ p # r
  <2>1. Null \notin H \cup {r}
    BY DEF Typed, Null
  <2>2. \A n \in H : n \in Heap(left) \ {r}
    BY <1>9
  <2>3. QED
    BY <1>9, <1>10, <2>1, <2>2
<1>12. kids2 \in Seq(Heap(both))
  BY <1>8, <1>11
<1>13. /\ v.root = both.root /\ Heap(v) = Heap(both)
       /\ \A n \in Heap(both) :
            /\ Leaf(v, n) = Leaf(both, n) /\ Ents(v, n) = Ents(both, n)
            /\ Kids(v, n) = Kids(both, n)
            /\ Parent(v, n) = IF \E i \in 1..Len(kids2) : kids2[i] = n THEN r
                              ELSE Parent(both, n)
  BY <1>2, <1>11, <1>12, AdoptFacts
<1>14. \A n : (\E i \in 1..Len(kids2) : kids2[i] = n) <=>
              (\E i \in (LeftCount + 2)..KidCount(u, p) : Kid(u, p, i) = n)
  <2>1. TAKE n
  <2>2. CASE Leaf(t, p)
    <3>1. Len(kids2) = 0 /\ KidCount(u, p) = 0
      BY <1>8, <2>2
    <3>2. QED
      BY <1>3, <3>1
  <2>3. CASE ~Leaf(t, p)
    <3>1. Len(kids2) = MaxKeys - LeftCount + 1 /\ KidCount(u, p) = MaxKeys + 2
      BY <1>8, <2>3
    <3>2. \A i \in 1..Len(kids2) :
            /\ i + LeftCount + 1 \in (LeftCount + 2)..KidCount(u, p)
            /\ kids2[i] = Kid(u, p, i + LeftCount + 1)
      BY <1>3, <1>8, <2>3, <3>1 DEF kids, Kid
    <3>3. ASSUME NEW i \in (LeftCount + 2)..KidCount(u, p)
          PROVE  i - LeftCount - 1 \in 1..Len(kids2) /\ kids2[i - LeftCount - 1] = Kid(u, p, i)
      <4>1. i - LeftCount - 1 \in 1..Len(kids2) /\ (i - LeftCount - 1) + LeftCount + 1 = i
        BY <1>3, <3>1
      <4>2. QED
        BY <3>2, <4>1
    <3>4. QED
      BY <3>2, <3>3
  <2>4. QED
    BY <2>2, <2>3
<1>16. Parent(v, r) = Parent(t, p)
  <2>1. ~ \E i \in 1..Len(kids2) : kids2[i] = r
    BY <1>8
  <2>2. r \in Heap(both)
    BY <1>11
  <2>3. QED
    BY <1>10, <1>13, <2>1, <2>2
<1>17. \A n \in H : Parent(v, n) = IF \E i \in (LeftCount + 2)..KidCount(u, p) : Kid(u, p, i) = n
                                   THEN r ELSE Parent(t, n)
  BY <1>11, <1>13, <1>14
<1>18. /\ v.root = t.root /\ Heap(v) = H \cup {r}
       /\ Ents(v, p) = ents1 /\ Kids(v, p) = kids1 /\ Ents(v, r) = ents2 /\ Kids(v, r) = kids2
       /\ \A n \in H : Leaf(v, n) = Leaf(t, n)
       /\ Leaf(v, r) = Leaf(t, p)
       /\ \A n \in H \ {p} : Ents(v, n) = Ents(t, n) /\ Kids(v, n) = Kids(t, n)
  BY <1>10, <1>11, <1>13
<1>19. /\ Ents(v, p) \in Seq(Entry) /\ KeyCount(v, p) = LeftCount
       /\ \A i \in 1..LeftCount : EntAt(v, p, i) = EntAt(u, p, i)
       /\ KidCount(v, p) = IF Leaf(t, p) THEN 0 ELSE LeftCount + 1
       /\ \A i \in 1..(LeftCount + 1) : ~Leaf(t, p) => Kid(v, p, i) = Kid(u, p, i)
  BY <1>5, <1>7, <1>18 DEF KeyCount, EntAt, KidCount, Kid, ents, kids
<1>20. /\ Ents(v, r) \in Seq(Entry) /\ KeyCount(v, r) = MaxKeys - LeftCount
       /\ \A i \in 1..(MaxKeys - LeftCount) : EntAt(v, r, i) = EntAt(u, p, i + LeftCount + 1)
       /\ KidCount(v, r) = IF Leaf(t, p) THEN 0 ELSE MaxKeys - LeftCount + 1
       /\ \A i \in 1..(MaxKeys - LeftCount + 1) :
            ~Leaf(t, p) => Kid(v, r, i) = Kid(u, p, i + LeftCount + 1)
  BY <1>6, <1>8, <1>18 DEF KeyCount, EntAt, KidCount, Kid, ents, kids
<1>21. Typed(v)
  <2>1. IsFiniteSet(Heap(v)) /\ Heap(v) \subseteq Nat \ {0} /\ v.root \in Heap(v)
    <3>1. IsFiniteSet(H) /\ H \subseteq Nat \ {0} /\ t.root \in H
      BY DEF Typed
    <3>2. IsFiniteSet(H \cup {r})
      BY <3>1, FS_AddElement
    <3>3. QED
      BY <1>18, <3>1, <3>2
  <2>2. ASSUME NEW n \in H
        PROVE  /\ Leaf(v, n) \in BOOLEAN /\ Ents(v, n) \in Seq(Entry)
               /\ Kids(v, n) \in Seq(H) /\ Parent(v, n) \in Nat
    <3>1. Parent(t, n) \in Nat /\ r \in Nat
      BY TypedFacts
    <3>2. Parent(v, n) = r \/ Parent(v, n) = Parent(t, n)
      BY <1>17
    <3>3. Parent(v, n) \in Nat
      BY <3>1, <3>2
    <3>4. Leaf(v, n) \in BOOLEAN
      BY <1>18, TypedFacts
    <3>5. Ents(v, n) \in Seq(Entry) /\ Kids(v, n) \in Seq(H)
      BY <1>5, <1>7, <1>18, TypedFacts
    <3>6. QED
      BY <3>3, <3>4, <3>5
  <2>3. /\ Leaf(v, r) \in BOOLEAN /\ Ents(v, r) \in Seq(Entry)
        /\ Kids(v, r) \in Seq(H) /\ Parent(v, r) \in Nat
    BY <1>6, <1>8, <1>16, <1>18, TypedFacts
  <2>4. \A n \in Heap(v) :
               /\ Leaf(v, n) \in BOOLEAN /\ Ents(v, n) \in Seq(Entry)
               /\ Kids(v, n) \in Seq(H) /\ Parent(v, n) \in Nat
    BY <1>18, <2>2, <2>3
  <2>5. \A n \in Heap(v) : Kids(v, n) \in Seq(Heap(v))
    <3>1. TAKE n \in Heap(v)
    <3>2. Kids(v, n) \in Seq(H) /\ H \subseteq Heap(v)
      BY <1>18, <2>4
    <3>3. \A i \in 1..Len(Kids(v, n)) : Kids(v, n)[i] \in Heap(v)
      BY <3>2
    <3>4. QED
      BY <3>2, <3>3, SeqWithin
  <2>6. QED
    BY <2>1, <2>4, <2>5 DEF Typed
<1>22. QED
  BY <1>16, <1>17, <1>18, <1>19, <1>20, <1>21

\* No node has too many or too few entries.
Sized(t) ==
    \A n \in Heap(t) :
        /\ KeyCount(t, n) =< MaxKeys
        /\ n # t.root => MinKeys =< KeyCount(t, n)
        /\ ~Leaf(t, n) => 1 =< KeyCount(t, n)

\* A tree that is in order, with no node too full or too empty.
Good(t) == Sized(t) /\ \E level, span : Formed(t, level, span)

\* A tree is not undefined behaviour, and has no node at NULL.
LEMMA NotWreck ==
    ASSUME NEW t, Typed(t)
    PROVE  t # Wreck /\ t.root # Null /\ Null \notin Heap(t)
<1>1. t.root \in Nat \ {0} /\ Heap(t) \subseteq Nat \ {0}
  BY DEF Typed
<1>2. QED
  BY <1>1 DEF Wreck, Null

\* What insert_into_leaf and insert_into_node make of a node that is not full.
LEMMA RaiseDone ==
    ASSUME NEW t, Typed(t), Sized(t), NEW p \in Heap(t), NEW e \in Entry, NEW incoming,
           ~Leaf(t, p) => KidCount(t, p) = KeyCount(t, p) + 1 /\ incoming \in Heap(t),
           NEW level, NEW span, Formed(Grafted(t, p, e, incoming), level, span),
           KeyCount(t, p) < MaxKeys,
           NEW w, w = Adopt(Grafted(t, p, e, incoming), p,
                            IF Leaf(t, p) THEN <<>> ELSE <<incoming>>)
    PROVE  Good(w) /\ Held(w) = Held(Grafted(t, p, e, incoming))
<1> DEFINE g == Grafted(t, p, e, incoming)
           s == Slot(Ents(t, p), e.key)
<1>1. /\ g.root = t.root /\ Heap(g) = Heap(t)
      /\ \A n \in Heap(t) : Leaf(g, n) = Leaf(t, n) /\ Parent(g, n) = Parent(t, n)
      /\ \A n \in Heap(t) \ {p} : Ents(g, n) = Ents(t, n)
      /\ s \in 1..(KeyCount(t, p) + 1)
      /\ KeyCount(g, p) = KeyCount(t, p) + 1
      /\ ~Leaf(t, p) => KidCount(g, p) = KidCount(t, p) + 1
      /\ ~Leaf(t, p) => \A i \in 1..(KidCount(t, p) + 1) :
                Kid(g, p, i) = IF i < s + 1 THEN Kid(t, p, i)
                               ELSE IF i = s + 1 THEN incoming ELSE Kid(t, p, i - 1)
  BY GraftFacts
<1>2. Formed(g, level, span) /\ Typed(g) /\ Linked(g, level)
  BY DEF Formed
<1>3. Null \notin Heap(g)
  BY <1>2, NotWreck
<1>4. KeyCount(t, p) \in Nat /\ MaxKeys \in Nat
  BY TypedFacts, Sizes
<1> HIDE DEF g, s
<1>5. Alike(g, w)
  <2>1. CASE Leaf(t, p)
    <3>1. w = Adopt(g, p, <<>>)
      BY <2>1 DEF g
    <3>2. QED
      BY <3>1, AdoptNone DEF Alike
  <2>2. CASE ~Leaf(t, p)
    <3> DEFINE kids == <<incoming>>
    <3>1. w = Adopt(g, p, kids)
      BY <2>2 DEF g
    <3>2. kids \in Seq(Heap(g)) /\ Len(kids) = 1 /\ kids[1] = incoming
      BY <1>1, <2>2
    <3> HIDE DEF kids
    <3>3. /\ w.root = g.root /\ Heap(w) = Heap(g)
          /\ \A n \in Heap(g) :
                /\ Leaf(w, n) = Leaf(g, n) /\ Ents(w, n) = Ents(g, n)
                /\ Kids(w, n) = Kids(g, n)
                /\ Parent(w, n) = IF \E i \in 1..Len(kids) : kids[i] = n THEN p
                                  ELSE Parent(g, n)
      BY <1>3, <3>1, <3>2, AdoptFacts
    <3>4. s + 1 \in 1..KidCount(g, p) /\ s + 1 \in 1..(KidCount(t, p) + 1)
      BY <1>1, <1>4, <2>2
    <3>5. Kid(g, p, s + 1) = incoming
      BY <1>1, <2>2, <3>4
    <3>6. Parent(g, incoming) = p
      BY <1>1, <1>2, <3>4, <3>5 DEF Linked
    <3>7. \A n \in Heap(g) : Parent(w, n) = Parent(g, n)
      BY <3>2, <3>3, <3>6
    <3>8. QED
      BY <3>3, <3>7 DEF Alike
  <2>3. QED
    BY <2>1, <2>2
<1>6. Formed(w, level, span) /\ Held(w) = Held(g)
  BY <1>2, <1>5, AlikeFormed
<1>7. Sized(w)
  <2>1. ASSUME NEW n \in Heap(w)
        PROVE  /\ KeyCount(w, n) =< MaxKeys
               /\ n # w.root => MinKeys =< KeyCount(w, n)
               /\ ~Leaf(w, n) => 1 =< KeyCount(w, n)
    <3>1. /\ n \in Heap(t) /\ w.root = t.root /\ Leaf(w, n) = Leaf(t, n)
          /\ Ents(w, n) = Ents(g, n)
      BY <1>1, <1>5, <2>1 DEF Alike
    <3>2. KeyCount(w, n) = KeyCount(g, n)
      BY <3>1, SameEnts
    <3>3. /\ KeyCount(t, n) =< MaxKeys
          /\ n # t.root => MinKeys =< KeyCount(t, n)
          /\ ~Leaf(t, n) => 1 =< KeyCount(t, n)
      BY <3>1 DEF Sized
    <3>4. CASE n = p
      BY <1>1, <1>4, <3>1, <3>2, <3>3, <3>4, Sizes
    <3>5. CASE n # p
      <4>1. KeyCount(g, n) = KeyCount(t, n)
        BY <1>1, <3>1, <3>5, SameEnts
      <4>2. QED
        BY <3>1, <3>2, <3>3, <4>1
    <3>6. QED
      BY <3>4, <3>5
  <2>2. QED
    BY <2>1 DEF Sized
<1>8. QED
  BY <1>6, <1>7 DEF Good, g

\* A full node to which an entry and a child are to be added, g, and the two that
\* split_node makes of it, v.
Full(t, p, e, incoming, g, level, span) ==
    /\ Typed(t) /\ Sized(t) /\ p \in Heap(t) /\ e \in Entry
    /\ ~Leaf(t, p) => KidCount(t, p) = KeyCount(t, p) + 1 /\ incoming \in Heap(t)
    /\ g = Grafted(t, p, e, incoming)
    /\ Formed(g, level, span)
    /\ KeyCount(t, p) = MaxKeys

\* What split_node makes of a full node.
LEMMA FullFacts ==
    ASSUME NEW t, NEW p, NEW e, NEW incoming, NEW g, NEW level, NEW span,
           Full(t, p, e, incoming, g, level, span),
           NEW r \in Nat \ {0}, r \notin Heap(t), NEW v, v = SplitNode(t, p, r, e, incoming)
    PROVE  /\ Typed(g) /\ g.root = t.root /\ Heap(g) = Heap(t)
           /\ \A n \in Heap(t) : Leaf(g, n) = Leaf(t, n) /\ Parent(g, n) = Parent(t, n)
           /\ \A n \in Heap(t) \ {p} : Ents(g, n) = Ents(t, n) /\ Kids(g, n) = Kids(t, n)
           /\ KeyCount(g, p) = MaxKeys + 1
           /\ KidCount(g, p) = IF Leaf(t, p) THEN 0 ELSE MaxKeys + 2
           /\ MoreEnts(t, p, e)[LeftCount + 1] = EntAt(g, p, LeftCount + 1)
           /\ v.root = t.root /\ Heap(v) = Heap(t) \cup {r}
           /\ \A n \in Heap(t) : Leaf(v, n) = Leaf(t, n)
           /\ Leaf(v, r) = Leaf(t, p) /\ Parent(v, r) = Parent(t, p)
           /\ \A n \in Heap(t) :
                Parent(v, n) = IF \E i \in (LeftCount + 2)..KidCount(g, p) : Kid(g, p, i) = n
                               THEN r ELSE Parent(t, n)
           /\ \A n \in Heap(t) \ {p} : Ents(v, n) = Ents(t, n) /\ Kids(v, n) = Kids(t, n)
           /\ KeyCount(v, p) = LeftCount
           /\ \A i \in 1..LeftCount : EntAt(v, p, i) = EntAt(g, p, i)
           /\ KidCount(v, p) = IF Leaf(t, p) THEN 0 ELSE LeftCount + 1
           /\ \A i \in 1..(LeftCount + 1) : ~Leaf(t, p) => Kid(v, p, i) = Kid(g, p, i)
           /\ KeyCount(v, r) = MaxKeys - LeftCount
           /\ \A i \in 1..(MaxKeys - LeftCount) : EntAt(v, r, i) = EntAt(g, p, i + LeftCount + 1)
           /\ KidCount(v, r) = IF Leaf(t, p) THEN 0 ELSE MaxKeys - LeftCount + 1
           /\ \A i \in 1..(MaxKeys - LeftCount + 1) :
                ~Leaf(t, p) => Kid(v, r, i) = Kid(g, p, i + LeftCount + 1)
           /\ Typed(v)
           /\ Sized(v)
<1>1. /\ Typed(t) /\ Sized(t) /\ p \in Heap(t) /\ e \in Entry
      /\ ~Leaf(t, p) => KidCount(t, p) = KeyCount(t, p) + 1 /\ incoming \in Heap(t)
      /\ g = Grafted(t, p, e, incoming)
      /\ Formed(g, level, span)
      /\ KeyCount(t, p) = MaxKeys
  BY DEF Full
<1>2. /\ Typed(g) /\ g.root = t.root /\ Heap(g) = Heap(t)
      /\ \A n \in Heap(t) : Leaf(g, n) = Leaf(t, n) /\ Parent(g, n) = Parent(t, n)
      /\ \A n \in Heap(t) \ {p} : Ents(g, n) = Ents(t, n) /\ Kids(g, n) = Kids(t, n)
      /\ KeyCount(g, p) = MaxKeys + 1
  BY <1>1, GraftFacts
<1>3. KidCount(g, p) = IF Leaf(t, p) THEN 0 ELSE MaxKeys + 2
  <2>1. Leaf(t, p) => KidCount(g, p) = 0
    BY <1>1, GraftFacts
  <2>2. ~Leaf(t, p) => KidCount(g, p) = KidCount(t, p) + 1
    BY <1>1, GraftFacts
  <2>3. QED
    BY <1>1, <2>1, <2>2, Sizes
<1>4. MoreEnts(t, p, e)[LeftCount + 1] = EntAt(g, p, LeftCount + 1)
  <2>1. Ents(g, p) = MoreEnts(t, p, e)
    BY <1>1, FillFacts DEF Grafted
  <2>2. QED
    BY <2>1 DEF EntAt
<1>5. /\ v.root = t.root /\ Heap(v) = Heap(t) \cup {r}
      /\ \A n \in Heap(t) : Leaf(v, n) = Leaf(t, n)
      /\ Leaf(v, r) = Leaf(t, p) /\ Parent(v, r) = Parent(t, p)
      /\ \A n \in Heap(t) :
                Parent(v, n) = IF \E i \in (LeftCount + 2)..KidCount(g, p) : Kid(g, p, i) = n
                               THEN r ELSE Parent(t, n)
      /\ \A n \in Heap(t) \ {p} : Ents(v, n) = Ents(t, n) /\ Kids(v, n) = Kids(t, n)
      /\ KeyCount(v, p) = LeftCount
      /\ \A i \in 1..LeftCount : EntAt(v, p, i) = EntAt(g, p, i)
      /\ KidCount(v, p) = IF Leaf(t, p) THEN 0 ELSE LeftCount + 1
      /\ \A i \in 1..(LeftCount + 1) : ~Leaf(t, p) => Kid(v, p, i) = Kid(g, p, i)
      /\ KeyCount(v, r) = MaxKeys - LeftCount
      /\ \A i \in 1..(MaxKeys - LeftCount) : EntAt(v, r, i) = EntAt(g, p, i + LeftCount + 1)
      /\ KidCount(v, r) = IF Leaf(t, p) THEN 0 ELSE MaxKeys - LeftCount + 1
      /\ \A i \in 1..(MaxKeys - LeftCount + 1) :
                ~Leaf(t, p) => Kid(v, r, i) = Kid(g, p, i + LeftCount + 1)
      /\ Typed(v)
  BY <1>1, <1>2, <1>3, SplitNodeFacts
<1>6. Sized(v)
  <2>1. ASSUME NEW n \in Heap(v)
        PROVE  /\ KeyCount(v, n) =< MaxKeys
               /\ n # v.root => MinKeys =< KeyCount(v, n)
               /\ ~Leaf(v, n) => 1 =< KeyCount(v, n)
    <3>5. KeyCount(v, p) = LeftCount /\ KeyCount(v, r) = MaxKeys - LeftCount
      BY <1>5
    <3>1. CASE n = p
      BY <3>1, <3>5, Sizes
    <3>2. CASE n = r
      BY <3>2, <3>5, Sizes
    <3>3. CASE n # p /\ n # r
      <4>1. n \in Heap(t) \ {p}
        BY <1>5, <2>1, <3>3
      <4>5. Ents(v, n) = Ents(t, n) /\ Leaf(v, n) = Leaf(t, n)
        BY <1>5, <4>1
      <4>2. KeyCount(v, n) = KeyCount(t, n) /\ Leaf(v, n) = Leaf(t, n)
        BY <4>5, SameEnts
      <4>3. /\ KeyCount(t, n) =< MaxKeys
            /\ n # t.root => MinKeys =< KeyCount(t, n)
            /\ ~Leaf(t, n) => 1 =< KeyCount(t, n)
        BY <1>1, <4>1 DEF Sized
      <4>4. QED
        BY <1>5, <4>2, <4>3
    <3>4. QED
      BY <3>1, <3>2, <3>3
  <2>2. QED
    BY <2>1 DEF Sized
<1>7. QED
  BY <1>2, <1>3, <1>4, <1>5, <1>6

\* A full node that is a child is split, and its parent is to have the middle entry.
LEMMA RaiseSplit ==
    ASSUME NEW t, NEW p, NEW e, NEW incoming, NEW g, NEW level, NEW span,
           Full(t, p, e, incoming, g, level, span),
           NEW r \in Nat \ {0}, r \notin Heap(t), NEW v, v = SplitNode(t, p, r, e, incoming),
           NEW q, q = Parent(t, p), q # Null,
           NEW mid, mid = EntAt(g, p, LeftCount + 1)
    PROVE  /\ Typed(v) /\ Sized(v) /\ q \in Heap(v) /\ r \in Heap(v) /\ mid \in Entry
           /\ ~Leaf(v, q) /\ KidCount(v, q) = KeyCount(v, q) + 1
           /\ v.root = t.root
           /\ Held(Grafted(v, q, mid, r)) = Held(g)
           /\ \E level2, span2 :
                /\ Formed(Grafted(v, q, mid, r), level2, span2)
                /\ level2[q] = level[p] + 1 /\ level2[v.root] = level[t.root]
<1> DEFINE w == Grafted(v, q, mid, r)
           m == LeftCount + 1
<1>1. /\ Typed(t) /\ Sized(t) /\ p \in Heap(t) /\ Formed(g, level, span)
      /\ KeyCount(t, p) = MaxKeys
  BY DEF Full
<1>2. /\ Typed(g) /\ g.root = t.root /\ Heap(g) = Heap(t)
      /\ \A n \in Heap(t) : Leaf(g, n) = Leaf(t, n) /\ Parent(g, n) = Parent(t, n)
      /\ \A n \in Heap(t) \ {p} : Ents(g, n) = Ents(t, n) /\ Kids(g, n) = Kids(t, n)
      /\ KeyCount(g, p) = MaxKeys + 1
      /\ KidCount(g, p) = IF Leaf(t, p) THEN 0 ELSE MaxKeys + 2
  BY FullFacts
<1>3. /\ v.root = t.root /\ Heap(v) = Heap(t) \cup {r}
      /\ \A n \in Heap(t) : Leaf(v, n) = Leaf(t, n)
      /\ Leaf(v, r) = Leaf(t, p) /\ Parent(v, r) = Parent(t, p)
      /\ \A n \in Heap(t) :
                Parent(v, n) = IF \E i \in (LeftCount + 2)..KidCount(g, p) : Kid(g, p, i) = n
                               THEN r ELSE Parent(t, n)
      /\ \A n \in Heap(t) \ {p} : Ents(v, n) = Ents(t, n) /\ Kids(v, n) = Kids(t, n)
      /\ KeyCount(v, p) = LeftCount
      /\ \A i \in 1..LeftCount : EntAt(v, p, i) = EntAt(g, p, i)
      /\ KidCount(v, p) = IF Leaf(t, p) THEN 0 ELSE LeftCount + 1
      /\ \A i \in 1..(LeftCount + 1) : ~Leaf(t, p) => Kid(v, p, i) = Kid(g, p, i)
      /\ KeyCount(v, r) = MaxKeys - LeftCount
      /\ \A i \in 1..(MaxKeys - LeftCount) : EntAt(v, r, i) = EntAt(g, p, i + LeftCount + 1)
      /\ KidCount(v, r) = IF Leaf(t, p) THEN 0 ELSE MaxKeys - LeftCount + 1
      /\ \A i \in 1..(MaxKeys - LeftCount + 1) :
                ~Leaf(t, p) => Kid(v, r, i) = Kid(g, p, i + LeftCount + 1)
      /\ Typed(v) /\ Sized(v)
  BY FullFacts
<1>4. m \in 1..KeyCount(g, p) /\ m \in Nat /\ LeftCount \in Nat /\ MaxKeys \in Nat
  BY <1>2, Sizes
<1>5. /\ mid \in Entry /\ mid.key = KeyAt(g, p, m) /\ mid.key \in Key
  BY <1>1, <1>2, <1>4, TypedFacts, EntKey
<1>6. p # t.root /\ Parent(g, p) = q
  <2>1. Parent(g, p) = q
    BY <1>1, <1>2
  <2>2. Parent(g, g.root) = Null
    BY <1>1 DEF Formed, Linked
  <2>3. QED
    BY <1>2, <2>1, <2>2
<1>7. q \in Heap(g) /\ \E j \in 1..KidCount(g, q) : Kid(g, q, j) = p
  BY <1>1, <1>2, <1>6 DEF Formed, Linked
<1>8. PICK j \in 1..KidCount(g, q) : p = Kid(g, q, j)
  BY <1>7
<1>9. /\ p # q /\ ~Leaf(g, q) /\ level[p] = level[q] - 1 /\ level[p] \in Nat /\ level[q] \in Nat
      /\ KidCount(g, q) = KeyCount(g, q) + 1
      /\ \A x \in Key : x \in span[p] <=> x \in span[q] /\ Between(g, q, j, x)
  BY <1>1, <1>7, <1>8, SplitPlace
<1>10. Ents(v, q) = Ents(g, q) /\ Kids(v, q) = Kids(g, q) /\ q \in Heap(t) /\ r # p /\ r # q
  BY <1>1, <1>2, <1>3, <1>7, <1>9
<1>11. /\ KeyCount(v, q) = KeyCount(g, q) /\ KidCount(v, q) = KidCount(g, q)
       /\ \A i : EntAt(v, q, i) = EntAt(g, q, i) /\ Kid(v, q, i) = Kid(g, q, i)
  BY <1>10, SameEnts, SameKids
<1>12. Slot(Ents(v, q), mid.key) = j
  <2>1. mid.key \in span[p]
    BY <1>1, <1>2, <1>4, <1>5, KeyFacts DEF Formed
  <2>2. Between(g, q, j, mid.key)
    BY <1>5, <1>9, <2>1
  <2>3. j \in 1..(KeyCount(g, q) + 1)
    BY <1>9
  <2>4. Slot(Ents(g, q), mid.key) = j
    BY <1>1, <1>5, <1>7, <2>2, <2>3, SortedSlot DEF Formed
  <2>5. QED
    BY <1>10, <2>4
<1>13. /\ q \in Heap(v) /\ r \in Heap(v) /\ ~Leaf(v, q) /\ KidCount(v, q) = KeyCount(v, q) + 1
  BY <1>2, <1>3, <1>9, <1>10, <1>11
<1>14. /\ Typed(w)
       /\ w.root = v.root /\ Heap(w) = Heap(v)
       /\ \A n \in Heap(v) : Leaf(w, n) = Leaf(v, n) /\ Parent(w, n) = Parent(v, n)
       /\ \A n \in Heap(v) \ {q} : Ents(w, n) = Ents(v, n) /\ Kids(w, n) = Kids(v, n)
       /\ KeyCount(w, q) = KeyCount(v, q) + 1
       /\ \A i \in 1..(KeyCount(v, q) + 1) :
                EntAt(w, q, i) = IF i < j THEN EntAt(v, q, i)
                                 ELSE IF i = j THEN mid ELSE EntAt(v, q, i - 1)
       /\ KidCount(w, q) = KidCount(v, q) + 1
       /\ \A i \in 1..(KidCount(v, q) + 1) :
                Kid(w, q, i) = IF i < j + 1 THEN Kid(v, q, i)
                               ELSE IF i = j + 1 THEN r ELSE Kid(v, q, i - 1)
  <2>1. ~Leaf(v, q) => KidCount(v, q) = KeyCount(v, q) + 1 /\ r \in Heap(v)
    BY <1>13
  <2>2. q \in Heap(v) /\ ~Leaf(v, q) /\ Typed(v) /\ mid \in Entry
        /\ j = Slot(Ents(v, q), mid.key)
    BY <1>3, <1>5, <1>12, <1>13
  <2>3. w = Grafted(v, q, mid, r)
    OBVIOUS
  <2> HIDE DEF w
  <2>4. QED
    BY <2>1, <2>2, <2>3, GraftFacts
<1> HIDE DEF w
<1>15. /\ KeyCount(w, p) = KeyCount(v, p) /\ KidCount(w, p) = KidCount(v, p)
       /\ \A i : EntAt(w, p, i) = EntAt(v, p, i) /\ Kid(w, p, i) = Kid(v, p, i)
       /\ KeyCount(w, r) = KeyCount(v, r) /\ KidCount(w, r) = KidCount(v, r)
       /\ \A i : EntAt(w, r, i) = EntAt(v, r, i) /\ Kid(w, r, i) = Kid(v, r, i)
  <2>1. Ents(w, p) = Ents(v, p) /\ Kids(w, p) = Kids(v, p)
        /\ Ents(w, r) = Ents(v, r) /\ Kids(w, r) = Kids(v, r)
    BY <1>1, <1>3, <1>9, <1>10, <1>14
  <2>2. QED
    BY <2>1, SameEnts, SameKids
<1>16. Splits(g, w, q, j, p, m, r)
  <2>1. w.root = g.root /\ Heap(w) = Heap(g) \cup {r}
    BY <1>2, <1>3, <1>14
  <2>2. \A n \in Heap(g) : Leaf(w, n) = Leaf(g, n)
    BY <1>2, <1>3, <1>14
  <2>3. Leaf(w, r) = Leaf(g, p) /\ Parent(w, r) = q
    BY <1>1, <1>2, <1>3, <1>13, <1>14
  <2>4. \A n \in Heap(g) :
            Parent(w, n) = IF \E i \in (m + 1)..KidCount(g, p) : Kid(g, p, i) = n
                           THEN r ELSE Parent(g, n)
    <3>1. m + 1 = LeftCount + 2
      BY <1>4
    <3>2. QED
      BY <1>2, <1>3, <1>14, <3>1
  <2>5. \A n \in Heap(g) \ {p, q} : Ents(w, n) = Ents(g, n) /\ Kids(w, n) = Kids(g, n)
    BY <1>2, <1>3, <1>14
  <2>6. /\ KeyCount(w, q) = KeyCount(g, q) + 1
        /\ \A i \in 1..(KeyCount(g, q) + 1) :
            EntAt(w, q, i) = IF i < j THEN EntAt(g, q, i)
                             ELSE IF i = j THEN EntAt(g, p, m) ELSE EntAt(g, q, i - 1)
    BY <1>11, <1>14
  <2>7. /\ KidCount(w, q) = KidCount(g, q) + 1
        /\ \A i \in 1..(KidCount(g, q) + 1) :
            Kid(w, q, i) = IF i < j + 1 THEN Kid(g, q, i)
                           ELSE IF i = j + 1 THEN r ELSE Kid(g, q, i - 1)
    BY <1>11, <1>14
  <2>8. /\ KeyCount(w, p) = m - 1
        /\ \A i \in 1..(m - 1) : EntAt(w, p, i) = EntAt(g, p, i)
        /\ KidCount(w, p) = IF Leaf(g, p) THEN 0 ELSE m
        /\ \A i \in 1..m : ~Leaf(g, p) => Kid(w, p, i) = Kid(g, p, i)
    <3>1. m - 1 = LeftCount
      BY <1>4
    <3>2. QED
      BY <1>1, <1>2, <1>3, <1>15, <3>1
  <2>9. /\ KeyCount(w, r) = KeyCount(g, p) - m
        /\ \A i \in 1..(KeyCount(g, p) - m) : EntAt(w, r, i) = EntAt(g, p, i + m)
    <3>1. KeyCount(g, p) - m = MaxKeys - LeftCount
          /\ \A i \in 1..(MaxKeys - LeftCount) : i + m = i + LeftCount + 1
      BY <1>2, <1>4
    <3>2. QED
      BY <1>3, <1>15, <3>1
  <2>10. /\ KidCount(w, r) = IF Leaf(g, p) THEN 0 ELSE KidCount(g, p) - m
         /\ \A i \in 1..(KidCount(g, p) - m) : ~Leaf(g, p) => Kid(w, r, i) = Kid(g, p, i + m)
    <3>1. CASE Leaf(g, p)
      BY <1>1, <1>2, <1>3, <1>15, <3>1
    <3>2. CASE ~Leaf(g, p)
      <4>1. KidCount(g, p) - m = MaxKeys - LeftCount + 1
            /\ \A i \in 1..(MaxKeys - LeftCount + 1) : i + m = i + LeftCount + 1
        BY <1>1, <1>2, <1>4, <3>2
      <4>2. ~Leaf(t, p)
        BY <1>1, <1>2, <3>2
      <4>3. QED
        BY <1>3, <1>15, <3>2, <4>1, <4>2
    <3>3. QED
      BY <3>1, <3>2
  <2>11. QED
    BY <2>1, <2>2, <2>3, <2>4, <2>5, <2>6, <2>7, <2>8, <2>9, <2>10 DEF Splits
<1>17. r \notin Heap(g) /\ p \in Heap(g)
  BY <1>1, <1>2
<1> HIDE DEF m
<1>18. /\ Held(w) = Held(g)
       /\ \E level2, span2 :
            /\ Formed(w, level2, span2)
            /\ level2[r] = level[p]
            /\ \A n \in Heap(g) : level2[n] = level[n]
  BY <1>1, <1>4, <1>7, <1>8, <1>14, <1>16, <1>17, SplitFormed
<1>19. q \in Heap(g) /\ v.root \in Heap(g) /\ level[q] = level[p] + 1 /\ v.root = t.root
  BY <1>2, <1>3, <1>7, <1>9 DEF Typed
<1>20. /\ Typed(v) /\ Sized(v) /\ q \in Heap(v) /\ r \in Heap(v) /\ mid \in Entry
       /\ ~Leaf(v, q) /\ KidCount(v, q) = KeyCount(v, q) + 1 /\ v.root = t.root
  BY <1>3, <1>5, <1>13
<1>21. \E level2, span2 : /\ Formed(w, level2, span2)
                          /\ level2[q] = level[p] + 1 /\ level2[v.root] = level[t.root]
  <2>1. PICK level2, span2 : /\ Formed(w, level2, span2)
                             /\ \A n \in Heap(g) : level2[n] = level[n]
    BY <1>18
  <2>2. level2[q] = level[p] + 1 /\ level2[v.root] = level[t.root]
    BY <1>19, <2>1
  <2>3. QED
    BY <2>1, <2>2
<1>22. QED
  BY <1>18, <1>20, <1>21, Zenon DEF w

\* A full root is split below a new root.
LEMMA RaiseRoot ==
    ASSUME NEW t, NEW p, NEW e, NEW incoming, NEW g, NEW level, NEW span,
           Full(t, p, e, incoming, g, level, span),
           NEW r \in Nat \ {0}, r \notin Heap(t), NEW v, v = SplitNode(t, p, r, e, incoming),
           Parent(t, p) = Null,
           NEW mid, mid = EntAt(g, p, LeftCount + 1),
           NEW w, w = CreateRoot(v, p, r, mid)
    PROVE  Good(w) /\ Held(w) = Held(g)
<1> DEFINE m == LeftCount + 1
           s == Fresh(v)
           T == Topped(g, s)
           kids == <<p, r>>
           ents == <<mid>>
           x == Top(v, s, NewNode(FALSE, ents, kids, Null))
<1>1. /\ Typed(t) /\ Sized(t) /\ p \in Heap(t) /\ Formed(g, level, span)
      /\ KeyCount(t, p) = MaxKeys
  BY DEF Full
<1>2. /\ Typed(g) /\ g.root = t.root /\ Heap(g) = Heap(t)
      /\ \A n \in Heap(t) : Leaf(g, n) = Leaf(t, n) /\ Parent(g, n) = Parent(t, n)
      /\ \A n \in Heap(t) \ {p} : Ents(g, n) = Ents(t, n) /\ Kids(g, n) = Kids(t, n)
      /\ KeyCount(g, p) = MaxKeys + 1
      /\ KidCount(g, p) = IF Leaf(t, p) THEN 0 ELSE MaxKeys + 2
  BY FullFacts
<1>3. /\ v.root = t.root /\ Heap(v) = Heap(t) \cup {r}
      /\ \A n \in Heap(t) : Leaf(v, n) = Leaf(t, n)
      /\ Leaf(v, r) = Leaf(t, p) /\ Parent(v, r) = Parent(t, p)
      /\ \A n \in Heap(t) :
                Parent(v, n) = IF \E i \in (LeftCount + 2)..KidCount(g, p) : Kid(g, p, i) = n
                               THEN r ELSE Parent(t, n)
      /\ \A n \in Heap(t) \ {p} : Ents(v, n) = Ents(t, n) /\ Kids(v, n) = Kids(t, n)
      /\ KeyCount(v, p) = LeftCount
      /\ \A i \in 1..LeftCount : EntAt(v, p, i) = EntAt(g, p, i)
      /\ KidCount(v, p) = IF Leaf(t, p) THEN 0 ELSE LeftCount + 1
      /\ \A i \in 1..(LeftCount + 1) : ~Leaf(t, p) => Kid(v, p, i) = Kid(g, p, i)
      /\ KeyCount(v, r) = MaxKeys - LeftCount
      /\ \A i \in 1..(MaxKeys - LeftCount) : EntAt(v, r, i) = EntAt(g, p, i + LeftCount + 1)
      /\ KidCount(v, r) = IF Leaf(t, p) THEN 0 ELSE MaxKeys - LeftCount + 1
      /\ \A i \in 1..(MaxKeys - LeftCount + 1) :
                ~Leaf(t, p) => Kid(v, r, i) = Kid(g, p, i + LeftCount + 1)
      /\ Typed(v) /\ Sized(v)
  BY FullFacts
<1>4. m \in 1..KeyCount(g, p) /\ m \in Nat /\ LeftCount \in Nat /\ MaxKeys \in Nat
  BY <1>2, Sizes
<1>5. /\ mid \in Entry
  BY <1>1, <1>2, <1>4, TypedFacts
<1>6. p = g.root
  <2>1. SUFFICES ASSUME p # g.root PROVE FALSE
    OBVIOUS
  <2>2. Parent(g, p) \in Heap(g) /\ Parent(g, p) = Null
    BY <1>1, <1>2, <2>1 DEF Formed, Linked
  <2>3. QED
    BY <1>2, <2>2, NotWreck
<1>7. s \in Nat \ {0} /\ s \notin Heap(v)
  <2>1. IsFiniteSet(Heap(v))
    BY <1>3 DEF Typed
  <2>2. QED
    BY <2>1, FreshFacts
<1>8. s \notin Heap(t) /\ s # r /\ s # p /\ p # r
  BY <1>1, <1>3, <1>7
<1>9. x = Top(v, s, NewNode(FALSE, ents, kids, Null)) /\ w = Adopt(x, s, kids)
  BY DEF CreateRoot
<1>10. /\ kids \in Seq(Heap(v)) /\ Len(kids) = 2 /\ kids[1] = p /\ kids[2] = r
       /\ ents \in Seq(Entry) /\ Len(ents) = 1 /\ ents[1] = mid
  <2>1. p \in Heap(v) /\ r \in Heap(v)
    BY <1>1, <1>3
  <2>2. QED
    BY <1>5, <2>1
<1> HIDE DEF x, kids, ents, s
<1>11. /\ x.root = s /\ Heap(x) = Heap(v) \cup {s}
       /\ ~Leaf(x, s) /\ Ents(x, s) = ents /\ Kids(x, s) = kids
       /\ Parent(x, s) = Null
       /\ \A n \in Heap(v) \ {s} :
            /\ Leaf(x, n) = Leaf(v, n) /\ Ents(x, n) = Ents(v, n)
            /\ Kids(x, n) = Kids(v, n) /\ Parent(x, n) = Parent(v, n)
  <2> DEFINE leaf == FALSE
  <2>1. x = Top(v, s, NewNode(leaf, ents, kids, Null))
    BY <1>9
  <2> HIDE DEF leaf
  <2>2. /\ x.root = s /\ Heap(x) = Heap(v) \cup {s}
        /\ Leaf(x, s) = leaf /\ Ents(x, s) = ents /\ Kids(x, s) = kids
        /\ Parent(x, s) = Null
        /\ \A n \in Heap(v) \ {s} :
            /\ Leaf(x, n) = Leaf(v, n) /\ Ents(x, n) = Ents(v, n)
            /\ Kids(x, n) = Kids(v, n) /\ Parent(x, n) = Parent(v, n)
    BY <2>1, TopFacts
  <2>3. ~Leaf(x, s)
    BY <2>2 DEF leaf
  <2>4. QED
    BY <2>2, <2>3
<1>40. Leaf(x, s) \in BOOLEAN
  <2>1. x.node[s] = NewNode(FALSE, ents, kids, Null)
    BY <1>9 DEF Top, Put
  <2>2. QED
    BY <2>1 DEF NewNode, Leaf
<1>12. Null \notin Heap(x)
  BY <1>3, <1>7, <1>11, NotWreck DEF Null
<1>13. kids \in Seq(Heap(x))
  BY <1>10, <1>11
<1>14. /\ w.root = x.root /\ Heap(w) = Heap(x)
       /\ \A n \in Heap(x) :
                /\ Leaf(w, n) = Leaf(x, n) /\ Ents(w, n) = Ents(x, n)
                /\ Kids(w, n) = Kids(x, n)
                /\ Parent(w, n) = IF \E i \in 1..Len(kids) : kids[i] = n THEN s
                                  ELSE Parent(x, n)
  <2>1. w = Adopt(x, s, kids)
    BY <1>9
  <2> HIDE DEF T, m
  <2>2. QED
    BY <1>12, <1>13, <2>1, AdoptFacts
<1>15. \A n : (\E i \in 1..Len(kids) : kids[i] = n) <=> n = p \/ n = r
  BY <1>10
<1>16. /\ w.root = s /\ Heap(w) = Heap(t) \cup {r, s}
       /\ ~Leaf(w, s) /\ Ents(w, s) = ents /\ Kids(w, s) = kids /\ Parent(w, s) = Null
       /\ \A n \in Heap(v) : Leaf(w, n) = Leaf(v, n)
       /\ \A n \in Heap(v) : Ents(w, n) = Ents(v, n) /\ Kids(w, n) = Kids(v, n)
       /\ \A n \in Heap(v) : Parent(w, n) = IF n = p \/ n = r THEN s ELSE Parent(v, n)
  <2>1. Heap(w) = Heap(t) \cup {r, s}
    BY <1>3, <1>11, <1>14
  <2>2. \A n \in Heap(v) : n \in Heap(x) /\ n \in Heap(v) \ {s}
    BY <1>7, <1>11
  <2>3. s \in Heap(x)
    BY <1>11
  <2>4. /\ w.root = s /\ ~Leaf(w, s) /\ Ents(w, s) = ents /\ Kids(w, s) = kids
    BY <1>11, <1>14, <2>3
  <2>5. Parent(w, s) = Null
    BY <1>8, <1>11, <1>14, <1>15, <2>3
  <2>6. ASSUME NEW n \in Heap(v)
        PROVE  /\ Leaf(w, n) = Leaf(v, n) /\ Ents(w, n) = Ents(v, n) /\ Kids(w, n) = Kids(v, n)
               /\ Parent(w, n) = IF n = p \/ n = r THEN s ELSE Parent(v, n)
    <3>1. n \in Heap(x) /\ n \in Heap(v) \ {s}
      BY <2>2
    <3>2. /\ Leaf(x, n) = Leaf(v, n) /\ Ents(x, n) = Ents(v, n)
          /\ Kids(x, n) = Kids(v, n) /\ Parent(x, n) = Parent(v, n)
      BY <1>11, <3>1
    <3>3. /\ Leaf(w, n) = Leaf(x, n) /\ Ents(w, n) = Ents(x, n) /\ Kids(w, n) = Kids(x, n)
          /\ Parent(w, n) = IF \E i \in 1..Len(kids) : kids[i] = n THEN s ELSE Parent(x, n)
      BY <1>14, <3>1
    <3>4. QED
      BY <1>15, <3>2, <3>3
  <2>7. QED
    BY <2>1, <2>4, <2>5, <2>6
<1>17. /\ T.root = s
       /\ Heap(T) = Heap(g) \cup {s}
       /\ ~Leaf(T, s) /\ KeyCount(T, s) = 0 /\ KidCount(T, s) = 1
       /\ Kid(T, s, 1) = g.root /\ Parent(T, s) = Null
       /\ \A n \in Heap(g) :
            /\ Leaf(T, n) = Leaf(g, n) /\ Ents(T, n) = Ents(g, n) /\ Kids(T, n) = Kids(g, n)
            /\ Parent(T, n) = IF n = g.root THEN s ELSE Parent(g, n)
       /\ Held(T) = Held(g)
       /\ \E level2, span2 : Formed(T, level2, span2)
  <2>1. s \notin Heap(g)
    BY <1>2, <1>8
  <2>2. QED
    BY <1>1, <1>7, <2>1, ToppedFormed
<1> HIDE DEF T
<1>18. PICK level2, span2 : Formed(T, level2, span2)
  BY <1>17
<1>19. /\ KeyCount(T, p) = KeyCount(g, p) /\ KidCount(T, p) = KidCount(g, p)
       /\ \A i : EntAt(T, p, i) = EntAt(g, p, i) /\ Kid(T, p, i) = Kid(g, p, i)
       /\ Leaf(T, p) = Leaf(t, p) /\ p \in Heap(T)
  <2>1. Ents(T, p) = Ents(g, p) /\ Kids(T, p) = Kids(g, p) /\ p \in Heap(T)
        /\ Leaf(T, p) = Leaf(t, p)
    BY <1>1, <1>2, <1>17
  <2>2. QED
    BY <2>1, SameEnts, SameKids
<1>20. /\ KeyCount(w, p) = KeyCount(v, p) /\ KidCount(w, p) = KidCount(v, p)
       /\ \A i : EntAt(w, p, i) = EntAt(v, p, i) /\ Kid(w, p, i) = Kid(v, p, i)
       /\ KeyCount(w, r) = KeyCount(v, r) /\ KidCount(w, r) = KidCount(v, r)
       /\ \A i : EntAt(w, r, i) = EntAt(v, r, i) /\ Kid(w, r, i) = Kid(v, r, i)
  <2>1. Ents(w, p) = Ents(v, p) /\ Kids(w, p) = Kids(v, p)
        /\ Ents(w, r) = Ents(v, r) /\ Kids(w, r) = Kids(v, r)
    BY <1>1, <1>3, <1>16
  <2>2. QED
    BY <2>1, SameEnts, SameKids
<1>21. /\ KeyCount(w, s) = 1 /\ EntAt(w, s, 1) = mid
       /\ KidCount(w, s) = 2 /\ Kid(w, s, 1) = p /\ Kid(w, s, 2) = r
  BY <1>10, <1>16 DEF KeyCount, EntAt, KidCount, Kid
<1>22. Typed(w)
  <2>1. IsFiniteSet(Heap(w)) /\ Heap(w) \subseteq Nat \ {0} /\ w.root \in Heap(w)
        /\ Heap(v) \subseteq Heap(w)
    <3>1. IsFiniteSet(Heap(v)) /\ Heap(v) \subseteq Nat \ {0}
      BY <1>3 DEF Typed
    <3>2. Heap(w) = Heap(v) \cup {s}
      BY <1>3, <1>16
    <3>3. IsFiniteSet(Heap(v) \cup {s})
      BY <3>1, FS_AddElement
    <3>4. QED
      BY <1>7, <1>16, <3>1, <3>2, <3>3
  <2>2. ASSUME NEW n \in Heap(w)
        PROVE  /\ Leaf(w, n) \in BOOLEAN
               /\ Ents(w, n) \in Seq(Entry)
               /\ Kids(w, n) \in Seq(Heap(w))
               /\ Parent(w, n) \in Nat
    <3>1. CASE n = s
      <4>1. kids \in Seq(Heap(w))
        BY <1>13, <1>14
      <4>2. Leaf(w, n) \in BOOLEAN
        <5>1. Leaf(x, s) \in BOOLEAN
          BY <1>40
        <5>2. QED
          BY <1>11, <1>14, <3>1, <5>1
      <4>3. Ents(w, n) \in Seq(Entry) /\ Kids(w, n) \in Seq(Heap(w))
        BY <1>10, <1>16, <3>1, <4>1
      <4>4. Parent(w, n) \in Nat
        BY <1>16, <3>1 DEF Null
      <4>5. QED
        BY <4>2, <4>3, <4>4
    <3>2. CASE n # s
      <4>1. n \in Heap(v)
        BY <1>3, <1>16, <2>2, <3>2
      <4>2. /\ Leaf(v, n) \in BOOLEAN /\ Ents(v, n) \in Seq(Entry)
            /\ Kids(v, n) \in Seq(Heap(v)) /\ Parent(v, n) \in Nat
        BY <1>3, <4>1, TypedFacts
      <4>3. Parent(w, n) = s \/ Parent(w, n) = Parent(v, n)
        BY <1>16, <4>1
      <4>4. Parent(w, n) \in Nat
        BY <1>7, <4>2, <4>3
      <4>5. Kids(v, n) \in Seq(Heap(w))
        BY <2>1, <4>2
      <4>6. QED
        BY <1>16, <4>1, <4>2, <4>4, <4>5
    <3>3. QED
      BY <3>1, <3>2
  <2>3. QED
    BY <2>1, <2>2 DEF Typed
<1>23. Splits(T, w, s, 1, p, m, r)
  <2>1. w.root = T.root /\ Heap(w) = Heap(T) \cup {r}
    BY <1>2, <1>16, <1>17
  <2>2. ASSUME NEW n \in Heap(T)
        PROVE  Leaf(w, n) = Leaf(T, n)
    <3>1. CASE n = s
      <4>1. Leaf(w, s) \in BOOLEAN /\ Leaf(T, s) \in BOOLEAN
        BY <1>40, <1>11, <1>14, <1>17, <1>18, <1>16, TypedFacts DEF Formed
      <4>2. QED
        BY <1>16, <1>17, <3>1, <4>1
    <3>2. CASE n # s
      <4>1. n \in Heap(t) /\ n \in Heap(g) /\ n \in Heap(v)
        BY <1>2, <1>3, <1>17, <3>2
      <4>2. QED
        BY <1>2, <1>3, <1>16, <1>17, <4>1
    <3>3. QED
      BY <3>1, <3>2
  <2>3. Leaf(w, r) = Leaf(T, p) /\ Parent(w, r) = s
    BY <1>3, <1>16, <1>19
  <2>4. ASSUME NEW n \in Heap(T)
        PROVE  Parent(w, n) = IF \E i \in (m + 1)..KidCount(T, p) : Kid(T, p, i) = n
                              THEN r ELSE Parent(T, n)
    <3>1. m + 1 = LeftCount + 2
      BY <1>4
    <3>2. (\E i \in (m + 1)..KidCount(T, p) : Kid(T, p, i) = n)
          <=> (\E i \in (LeftCount + 2)..KidCount(g, p) : Kid(g, p, i) = n)
      BY <1>19, <3>1
    <3>3. \A i \in (m + 1)..KidCount(T, p) : i \in 1..KidCount(T, p) /\ Kid(T, p, i) # p
      <4>1. \A i \in 1..KidCount(T, p) : Kid(T, p, i) # p
        BY <1>18, <1>19, KidFacts
      <4>2. KidCount(T, p) \in Nat
        BY <1>18, <1>19, TypedFacts DEF Formed
      <4>3. QED
        BY <1>4, <4>1, <4>2
    <3>4. \A i \in 1..KidCount(T, p) : Kid(T, p, i) # s
      <4>1. \A i \in 1..KidCount(T, p) : Parent(T, Kid(T, p, i)) = p
        BY <1>18, <1>19, KidFacts
      <4>2. Parent(T, s) # p
        BY <1>1, <1>2, <1>17, NotWreck
      <4>3. QED
        BY <4>1, <4>2
    <3>5. CASE n = s
      BY <1>16, <1>17, <3>3, <3>4, <3>5
    <3>6. CASE n = p
      BY <1>1, <1>3, <1>6, <1>16, <1>17, <3>3, <3>6
    <3>7. CASE n # s /\ n # p
      <4>1. n \in Heap(t) /\ n # r /\ n # g.root
        BY <1>2, <1>6, <1>17, <2>4, <3>7
      <4>2. Parent(w, n) = Parent(v, n) /\ Parent(T, n) = Parent(t, n)
        BY <1>2, <1>3, <1>16, <1>17, <3>7, <4>1
      <4>3. Parent(v, n) = IF \E i \in (LeftCount + 2)..KidCount(g, p) : Kid(g, p, i) = n
                               THEN r ELSE Parent(t, n)
        BY <1>3, <4>1
      <4>4. QED
        BY <3>2, <4>2, <4>3
    <3>8. QED
      BY <3>5, <3>6, <3>7
  <2>5. \A n \in Heap(T) \ {p, s} : Ents(w, n) = Ents(T, n) /\ Kids(w, n) = Kids(T, n)
    <3>1. ASSUME NEW n \in Heap(T) \ {p, s}
          PROVE  Ents(w, n) = Ents(T, n) /\ Kids(w, n) = Kids(T, n)
      <4>1. n \in Heap(t) \ {p} /\ n \in Heap(v) /\ n \in Heap(g)
        BY <1>2, <1>3, <1>17
      <4>2. QED
        BY <1>2, <1>3, <1>16, <1>17, <4>1
    <3>2. QED
      BY <3>1
  <2>6. /\ KeyCount(w, s) = KeyCount(T, s) + 1
        /\ \A i \in 1..(KeyCount(T, s) + 1) :
            EntAt(w, s, i) = IF i < 1 THEN EntAt(T, s, i)
                             ELSE IF i = 1 THEN EntAt(T, p, m) ELSE EntAt(T, s, i - 1)
    BY <1>17, <1>19, <1>21
  <2>7. /\ KidCount(w, s) = KidCount(T, s) + 1
        /\ \A i \in 1..(KidCount(T, s) + 1) :
            Kid(w, s, i) = IF i < 1 + 1 THEN Kid(T, s, i)
                           ELSE IF i = 1 + 1 THEN r ELSE Kid(T, s, i - 1)
    BY <1>6, <1>17, <1>21
  <2>8. /\ KeyCount(w, p) = m - 1
        /\ \A i \in 1..(m - 1) : EntAt(w, p, i) = EntAt(T, p, i)
        /\ KidCount(w, p) = IF Leaf(T, p) THEN 0 ELSE m
        /\ \A i \in 1..m : ~Leaf(T, p) => Kid(w, p, i) = Kid(T, p, i)
    <3>1. m - 1 = LeftCount
      BY <1>4
    <3>2. QED
      BY <1>3, <1>19, <1>20, <3>1
  <2>9. /\ KeyCount(w, r) = KeyCount(T, p) - m
        /\ \A i \in 1..(KeyCount(T, p) - m) : EntAt(w, r, i) = EntAt(T, p, i + m)
    <3>1. KeyCount(T, p) - m = MaxKeys - LeftCount
          /\ \A i \in 1..(MaxKeys - LeftCount) : i + m = i + LeftCount + 1
      BY <1>2, <1>4, <1>19
    <3>2. QED
      BY <1>3, <1>19, <1>20, <3>1
  <2>10. /\ KidCount(w, r) = IF Leaf(T, p) THEN 0 ELSE KidCount(T, p) - m
         /\ \A i \in 1..(KidCount(T, p) - m) : ~Leaf(T, p) => Kid(w, r, i) = Kid(T, p, i + m)
    <3>1. CASE Leaf(T, p)
      BY <1>3, <1>19, <1>20, <3>1
    <3>2. CASE ~Leaf(T, p)
      <4>1. KidCount(T, p) - m = MaxKeys - LeftCount + 1
            /\ \A i \in 1..(MaxKeys - LeftCount + 1) : i + m = i + LeftCount + 1
        BY <1>2, <1>4, <1>19, <3>2
      <4>2. QED
        BY <1>3, <1>19, <1>20, <3>2, <4>1
    <3>3. QED
      BY <3>1, <3>2
  <2>11. QED
    BY <2>1, <2>2, <2>3, <2>4, <2>5, <2>6, <2>7, <2>8, <2>9, <2>10 DEF Splits
<1>24. /\ s \in Heap(T) /\ 1 \in 1..KidCount(T, s) /\ p = Kid(T, s, 1)
       /\ m \in 1..KeyCount(T, p) /\ r \notin Heap(T)
  BY <1>2, <1>4, <1>6, <1>8, <1>17, <1>19
<1>25. Held(w) = Held(T) /\ \E level3, span3 : Formed(w, level3, span3)
  <2> HIDE DEF m
  <2>1. QED
    BY <1>18, <1>22, <1>23, <1>24, SplitFormed
<1>26. Sized(w)
  <2>1. ASSUME NEW n \in Heap(w)
        PROVE  /\ KeyCount(w, n) =< MaxKeys
               /\ n # w.root => MinKeys =< KeyCount(w, n)
               /\ ~Leaf(w, n) => 1 =< KeyCount(w, n)
    <3>1. CASE n = s
      BY <1>4, <1>16, <1>21, <3>1, Sizes
    <3>2. CASE n # s
      <4>1. n \in Heap(v)
        BY <1>3, <1>16, <2>1, <3>2
      <4>2. Ents(w, n) = Ents(v, n) /\ Leaf(w, n) = Leaf(v, n)
        BY <1>16, <4>1
      <4>3. KeyCount(w, n) = KeyCount(v, n)
        BY <4>2, SameEnts
      <4>4. KeyCount(v, n) =< MaxKeys /\ (n # v.root => MinKeys =< KeyCount(v, n))
            /\ (~Leaf(v, n) => 1 =< KeyCount(v, n))
        BY <1>3, <4>1 DEF Sized
      <4>5. n = v.root => KeyCount(v, n) = LeftCount
        BY <1>2, <1>3, <1>6
      <4>6. QED
        BY <4>2, <4>3, <4>4, <4>5, Sizes
    <3>3. QED
      BY <3>1, <3>2
  <2>2. QED
    BY <2>1 DEF Sized
<1>27. QED
  BY <1>17, <1>25, <1>26 DEF Good

\* A climb that has come to level i of a tree as high as top, with an entry in
\* hand that makes the entries of the tree the held ones.
Climbs(c, i, top, held) ==
    IF c.at = Null THEN Good(c.tree) /\ Held(c.tree) = held
    ELSE /\ Typed(c.tree) /\ Sized(c.tree) /\ c.at \in Heap(c.tree) /\ c.ent \in Entry
         /\ ~Leaf(c.tree, c.at) =>
                /\ KidCount(c.tree, c.at) = KeyCount(c.tree, c.at) + 1
                /\ c.right \in Heap(c.tree)
         /\ Held(Grafted(c.tree, c.at, c.ent, c.right)) = held
         /\ \E level, span :
                /\ Formed(Grafted(c.tree, c.at, c.ent, c.right), level, span)
                /\ level[c.at] = i /\ level[c.tree.root] = top

\* A round of btree_insert_do keeps the climb on its way.
LEMMA RaiseStep ==
    ASSUME NEW c, NEW i \in Nat, NEW top, NEW held, Climbs(c, i, top, held)
    PROVE  Climbs(Raise(c), i + 1, top, held)
<1> DEFINE t == c.tree
           p == c.at
           e == c.ent
           incoming == c.right
           r == Fresh(t)
           v == SplitNode(t, p, r, e, incoming)
           g == Grafted(t, p, e, incoming)
           Done(u) == [tree |-> u, at |-> Null, ent |-> e, right |-> incoming]
           w == Adopt(g, p, IF Leaf(t, p) THEN <<>> ELSE <<incoming>>)
           mid == MoreEnts(t, p, e)[LeftCount + 1]
           up == [tree |-> v, at |-> Parent(t, p), ent |-> mid, right |-> r]
<1>1. Raise(c) =
        IF p = Null THEN c
        ELSE IF KeyCount(t, p) < MaxKeys THEN Done(w)
        ELSE IF v = Wreck THEN Done(Wreck)
        ELSE IF Parent(t, p) = Null THEN Done(CreateRoot(v, p, r, mid))
        ELSE up
  BY DEF Raise, Grafted
<1>2. \A u : Done(u).tree = u /\ Done(u).at = Null
  OBVIOUS
<1>3. up.tree = v /\ up.at = Parent(t, p) /\ up.ent = mid /\ up.right = r
  OBVIOUS
<1>4. CASE p = Null
  <2>1. Raise(c) = c
    BY <1>1, <1>4
  <2>2. QED
    BY <1>4, <2>1 DEF Climbs
<1>5. CASE p # Null
  <2>1. /\ Typed(t) /\ Sized(t) /\ p \in Heap(t) /\ e \in Entry
        /\ ~Leaf(t, p) => KidCount(t, p) = KeyCount(t, p) + 1 /\ incoming \in Heap(t)
        /\ Held(g) = held
        /\ \E level, span : Formed(g, level, span) /\ level[p] = i /\ level[t.root] = top
    BY <1>5 DEF Climbs
  <2> HIDE DEF t, p, e, incoming, g, w, up, Done, v, mid, r
  <2>2. PICK level, span : Formed(g, level, span) /\ level[p] = i /\ level[t.root] = top
    BY <2>1
  <2>3. KeyCount(t, p) \in Nat /\ KeyCount(t, p) =< MaxKeys /\ MaxKeys \in Nat
    BY <2>1, TypedFacts, Sizes DEF Sized
  <2>4. CASE KeyCount(t, p) < MaxKeys
    <3>1. Good(w) /\ Held(w) = Held(g)
      <4>1. w = Adopt(Grafted(t, p, e, incoming), p, IF Leaf(t, p) THEN <<>> ELSE <<incoming>>)
            /\ Formed(Grafted(t, p, e, incoming), level, span)
        BY <2>2 DEF w, g
      <4>2. Good(w) /\ Held(w) = Held(Grafted(t, p, e, incoming))
        BY <2>1, <2>4, <4>1, RaiseDone
      <4>3. QED
        BY <4>2 DEF g
    <3>2. Raise(c) = Done(w)
      BY <1>1, <1>5, <2>4
    <3>3. Raise(c).at = Null /\ Raise(c).tree = w
      BY <1>2, <3>2
    <3>4. QED
      BY <2>1, <3>1, <3>3 DEF Climbs
  <2>5. CASE ~(KeyCount(t, p) < MaxKeys)
    <3>1. Full(t, p, e, incoming, g, level, span)
      BY <2>1, <2>2, <2>3, <2>5 DEF Full, g
    <3>2. r \in Nat \ {0} /\ r \notin Heap(t)
      <4>1. IsFiniteSet(Heap(t))
        BY <2>1 DEF Typed
      <4>2. QED
        BY <4>1, FreshFacts DEF r
    <3>3. v = SplitNode(t, p, r, e, incoming)
      BY DEF v
    <3>4. Typed(v) /\ mid = EntAt(g, p, LeftCount + 1)
      BY <3>1, <3>2, <3>3, FullFacts DEF mid
    <3>5. v # Wreck
      BY <3>4, NotWreck
    <3>6. CASE Parent(t, p) = Null
      <4> DEFINE x == CreateRoot(v, p, r, mid)
      <4>1. Raise(c) = Done(x)
        BY <1>1, <1>5, <2>5, <3>5, <3>6
      <4> HIDE DEF x
      <4>2. Good(x) /\ Held(x) = Held(g)
        BY <3>1, <3>2, <3>3, <3>4, <3>6, RaiseRoot DEF x
      <4>3. Raise(c).at = Null /\ Raise(c).tree = x
        BY <1>2, <4>1
      <4>4. QED
        BY <2>1, <4>2, <4>3 DEF Climbs
    <3>7. CASE Parent(t, p) # Null
      <4> DEFINE q == Parent(t, p)
      <4>1. Raise(c) = up
        BY <1>1, <1>5, <2>5, <3>5, <3>7
      <4> HIDE DEF q
      <4>2. q = Parent(t, p) /\ q # Null
        BY <3>7 DEF q
      <4>3. /\ Typed(v) /\ Sized(v) /\ q \in Heap(v) /\ r \in Heap(v) /\ mid \in Entry
            /\ ~Leaf(v, q) /\ KidCount(v, q) = KeyCount(v, q) + 1
            /\ v.root = t.root
            /\ Held(Grafted(v, q, mid, r)) = Held(g)
            /\ \E level2, span2 :
                /\ Formed(Grafted(v, q, mid, r), level2, span2)
                /\ level2[q] = level[p] + 1 /\ level2[v.root] = level[t.root]
        BY <3>1, <3>2, <3>3, <3>4, <4>2, RaiseSplit
      <4>4. /\ Raise(c).tree = v /\ Raise(c).at = q /\ Raise(c).ent = mid /\ Raise(c).right = r
        BY <1>3, <4>1, <4>2
      <4>5. \E level2, span2 :
                /\ Formed(Grafted(v, q, mid, r), level2, span2)
                /\ level2[q] = i + 1 /\ level2[v.root] = top
        BY <2>2, <4>3
      <4>6. QED
        BY <2>1, <4>2, <4>3, <4>4, <4>5 DEF Climbs
    <3>8. QED
      BY <3>6, <3>7
  <2>6. QED
    BY <2>4, <2>5
<1>6. QED
  BY <1>4, <1>5

\* btree_insert on a tree that is not empty.
LEMMA InsertedLoop ==
    ASSUME NEW t, NEW k, NEW o, t.root # Null
    PROVE  Inserted(t, k, o) =
            IF FindLeaf(t, k) = Null THEN Wreck
            ELSE RaiseLoop(t, FindLeaf(t, k), [key |-> k, off |-> o])[Rounds(t)].tree
  BY DEF Inserted, RaiseLoop

\* A node that is alone
LEMMA FirstGood ==
    ASSUME NEW k \in Key, NEW o \in Offset, NEW t, t.root = Null,
           NEW u, u = Inserted(t, k, o)
    PROVE  Good(u) /\ Held(u) = {[key |-> k, off |-> o]}
<1> DEFINE e == [key |-> k, off |-> o]
           level == [n \in {1} |-> 0]
           span == [n \in {1} |-> Key]
           ents == <<e>>
<1>1. u = [root |-> 1, node |-> <<NewNode(TRUE, ents, <<>>, Null)>>]
  BY DEF Inserted
<1>2. e \in Entry /\ e.key = k
  BY DEF Entry
<1>3. ents \in Seq(Entry) /\ Len(ents) = 1 /\ ents[1] = e
  BY <1>2
<1> HIDE DEF e, ents
<1>4. u.root = 1 /\ Heap(u) = {1} /\ u.node[1] = NewNode(TRUE, ents, <<>>, Null)
  BY <1>1 DEF Heap
<1>5. Leaf(u, 1) = TRUE /\ Ents(u, 1) = ents /\ Kids(u, 1) = <<>> /\ Parent(u, 1) = Null
  BY <1>4 DEF NewNode, Leaf, Ents, Kids, Parent
<1>6. KeyCount(u, 1) = 1 /\ KidCount(u, 1) = 0 /\ EntAt(u, 1, 1) = e /\ KeyAt(u, 1, 1) = k
  BY <1>2, <1>3, <1>5 DEF KeyCount, KidCount, EntAt, KeyAt
<1>7. Typed(u)
  <2>1. IsFiniteSet({1})
    BY FS_Singleton
  <2>2. <<>> \in Seq(Heap(u))
    OBVIOUS
  <2>3. /\ Leaf(u, 1) \in BOOLEAN /\ Ents(u, 1) \in Seq(Entry)
        /\ Kids(u, 1) \in Seq(Heap(u)) /\ Parent(u, 1) \in Nat
    <3>1. Leaf(u, 1) \in BOOLEAN
      BY <1>5, Zenon
    <3>2. Ents(u, 1) \in Seq(Entry) /\ Kids(u, 1) \in Seq(Heap(u))
      BY <1>3, <1>5, <2>2
    <3>3. Parent(u, 1) \in Nat
      BY <1>5 DEF Null
    <3>4. QED
      BY <3>1, <3>2, <3>3
  <2>4. \A n \in Heap(u) : n = 1
    BY <1>4
  <2>5. IsFiniteSet(Heap(u)) /\ Heap(u) \subseteq Nat \ {0} /\ u.root \in Heap(u)
    BY <1>4, <2>1
  <2>6. QED
    BY <2>3, <2>4, <2>5 DEF Typed
<1>8. Linked(u, level)
  BY <1>4, <1>5, <1>6 DEF Linked
<1>9. Spanned(u, span)
  BY <1>4, <1>6 DEF Spanned
<1>10. Sized(u)
  BY <1>4, <1>5, <1>6, Sizes DEF Sized
<1>11. \A f : f \in Held(u) <=> f = e
  <2>1. TAKE f
  <2>2. f \in Held(u) <=> \E n \in Heap(u) : \E i \in 1..KeyCount(u, n) : EntAt(u, n, i) = f
    BY <1>7, HeldFacts
  <2>3. QED
    BY <1>4, <1>6, <2>2
<1>12. Held(u) = {e}
  BY <1>11
<1>13. QED
  BY <1>7, <1>8, <1>9, <1>10, <1>12 DEF Good, Formed, e

\* btree_insert keeps the tree in order and adds the entry.
LEMMA InsertGood ==
    ASSUME NEW t, Good(t), NEW k \in Key, NEW o \in Offset, \A e \in Held(t) : e.key # k,
           NEW u, u = Inserted(t, k, o)
    PROVE  Good(u) /\ Held(u) = Held(t) \cup {[key |-> k, off |-> o]}
<1> DEFINE e == [key |-> k, off |-> o]
           leaf == FindLeaf(t, k)
           g == Grafted(t, leaf, e, Null)
           s == Slot(Ents(t, leaf), e.key)
           N == Rounds(t)
           loop == RaiseLoop(t, leaf, e)
           held == Held(t) \cup {e}
<1>1. e \in Entry /\ e.key = k
  BY DEF Entry
<1>2. PICK level, span : Formed(t, level, span)
  BY DEF Good
<1>3. Sized(t) /\ Typed(t) /\ Linked(t, level)
  BY <1>2 DEF Good, Formed
<1>4. leaf \in Heap(t) /\ k \in span[leaf] /\ Leaf(t, leaf) /\ ~Here(Ents(t, leaf), k)
  BY <1>2, FindLeafFormed
<1>5. N \in Nat /\ level[t.root] \in Nat /\ level[t.root] < N
  BY <1>2, Tall
<1>6. t.root # Null /\ Null \notin Heap(t)
  BY <1>3, NotWreck
<1>7. u = loop[N].tree
  BY <1>4, <1>6, InsertedLoop
<1>8. /\ loop[0] = [tree |-> t, at |-> leaf, ent |-> e, right |-> Null]
      /\ \A i \in 0..N : i < N => loop[i + 1] = Raise(loop[i])
  BY <1>5, RaiseLoopFacts
<1> HIDE DEF e, leaf, g, s, N, loop
<1>9. /\ Typed(g) /\ g.root = t.root /\ Heap(g) = Heap(t)
      /\ \A n \in Heap(t) : Leaf(g, n) = Leaf(t, n) /\ Parent(g, n) = Parent(t, n)
      /\ \A n \in Heap(t) \ {leaf} : Ents(g, n) = Ents(t, n) /\ Kids(g, n) = Kids(t, n)
      /\ KeyCount(g, leaf) = KeyCount(t, leaf) + 1
      /\ \A i \in 1..(KeyCount(t, leaf) + 1) :
                EntAt(g, leaf, i) = IF i < s THEN EntAt(t, leaf, i)
                                    ELSE IF i = s THEN e ELSE EntAt(t, leaf, i - 1)
      /\ Kids(g, leaf) = <<>>
  BY <1>1, <1>3, <1>4, GraftFacts DEF g, s
<1>10. Kids(t, leaf) = <<>>
  <2>1. Kids(t, leaf) \in Seq(Heap(t)) /\ KidCount(t, leaf) = 0
    BY <1>3, <1>4, Counts, TypedFacts
  <2>2. QED
    BY <2>1 DEF KidCount
<1>11. Puts(t, g, leaf, s, e)
  <2>1. \A n \in Heap(t) : Kids(g, n) = Kids(t, n)
    BY <1>9, <1>10
  <2>2. Differs(t, g, leaf)
    BY <1>9, <2>1 DEF Differs
  <2>3. QED
    BY <1>9, <2>2 DEF Puts
<1>12. Formed(g, level, span) /\ Held(g) = held
  <2>1. Formed(t, level, span) /\ Typed(g)
    BY <1>2, <1>9
  <2>2. e \in Entry /\ e.key \in span[leaf] /\ ~Here(Ents(t, leaf), e.key)
    BY <1>1, <1>4
  <2>3. s = Slot(Ents(t, leaf), e.key)
    BY DEF s
  <2> HIDE DEF held
  <2>4. Formed(g, level, span) /\ Held(g) = Held(t) \cup {e}
    BY <1>4, <1>11, <2>1, <2>2, <2>3, PutFormed
  <2>5. QED
    BY <2>4 DEF held
<1>13. Climbs(loop[0], 0, level[t.root], held)
  <2>1. loop[0].tree = t /\ loop[0].at = leaf /\ loop[0].ent = e /\ loop[0].right = Null
    BY <1>8
  <2>2. leaf # Null
    BY <1>4, <1>6
  <2>3. level[leaf] = 0
    BY <1>3, <1>4 DEF Linked
  <2>4. QED
    BY <1>1, <1>3, <1>4, <1>12, <2>1, <2>2, <2>3 DEF Climbs, g
<1> HIDE DEF held
<1> DEFINE P == {i \in 0..N : Climbs(loop[i], i, level[t.root], held)}
<1>14. 0 \in P
  BY <1>5, <1>13
<1>15. ASSUME NEW i \in 0..N, i \in P /\ i < N
       PROVE  i + 1 \in P
  <2>1. Climbs(Raise(loop[i]), i + 1, level[t.root], held)
    BY <1>5, <1>15, RaiseStep
  <2>2. QED
    BY <1>5, <1>8, <1>15, <2>1
<1>16. N \in P
  <2> HIDE DEF P
  <2>1. \A i \in 0..N : i \in P
    BY <1>5, <1>14, <1>15, Induction
  <2>2. QED
    BY <1>5, <2>1
<1>17. Climbs(loop[N], N, level[t.root], held)
  BY <1>16
<1>18. loop[N].at = Null
  <2>1. SUFFICES ASSUME loop[N].at # Null PROVE FALSE
    OBVIOUS
  <2> DEFINE c == loop[N]
             G == Grafted(c.tree, c.at, c.ent, c.right)
  <2>2. /\ c.at \in Heap(c.tree) /\ Typed(c.tree)
        /\ \E level2, span2 : Formed(G, level2, span2)
                              /\ level2[c.at] = N /\ level2[c.tree.root] = level[t.root]
    BY <1>17, <2>1 DEF Climbs
  <2>3. G.root = c.tree.root /\ Heap(G) = Heap(c.tree)
    BY <2>2, FillFacts DEF Grafted
  <2> HIDE DEF G, c
  <2>4. PICK level2, span2 : Formed(G, level2, span2)
                             /\ level2[c.at] = N /\ level2[c.tree.root] = level[t.root]
    BY <2>2
  <2>5. level2[c.at] =< level2[G.root]
    BY <2>2, <2>3, <2>4 DEF Formed, Linked
  <2>6. QED
    BY <1>5, <2>3, <2>4, <2>5
<1>19. QED
  BY <1>7, <1>17, <1>18 DEF Climbs, held, e
=============================================================================

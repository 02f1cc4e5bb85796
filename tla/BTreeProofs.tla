--------------------------- MODULE BTreeProofs ----------------------------
(***************************************************************************)
(* Theorems about BTree, second part: deletion, the file, and the          *)
(* specification.                                                          *)
(***************************************************************************)
EXTENDS BTreeInsertProofs

(***************************************************************************)
(* Deletion.                                                               *)
(***************************************************************************)
\* A sequence without its first element.
LEMMA TailFacts ==
    ASSUME NEW S, NEW s \in Seq(S), s # <<>>
    PROVE  /\ Head(s) \in S /\ Head(s) = s[1]
           /\ Tail(s) \in Seq(S) /\ Len(Tail(s)) = Len(s) - 1
           /\ \A j \in 1..(Len(s) - 1) : Tail(s)[j] = s[j + 1]
  OBVIOUS

\* A sequence without its last element.
LEMMA FrontFacts ==
    ASSUME NEW S, NEW s \in Seq(S), s # <<>>
    PROVE  /\ Last(s) \in S /\ Last(s) = s[Len(s)]
           /\ Front(s) \in Seq(S) /\ Len(Front(s)) = Len(s) - 1
           /\ \A j \in 1..(Len(s) - 1) : Front(s)[j] = s[j]
<1> DEFINE n == Len(s)
<1>1. n \in Nat /\ n # 0
  OBVIOUS
<1>2. Last(s) \in S /\ Last(s) = s[n]
  BY <1>1 DEF Last
<1> DEFINE m == n - 1
<1>3. m \in Nat /\ m =< Len(s) /\ 1 =< m + 1 /\ m - 1 + 1 = m
  BY <1>1
<1>4. Front(s) = SubSeq(s, 1, m)
  BY DEF Front
<1> HIDE DEF m
<1>5. /\ Front(s) \in Seq(S) /\ Len(Front(s)) = m - 1 + 1
      /\ \A j \in 1..(m - 1 + 1) : Front(s)[j] = s[1 + j - 1]
  BY <1>3, <1>4, SubSeqFacts
<1>6. \A j \in 1..m : 1 + j - 1 = j
  BY <1>3
<1>7. QED
  BY <1>2, <1>3, <1>5, <1>6 DEF m

\* A sequence with an element behind.
LEMMA AppendFacts ==
    ASSUME NEW S, NEW s \in Seq(S), NEW e \in S
    PROVE  /\ Append(s, e) \in Seq(S) /\ Len(Append(s, e)) = Len(s) + 1
           /\ \A j \in 1..(Len(s) + 1) :
                Append(s, e)[j] = IF j =< Len(s) THEN s[j] ELSE e
  OBVIOUS

\* A sequence with an element in front.
LEMMA PrependFacts ==
    ASSUME NEW S, NEW s \in Seq(S), NEW e \in S
    PROVE  /\ <<e>> \o s \in Seq(S) /\ Len(<<e>> \o s) = Len(s) + 1
           /\ \A j \in 1..(Len(s) + 1) :
                (<<e>> \o s)[j] = IF j = 1 THEN e ELSE s[j - 1]
<1> DEFINE a == <<e>>
<1>1. a \in Seq(S) /\ Len(a) = 1 /\ a[1] = e
  OBVIOUS
<1> HIDE DEF a
<1>2. /\ a \o s \in Seq(S)
      /\ Len(a \o s) = 1 + Len(s)
      /\ \A x \in 1..(1 + Len(s)) :
            (a \o s)[x] = IF x =< 1 THEN a[x] ELSE s[x - 1]
  <2>1. /\ a \o s \in Seq(S)
        /\ Len(a \o s) = Len(a) + Len(s)
        /\ \A x \in 1..(Len(a) + Len(s)) :
            (a \o s)[x] = IF x =< Len(a) THEN a[x] ELSE s[x - Len(a)]
    BY <1>1, ConcatFacts
  <2>2. QED
    BY <1>1, <2>1
<1>3. QED
  BY <1>1, <1>2 DEF a

\* What a steal does: p gets another entry i, x and y other contents, and y the
\* children that move.
Moved(t, p, x, y, i, e, xEnts, yEnts, xKids, yKids, moved) ==
    Adopt(Fill(Fill(Replace(t, p, i, e), x, xEnts, xKids), y, yEnts, yKids), y, moved)

\* What the steals have in common: y takes an entry of p, and children of x.
DidMove(t, u, p, x, y, i, e, xEnts, yEnts, xKids, yKids, moved) ==
    /\ Typed(u)
    /\ u.root = t.root /\ Heap(u) = Heap(t)
    /\ \A n \in Heap(t) : Leaf(u, n) = Leaf(t, n)
    /\ \A n \in Heap(t) : Parent(u, n) = IF \E j \in 1..Len(moved) : moved[j] = n THEN y
                                         ELSE Parent(t, n)
    /\ \A n \in Heap(t) \ {p, x, y} : Ents(u, n) = Ents(t, n) /\ Kids(u, n) = Kids(t, n)
    /\ Kids(u, p) = Kids(t, p) /\ KeyCount(u, p) = KeyCount(t, p)
    /\ \A j \in 1..KeyCount(t, p) : EntAt(u, p, j) = IF j = i THEN e ELSE EntAt(t, p, j)
    /\ Ents(u, x) = xEnts /\ Kids(u, x) = xKids
    /\ Ents(u, y) = yEnts /\ Kids(u, y) = yKids

\* Moved does that.
LEMMA MoveFacts ==
    ASSUME NEW t, Typed(t), NEW p \in Heap(t), NEW x \in Heap(t), NEW y \in Heap(t),
           p # x, p # y, x # y,
           NEW i \in 1..KeyCount(t, p), NEW e \in Entry,
           NEW xEnts \in Seq(Entry), NEW yEnts \in Seq(Entry),
           NEW xKids \in Seq(Heap(t)), NEW yKids \in Seq(Heap(t)), NEW moved \in Seq(Heap(t))
    PROVE  DidMove(t, Moved(t, p, x, y, i, e, xEnts, yEnts, xKids, yKids, moved),
                   p, x, y, i, e, xEnts, yEnts, xKids, yKids, moved)
<1> DEFINE u == Moved(t, p, x, y, i, e, xEnts, yEnts, xKids, yKids, moved)
<1> DEFINE a == Replace(t, p, i, e)
           b == Fill(a, x, xEnts, xKids)
           c == Fill(b, y, yEnts, yKids)
           H == Heap(t)
<1>1. Ents(t, p) \in Seq(Entry)
  BY TypedFacts
<1>2. /\ a.root = t.root /\ Heap(a) = H
      /\ \A m \in H :
           Leaf(a, m) = Leaf(t, m) /\ Parent(a, m) = Parent(t, m) /\ Kids(a, m) = Kids(t, m)
      /\ \A m \in H \ {p} : Ents(a, m) = Ents(t, m)
      /\ Ents(a, p) \in Seq(Entry) /\ KeyCount(a, p) = KeyCount(t, p)
      /\ \A j \in 1..KeyCount(t, p) : EntAt(a, p, j) = IF j = i THEN e ELSE EntAt(t, p, j)
  BY <1>1, ReplaceFacts
<1> HIDE DEF a
<1>3. /\ b.root = a.root /\ Heap(b) = Heap(a)
      /\ Ents(b, x) = xEnts /\ Kids(b, x) = xKids
      /\ \A m \in Heap(a) : Leaf(b, m) = Leaf(a, m) /\ Parent(b, m) = Parent(a, m)
      /\ \A m \in Heap(a) \ {x} : Ents(b, m) = Ents(a, m) /\ Kids(b, m) = Kids(a, m)
  BY <1>2, FillFacts
<1> HIDE DEF b
<1>4. /\ c.root = b.root /\ Heap(c) = Heap(b)
      /\ Ents(c, y) = yEnts /\ Kids(c, y) = yKids
      /\ \A m \in Heap(b) : Leaf(c, m) = Leaf(b, m) /\ Parent(c, m) = Parent(b, m)
      /\ \A m \in Heap(b) \ {y} : Ents(c, m) = Ents(b, m) /\ Kids(c, m) = Kids(b, m)
  BY <1>2, <1>3, FillFacts
<1>5. u = Adopt(c, y, moved)
  BY DEF a, b, c, Moved
<1> HIDE DEF c, u
<1>6. moved \in Seq(Heap(c)) /\ Null \notin Heap(c)
  BY <1>2, <1>3, <1>4, NotWreck
<1>7. /\ u.root = c.root
      /\ Heap(u) = Heap(c)
      /\ \A m \in Heap(c) :
            /\ Leaf(u, m) = Leaf(c, m) /\ Ents(u, m) = Ents(c, m)
            /\ Kids(u, m) = Kids(c, m)
            /\ Parent(u, m) = IF \E j \in 1..Len(moved) : moved[j] = m THEN y
                              ELSE Parent(c, m)
  BY <1>5, <1>6, AdoptFacts
<1>8. /\ u.root = t.root /\ Heap(u) = H /\ Heap(a) = H /\ Heap(b) = H /\ Heap(c) = H
  BY <1>2, <1>3, <1>4, <1>7
<1>9. ASSUME NEW n \in H
      PROVE  /\ Leaf(u, n) = Leaf(t, n)
             /\ Parent(u, n) = IF \E j \in 1..Len(moved) : moved[j] = n THEN y
                               ELSE Parent(t, n)
  BY <1>2, <1>3, <1>4, <1>7, <1>8
<1>10. ASSUME NEW n \in H \ {p, x, y}
       PROVE  Ents(u, n) = Ents(t, n) /\ Kids(u, n) = Kids(t, n)
  BY <1>2, <1>3, <1>4, <1>7, <1>8
<1>11. Ents(u, p) = Ents(a, p) /\ Kids(u, p) = Kids(t, p)
  BY <1>2, <1>3, <1>4, <1>7, <1>8
<1>12. KeyCount(u, p) = KeyCount(a, p) /\ \A j : EntAt(u, p, j) = EntAt(a, p, j)
  BY <1>11, SameEnts
<1>13. /\ Ents(u, x) = xEnts /\ Kids(u, x) = xKids
       /\ Ents(u, y) = yEnts /\ Kids(u, y) = yKids
  BY <1>2, <1>3, <1>4, <1>7, <1>8
<1>14. Typed(u)
  <2>1. ASSUME NEW n \in H
        PROVE  /\ Leaf(u, n) \in BOOLEAN /\ Ents(u, n) \in Seq(Entry)
               /\ Kids(u, n) \in Seq(H) /\ Parent(u, n) \in Nat
    <3>1. Leaf(t, n) \in BOOLEAN /\ Ents(t, n) \in Seq(Entry) /\ Kids(t, n) \in Seq(H)
          /\ Parent(t, n) \in Nat /\ Kids(t, p) \in Seq(H)
      BY TypedFacts
    <3>2. Parent(u, n) = y \/ Parent(u, n) = Parent(t, n)
      BY <1>9
    <3>3. y \in Nat
      BY TypedFacts
    <3>4. Parent(u, n) \in Nat
      BY <3>1, <3>2, <3>3
    <3>5. Ents(u, n) \in Seq(Entry) /\ Kids(u, n) \in Seq(H)
      <4>1. CASE n = p
        BY <1>2, <1>11, <3>1, <4>1
      <4>2. CASE n = x
        BY <1>13, <4>2
      <4>3. CASE n = y
        BY <1>13, <4>3
      <4>4. CASE n \in H \ {p, x, y}
        BY <1>10, <3>1, <4>4
      <4>5. QED
        BY <4>1, <4>2, <4>3, <4>4
    <3>6. QED
      BY <1>9, <3>1, <3>4, <3>5
  <2>2. IsFiniteSet(Heap(u)) /\ Heap(u) \subseteq Nat \ {0} /\ u.root \in Heap(u)
    BY <1>8 DEF Typed
  <2>3. QED
    BY <1>8, <2>1, <2>2 DEF Typed
<1>15. QED
  BY <1>2, <1>8, <1>9, <1>10, <1>11, <1>12, <1>13, <1>14 DEF DidMove, u

\* A steal from the right sibling is the two made one and split one entry further
\* to the right.
LEMMA StealRightSplits ==
    ASSUME NEW t, NEW level, NEW span, Formed(t, level, span),
           NEW p \in Heap(t), ~Leaf(t, p), NEW i \in 1..KeyCount(t, p),
           NEW c, c = Kid(t, p, i), NEW r, r = Kid(t, p, i + 1),
           1 =< KeyCount(t, r),
           NEW u, u = StealRight(t, p, i)
    PROVE  /\ Typed(u) /\ u.root = t.root /\ Heap(u) = Heap(t)
           /\ \A n \in Heap(t) : Leaf(u, n) = Leaf(t, n)
           /\ \A n \in Heap(t) \ {p, c, r} : Ents(u, n) = Ents(t, n)
           /\ KeyCount(u, p) = KeyCount(t, p)
           /\ \A j \in 1..KeyCount(t, p) :
                EntAt(u, p, j) = IF j = i THEN EntAt(t, r, 1) ELSE EntAt(t, p, j)
           /\ Kids(u, p) = Kids(t, p)
           /\ KeyCount(u, c) = KeyCount(t, c) + 1
           /\ EntAt(u, c, KeyCount(t, c) + 1) = EntAt(t, p, i)
           /\ KeyCount(u, r) = KeyCount(t, r) - 1
           /\ Splits(Joined(t, p, i), u, p, i, c, KeyCount(t, c) + 2, r)
<1> DEFINE J == Joined(t, p, i)
           H == Heap(t)
           m == KeyCount(t, c) + 2
           moved == IF Leaf(t, c) THEN <<>> ELSE <<Head(Kids(t, r))>>
           rKids == IF Leaf(t, r) THEN Kids(t, r) ELSE Tail(Kids(t, r))
           cEnts == Append(Ents(t, c), Ents(t, p)[i])
           cKids == Kids(t, c) \o moved
           rEnts == Tail(Ents(t, r))
           e == Head(Ents(t, r))
<1>1. Typed(t) /\ Linked(t, level) /\ Spanned(t, span)
  BY DEF Formed
<1>2. /\ i \in 1..KidCount(t, p) /\ i + 1 \in 1..KidCount(t, p)
      /\ c \in H /\ r \in H /\ c # r /\ c # p /\ r # p /\ c # t.root /\ r # t.root
      /\ Parent(t, c) = p /\ Parent(t, r) = p
      /\ Leaf(t, c) = Leaf(t, r)
      /\ KidCount(t, p) = KeyCount(t, p) + 1
      /\ KidCount(t, c) = IF Leaf(t, c) THEN 0 ELSE KeyCount(t, c) + 1
      /\ KidCount(t, r) = IF Leaf(t, c) THEN 0 ELSE KeyCount(t, r) + 1
      /\ KeyCount(t, c) \in Nat /\ KeyCount(t, r) \in Nat /\ KeyCount(t, p) \in Nat
      /\ KidCount(t, c) \in Nat /\ KidCount(t, r) \in Nat /\ KidCount(t, p) \in Nat
  BY JoinPlace
<1>3. Typed(J) /\ Joins(t, J, p, i, c, r)
  BY JoinedFacts
<1> HIDE DEF J
<1>4. Ents(t, r) # <<>> /\ Ents(t, r) \in Seq(Entry) /\ Len(Ents(t, r)) = KeyCount(t, r)
      /\ Ents(t, c) \in Seq(Entry) /\ Ents(t, p) \in Seq(Entry)
  <2>1. Ents(t, r) \in Seq(Entry) /\ Ents(t, c) \in Seq(Entry) /\ Ents(t, p) \in Seq(Entry)
    BY <1>1, <1>2, TypedFacts
  <2>2. Ents(t, r) # <<>>
    BY <1>2 DEF KeyCount
  <2>3. QED
    BY <2>1, <2>2 DEF KeyCount
<1>5. /\ e \in Entry /\ e = EntAt(t, r, 1)
      /\ rEnts \in Seq(Entry) /\ Len(rEnts) = KeyCount(t, r) - 1
      /\ \A j \in 1..(KeyCount(t, r) - 1) : rEnts[j] = EntAt(t, r, j + 1)
  <2>1. /\ Head(Ents(t, r)) \in Entry /\ Head(Ents(t, r)) = Ents(t, r)[1]
        /\ Tail(Ents(t, r)) \in Seq(Entry) /\ Len(Tail(Ents(t, r))) = Len(Ents(t, r)) - 1
        /\ \A j \in 1..(Len(Ents(t, r)) - 1) : Tail(Ents(t, r))[j] = Ents(t, r)[j + 1]
    BY <1>4, TailFacts
  <2>2. QED
    BY <1>4, <2>1 DEF EntAt
<1>6. /\ cEnts \in Seq(Entry) /\ Len(cEnts) = KeyCount(t, c) + 1
      /\ \A j \in 1..(KeyCount(t, c) + 1) :
            cEnts[j] = IF j =< KeyCount(t, c) THEN EntAt(t, c, j) ELSE EntAt(t, p, i)
  <2>1. Ents(t, p)[i] \in Entry
    BY <1>1, TypedFacts DEF EntAt
  <2>2. /\ Append(Ents(t, c), Ents(t, p)[i]) \in Seq(Entry)
        /\ Len(Append(Ents(t, c), Ents(t, p)[i])) = Len(Ents(t, c)) + 1
        /\ \A j \in 1..(Len(Ents(t, c)) + 1) :
                Append(Ents(t, c), Ents(t, p)[i])[j] =
                    IF j =< Len(Ents(t, c)) THEN Ents(t, c)[j] ELSE Ents(t, p)[i]
    BY <1>4, <2>1, AppendFacts
  <2>3. QED
    BY <2>2 DEF KeyCount, EntAt
<1>7. /\ moved \in Seq(H) /\ Len(moved) = IF Leaf(t, c) THEN 0 ELSE 1
      /\ ~Leaf(t, c) => moved[1] = Kid(t, r, 1)
      /\ rKids \in Seq(H) /\ Len(rKids) = IF Leaf(t, c) THEN 0 ELSE KidCount(t, r) - 1
      /\ \A j \in 1..(KidCount(t, r) - 1) : ~Leaf(t, c) => rKids[j] = Kid(t, r, j + 1)
  <2>1. Kids(t, r) \in Seq(H) /\ Len(Kids(t, r)) = KidCount(t, r)
    BY <1>1, <1>2, TypedFacts DEF KidCount
  <2>2. CASE Leaf(t, c)
    <3>1. moved = <<>> /\ rKids = Kids(t, r) /\ KidCount(t, r) = 0
      BY <1>2, <2>2
    <3> HIDE DEF moved, rKids
    <3>2. moved \in Seq(H) /\ Len(moved) = 0
      BY <3>1
    <3>3. rKids \in Seq(H) /\ Len(rKids) = 0
      BY <2>1, <3>1
    <3>4. QED
      BY <2>2, <3>2, <3>3
  <2>3. CASE ~Leaf(t, c)
    <3>7. Leaf(t, c) = Leaf(t, r)
      BY <1>2
    <3>0. ~Leaf(t, r)
      BY <2>3, <3>7
    <3>1. moved = <<Head(Kids(t, r))>> /\ rKids = Tail(Kids(t, r))
      BY <2>3, <3>0
    <3>2. Kids(t, r) # <<>>
      BY <1>2, <2>1, <2>3
    <3>3. /\ Head(Kids(t, r)) \in H /\ Head(Kids(t, r)) = Kids(t, r)[1]
          /\ Tail(Kids(t, r)) \in Seq(H) /\ Len(Tail(Kids(t, r))) = Len(Kids(t, r)) - 1
          /\ \A j \in 1..(Len(Kids(t, r)) - 1) : Tail(Kids(t, r))[j] = Kids(t, r)[j + 1]
      BY <2>1, <3>2, TailFacts
    <3> HIDE DEF moved, rKids
    <3>4. moved \in Seq(H) /\ Len(moved) = 1 /\ moved[1] = Kid(t, r, 1)
      BY <3>1, <3>3 DEF Kid
    <3>5. rKids \in Seq(H) /\ Len(rKids) = KidCount(t, r) - 1
          /\ \A j \in 1..(KidCount(t, r) - 1) : rKids[j] = Kid(t, r, j + 1)
      <4> DEFINE kids == Kids(t, r)
      <4>1. rKids = Tail(kids) /\ Tail(kids) \in Seq(H) /\ Len(Tail(kids)) = Len(kids) - 1
            /\ Len(kids) = KidCount(t, r) /\ \A j : kids[j] = Kid(t, r, j)
        BY <2>1, <3>1, <3>3 DEF Kid
      <4>2. \A j \in 1..(Len(kids) - 1) : Tail(kids)[j] = kids[j + 1]
        BY <3>3
      <4> HIDE DEF kids, H
      <4>3. QED
        BY <4>1, <4>2
    <3>6. QED
      BY <2>3, <3>4, <3>5
  <2>4. QED
    BY <2>2, <2>3
<1> HIDE DEF moved, rKids
<1>8. /\ cKids \in Seq(H) /\ Len(cKids) = KidCount(t, c) + Len(moved)
      /\ \A j \in 1..(KidCount(t, c) + Len(moved)) :
            cKids[j] = IF j =< KidCount(t, c) THEN Kid(t, c, j) ELSE moved[j - KidCount(t, c)]
  <2>1. Kids(t, c) \in Seq(H) /\ Len(Kids(t, c)) = KidCount(t, c)
    BY <1>1, <1>2, TypedFacts DEF KidCount
  <2>2. /\ Kids(t, c) \o moved \in Seq(H)
        /\ Len(Kids(t, c) \o moved) = Len(Kids(t, c)) + Len(moved)
        /\ \A x \in 1..(Len(Kids(t, c)) + Len(moved)) :
             (Kids(t, c) \o moved)[x] =
                IF x =< Len(Kids(t, c)) THEN Kids(t, c)[x] ELSE moved[x - Len(Kids(t, c))]
    <3>1. Kids(t, c) \in Seq(H) /\ moved \in Seq(H)
      BY <1>7, <2>1
    <3> HIDE DEF H
    <3>2. QED
      BY <3>1, ConcatFacts
  <2>3. QED
    BY <2>1, <2>2 DEF Kid
<1>9. u = Moved(t, p, r, c, i, e, rEnts, cEnts, rKids, cKids, moved)
  <2>1. c = Kids(t, p)[i] /\ r = Kids(t, p)[i + 1]
    BY DEF Kid
  <2>2. QED
    BY <2>1 DEF StealRight, Moved, moved, rKids
<1> HIDE DEF e, cEnts, cKids, rEnts
<1>10. /\ Typed(u)
       /\ u.root = t.root /\ Heap(u) = Heap(t)
       /\ \A n \in Heap(t) : Leaf(u, n) = Leaf(t, n)
       /\ \A n \in Heap(t) : Parent(u, n) = IF \E j \in 1..Len(moved) : moved[j] = n THEN c
                                            ELSE Parent(t, n)
       /\ \A n \in Heap(t) \ {p, r, c} : Ents(u, n) = Ents(t, n) /\ Kids(u, n) = Kids(t, n)
       /\ Kids(u, p) = Kids(t, p) /\ KeyCount(u, p) = KeyCount(t, p)
       /\ \A j \in 1..KeyCount(t, p) : EntAt(u, p, j) = IF j = i THEN e ELSE EntAt(t, p, j)
       /\ Ents(u, r) = rEnts /\ Kids(u, r) = rKids
       /\ Ents(u, c) = cEnts /\ Kids(u, c) = cKids
  <2>1. /\ Typed(t) /\ c \in Heap(t) /\ r \in Heap(t) /\ p # r /\ p # c /\ r # c
        /\ e \in Entry /\ rEnts \in Seq(Entry) /\ cEnts \in Seq(Entry)
        /\ rKids \in Seq(Heap(t)) /\ cKids \in Seq(Heap(t)) /\ moved \in Seq(Heap(t))
    BY <1>1, <1>2, <1>5, <1>6, <1>7, <1>8
  <2> HIDE DEF H, m
  <2>2. DidMove(t, u, p, r, c, i, e, rEnts, cEnts, rKids, cKids, moved)
    BY <1>9, <2>1, MoveFacts
  <2>3. QED
    BY <2>2 DEF DidMove
<1>11. /\ KeyCount(u, c) = KeyCount(t, c) + 1
       /\ \A j \in 1..(KeyCount(t, c) + 1) :
            EntAt(u, c, j) = IF j =< KeyCount(t, c) THEN EntAt(t, c, j) ELSE EntAt(t, p, i)
       /\ KidCount(u, c) = KidCount(t, c) + Len(moved)
       /\ \A j \in 1..(KidCount(t, c) + Len(moved)) :
            Kid(u, c, j) = IF j =< KidCount(t, c) THEN Kid(t, c, j) ELSE moved[j - KidCount(t, c)]
  BY <1>6, <1>8, <1>10 DEF KeyCount, EntAt, KidCount, Kid
<1>12. /\ KeyCount(u, r) = KeyCount(t, r) - 1
       /\ \A j \in 1..(KeyCount(t, r) - 1) : EntAt(u, r, j) = EntAt(t, r, j + 1)
       /\ KidCount(u, r) = IF Leaf(t, c) THEN 0 ELSE KidCount(t, r) - 1
       /\ \A j \in 1..(KidCount(t, r) - 1) : ~Leaf(t, c) => Kid(u, r, j) = Kid(t, r, j + 1)
  BY <1>5, <1>7, <1>10 DEF KeyCount, EntAt, KidCount, Kid
<1>13. /\ J.root = t.root
       /\ Heap(J) = H \ {r}
       /\ \A n \in Heap(J) : Leaf(J, n) = Leaf(t, n)
       /\ \A n \in Heap(J) :
            Parent(J, n) = IF \E j \in 1..KidCount(t, r) : Kid(t, r, j) = n
                           THEN c ELSE Parent(t, n)
       /\ \A n \in Heap(J) \ {c, p} : Ents(J, n) = Ents(t, n) /\ Kids(J, n) = Kids(t, n)
       /\ KeyCount(J, p) = KeyCount(t, p) - 1
       /\ \A j \in 1..(KeyCount(t, p) - 1) :
            EntAt(J, p, j) = IF j < i THEN EntAt(t, p, j) ELSE EntAt(t, p, j + 1)
       /\ KidCount(J, p) = KidCount(t, p) - 1
       /\ \A j \in 1..(KidCount(t, p) - 1) :
            Kid(J, p, j) = IF j < i + 1 THEN Kid(t, p, j) ELSE Kid(t, p, j + 1)
       /\ KeyCount(J, c) = KeyCount(t, c) + 1 + KeyCount(t, r)
       /\ \A j \in 1..(KeyCount(t, c) + 1 + KeyCount(t, r)) :
            EntAt(J, c, j) = IF j =< KeyCount(t, c) THEN EntAt(t, c, j)
                             ELSE IF j = KeyCount(t, c) + 1 THEN EntAt(t, p, i)
                             ELSE EntAt(t, r, j - KeyCount(t, c) - 1)
       /\ KidCount(J, c) = KidCount(t, c) + KidCount(t, r)
       /\ \A j \in 1..(KidCount(t, c) + KidCount(t, r)) :
            Kid(J, c, j) = IF j =< KidCount(t, c) THEN Kid(t, c, j)
                           ELSE Kid(t, r, j - KidCount(t, c))
  BY <1>3 DEF Joins
<1> DEFINE a == KeyCount(t, c)
           b == KeyCount(t, r)
           l == KeyCount(t, p)
<1>14. a \in Nat /\ b \in Nat /\ 1 =< b /\ l \in Nat /\ i \in 1..l /\ m = a + 2
       /\ KidCount(t, p) = l + 1
  BY <1>2
<1>15. Splits(J, u, p, i, c, m, r)
  <2> HIDE DEF a, b, l, m, H
  <2>1. u.root = J.root /\ Heap(u) = Heap(J) \cup {r}
    BY <1>2, <1>10, <1>13 DEF H
  <2>2. \A n \in Heap(J) : Leaf(u, n) = Leaf(J, n)
    BY <1>10, <1>13 DEF H
  <2>3. Leaf(u, r) = Leaf(J, c)
    BY <1>2, <1>10, <1>13 DEF H
  <2>4. Parent(u, r) = p
    <3>1. \A j \in 1..Len(moved) : moved[j] # r
      <4>1. \A j \in 1..KidCount(t, r) : Kid(t, r, j) # r
        BY <1>2, KidFacts DEF H
      <4>2. CASE Leaf(t, c)
        <5>1. Len(moved) = 0
          BY <1>7, <4>2
        <5>2. QED
          BY <5>1
      <4>3. CASE ~Leaf(t, c)
        <5>1. Len(moved) = 1 /\ moved[1] = Kid(t, r, 1)
          BY <1>7, <4>3
        <5>2. 1 \in 1..KidCount(t, r)
          BY <1>2, <4>3
        <5>3. moved[1] # r
          BY <4>1, <5>1, <5>2
        <5>4. QED
          BY <5>1, <5>3
      <4>4. QED
        BY <4>2, <4>3
    <3>2. QED
      BY <1>2, <1>10, <3>1 DEF H
  <2>5. ASSUME NEW n \in Heap(J)
        PROVE  Parent(u, n) = IF \E j \in (m + 1)..KidCount(J, c) : Kid(J, c, j) = n
                              THEN r ELSE Parent(J, n)
    <3>1. n \in H /\ n # r
      BY <1>13
    <3>2. CASE Leaf(t, c)
      <4>1. KidCount(t, r) = 0 /\ KidCount(J, c) = 0 /\ Len(moved) = 0
        BY <1>2, <1>7, <1>13, <3>2
      <4>2. Parent(u, n) = Parent(t, n) /\ Parent(J, n) = Parent(t, n)
        BY <1>10, <1>13, <3>1, <4>1 DEF H
      <4>3. ~ \E j \in (m + 1)..KidCount(J, c) : Kid(J, c, j) = n
        BY <1>14, <4>1
      <4>4. QED
        BY <4>2, <4>3
    <3>3. CASE ~Leaf(t, c)
      <4>1. KidCount(t, c) = a + 1 /\ KidCount(t, r) = b + 1 /\ KidCount(J, c) = a + b + 2
        BY <1>2, <1>13, <1>14, <3>3 DEF a, b
      <4>2. (\E j \in 1..Len(moved) : moved[j] = n) <=> n = Kid(t, r, 1)
        <5>1. Len(moved) = 1 /\ moved[1] = Kid(t, r, 1)
          BY <1>7, <3>3
        <5>2. QED
          BY <5>1
      <4>3. (\E j \in (m + 1)..KidCount(J, c) : Kid(J, c, j) = n)
            <=> (\E j \in 2..(b + 1) : Kid(t, r, j) = n)
        <5>1. ASSUME NEW j \in (m + 1)..KidCount(J, c)
              PROVE  j - (a + 1) \in 2..(b + 1) /\ Kid(J, c, j) = Kid(t, r, j - (a + 1))
          <6>1. j - (a + 1) \in 2..(b + 1) /\ j \in 1..(KidCount(t, c) + KidCount(t, r))
                /\ ~(j =< KidCount(t, c))
            BY <1>14, <4>1
          <6>2. QED
            BY <1>13, <4>1, <6>1
        <5>2. ASSUME NEW j \in 2..(b + 1)
              PROVE  j + (a + 1) \in (m + 1)..KidCount(J, c)
                     /\ Kid(J, c, j + (a + 1)) = Kid(t, r, j)
          <6>1. /\ j + (a + 1) \in (m + 1)..KidCount(J, c)
                /\ (j + (a + 1)) - (a + 1) = j
            BY <1>14, <4>1
          <6>2. QED
            BY <5>1, <6>1
        <5>3. QED
          BY <5>1, <5>2
      <4>4. (\E j \in 1..KidCount(t, r) : Kid(t, r, j) = n)
            <=> n = Kid(t, r, 1) \/ \E j \in 2..(b + 1) : Kid(t, r, j) = n
        <5>1. \A j \in 1..KidCount(t, r) : j = 1 \/ j \in 2..(b + 1)
          BY <1>14, <4>1
        <5>2. 1 \in 1..KidCount(t, r) /\ \A j \in 2..(b + 1) : j \in 1..KidCount(t, r)
          BY <1>14, <4>1
        <5>3. QED
          BY <5>1, <5>2
      <4>5. Parent(J, n) = IF \E j \in 1..KidCount(t, r) : Kid(t, r, j) = n
                           THEN c ELSE Parent(t, n)
        BY <1>13
      <4>6. Parent(u, n) = IF n = Kid(t, r, 1) THEN c ELSE Parent(t, n)
        BY <1>10, <3>1, <4>2 DEF H
      <4>7. \A j \in 2..(b + 1) : Kid(t, r, j) # Kid(t, r, 1) /\ Parent(t, Kid(t, r, j)) = r
        <5>1. \A j \in 2..(b + 1) : j \in 1..KidCount(t, r) /\ j # 1
          BY <1>14, <4>1
        <5>2. 1 \in 1..KidCount(t, r)
          BY <1>14, <4>1
        <5>3. \A j \in 1..KidCount(t, r) :
                /\ Parent(t, Kid(t, r, j)) = r
                /\ \A k \in 1..KidCount(t, r) : Kid(t, r, j) = Kid(t, r, k) => j = k
          BY <1>2, KidFacts DEF H
        <5>4. QED
          BY <5>1, <5>2, <5>3
      <4>8. QED
        BY <4>3, <4>4, <4>5, <4>6, <4>7
    <3>4. QED
      BY <3>2, <3>3
  <2>6. \A n \in Heap(J) \ {c, p} : Ents(u, n) = Ents(J, n) /\ Kids(u, n) = Kids(J, n)
    <3>1. ASSUME NEW n \in Heap(J) \ {c, p}
          PROVE  Ents(u, n) = Ents(J, n) /\ Kids(u, n) = Kids(J, n)
      <4>1. n \in Heap(t) \ {p, r, c}
        BY <1>13 DEF H
      <4>2. QED
        BY <1>10, <1>13, <4>1
    <3>2. QED
      BY <3>1
  <2>7. KeyCount(u, p) = KeyCount(J, p) + 1 /\ KidCount(u, p) = KidCount(J, p) + 1
    BY <1>10, <1>13, <1>14, SameKids DEF l
  <2>8. ASSUME NEW j \in 1..(KeyCount(J, p) + 1)
        PROVE  EntAt(u, p, j) = IF j < i THEN EntAt(J, p, j)
                                ELSE IF j = i THEN EntAt(J, c, m) ELSE EntAt(J, p, j - 1)
    <3>1. KeyCount(J, p) = l - 1 /\ j \in 1..l
      BY <1>13, <1>14 DEF l
    <3>2. EntAt(u, p, j) = IF j = i THEN e ELSE EntAt(t, p, j)
      BY <1>10, <3>1 DEF l
    <3>3. EntAt(J, c, m) = e
      <4>1. m \in 1..(a + 1 + b) /\ ~(m =< a) /\ m # a + 1 /\ m - a - 1 = 1
        BY <1>14
      <4>2. EntAt(J, c, m) = EntAt(t, r, m - a - 1)
        BY <1>13, <4>1 DEF a, b
      <4>3. QED
        BY <1>5, <4>1, <4>2
    <3>4. j < i => EntAt(J, p, j) = EntAt(t, p, j)
      <4>1. SUFFICES ASSUME j < i PROVE EntAt(J, p, j) = EntAt(t, p, j)
        OBVIOUS
      <4>2. j \in 1..(l - 1)
        BY <1>14, <3>1, <4>1
      <4>3. QED
        BY <1>13, <4>1, <4>2 DEF l
    <3>5. j > i => EntAt(J, p, j - 1) = EntAt(t, p, j)
      <4>1. SUFFICES ASSUME j > i PROVE EntAt(J, p, j - 1) = EntAt(t, p, j)
        OBVIOUS
      <4>2. j - 1 \in 1..(l - 1) /\ ~(j - 1 < i) /\ (j - 1) + 1 = j
        BY <1>14, <3>1, <4>1
      <4>3. EntAt(J, p, j - 1) = EntAt(t, p, (j - 1) + 1)
        BY <1>13, <4>2 DEF l
      <4>4. QED
        BY <4>2, <4>3
    <3>6. QED
      BY <1>14, <3>1, <3>2, <3>3, <3>4, <3>5
  <2>9. ASSUME NEW j \in 1..(KidCount(J, p) + 1)
        PROVE  Kid(u, p, j) = IF j < i + 1 THEN Kid(J, p, j)
                              ELSE IF j = i + 1 THEN r ELSE Kid(J, p, j - 1)
    <3>1. KidCount(J, p) = l /\ j \in 1..(l + 1)
      BY <1>13, <1>14 DEF l
    <3>2. Kid(u, p, j) = Kid(t, p, j)
      BY <1>10, SameKids
    <3>3. j < i + 1 => Kid(J, p, j) = Kid(t, p, j)
      <4>1. SUFFICES ASSUME j < i + 1 PROVE Kid(J, p, j) = Kid(t, p, j)
        OBVIOUS
      <4>2. j \in 1..(KidCount(t, p) - 1)
        BY <1>14, <3>1, <4>1
      <4>3. QED
        BY <1>13, <4>1, <4>2
    <3>4. j > i + 1 => Kid(J, p, j - 1) = Kid(t, p, j)
      <4>1. SUFFICES ASSUME j > i + 1 PROVE Kid(J, p, j - 1) = Kid(t, p, j)
        OBVIOUS
      <4>2. j - 1 \in 1..(KidCount(t, p) - 1) /\ ~(j - 1 < i + 1) /\ (j - 1) + 1 = j
        BY <1>14, <3>1, <4>1
      <4>3. Kid(J, p, j - 1) = Kid(t, p, (j - 1) + 1)
        BY <1>13, <4>2
      <4>4. QED
        BY <4>2, <4>3
    <3>5. QED
      BY <1>14, <3>1, <3>2, <3>3, <3>4
  <2>10. KeyCount(u, c) = m - 1
    BY <1>11, <1>14 DEF a
  <2>11. ASSUME NEW j \in 1..(m - 1)
         PROVE  EntAt(u, c, j) = EntAt(J, c, j)
    <3>1. j \in 1..(a + 1) /\ j \in 1..(a + 1 + b) /\ (~(j =< a) => j = a + 1)
      BY <1>14
    <3>2. QED
      BY <1>11, <1>13, <3>1 DEF a, b
  <2>12. KidCount(u, c) = IF Leaf(J, c) THEN 0 ELSE m
    <3>1. Leaf(J, c) = Leaf(t, c)
      BY <1>2, <1>13
    <3>2. KidCount(u, c) = KidCount(t, c) + Len(moved)
      BY <1>11
    <3>3. KidCount(t, c) = IF Leaf(t, c) THEN 0 ELSE a + 1
      BY <1>2 DEF a
    <3>4. Len(moved) = IF Leaf(t, c) THEN 0 ELSE 1
      BY <1>7
    <3>5. QED
      BY <1>14, <3>1, <3>2, <3>3, <3>4
  <2>13. ASSUME NEW j \in 1..m, ~Leaf(J, c)
         PROVE  Kid(u, c, j) = Kid(J, c, j)
    <3>1. ~Leaf(t, c)
      BY <1>2, <1>13, <2>13
    <3>2. KidCount(t, c) = a + 1 /\ KidCount(t, r) = b + 1 /\ Len(moved) = 1
          /\ moved[1] = Kid(t, r, 1)
      BY <1>2, <1>7, <3>1 DEF a, b
    <3>3. j \in 1..(a + 1 + 1) /\ j \in 1..(a + 1 + (b + 1))
          /\ (~(j =< a + 1) => j - (a + 1) = 1)
      BY <1>14
    <3>4. Kid(u, c, j) = IF j =< a + 1 THEN Kid(t, c, j) ELSE moved[j - (a + 1)]
      BY <1>11, <3>2, <3>3
    <3>5. Kid(J, c, j) = IF j =< a + 1 THEN Kid(t, c, j) ELSE Kid(t, r, j - (a + 1))
      BY <1>13, <3>2, <3>3
    <3>6. QED
      BY <3>2, <3>3, <3>4, <3>5
  <2>14. KeyCount(u, r) = KeyCount(J, c) - m
    BY <1>12, <1>13, <1>14 DEF a, b
  <2>15. ASSUME NEW j \in 1..(KeyCount(J, c) - m)
         PROVE  EntAt(u, r, j) = EntAt(J, c, j + m)
    <3>1. j \in 1..(b - 1)
      BY <1>13, <1>14 DEF a, b
    <3>2. j + m \in 1..(a + 1 + b) /\ ~(j + m =< a) /\ j + m # a + 1 /\ j + m - a - 1 = j + 1
      BY <1>14, <3>1
    <3>8. PICK z : z = j + m
      OBVIOUS
    <3>6. z \in 1..(a + 1 + b) /\ ~(z =< a) /\ z # a + 1 /\ z - a - 1 = j + 1
      BY <1>14, <3>1, <3>2, <3>8
    <3>3. EntAt(J, c, z) = EntAt(t, r, z - a - 1)
      BY <1>13, <3>6 DEF a, b
    <3>4. EntAt(u, r, j) = EntAt(t, r, j + 1)
      BY <1>12, <3>1 DEF b
    <3>5. QED
      BY <3>3, <3>4, <3>6, <3>8
  <2>16. KidCount(u, r) = IF Leaf(J, c) THEN 0 ELSE KidCount(J, c) - m
    <3>1. Leaf(J, c) = Leaf(t, c)
      BY <1>2, <1>13
    <3>2. QED
      BY <1>2, <1>12, <1>13, <1>14, <3>1 DEF a
  <2>17. ASSUME NEW j \in 1..(KidCount(J, c) - m), ~Leaf(J, c)
         PROVE  Kid(u, r, j) = Kid(J, c, j + m)
    <3>1. ~Leaf(t, c)
      BY <1>2, <1>13, <2>17
    <3>2. KidCount(t, c) = a + 1 /\ KidCount(t, r) = b + 1 /\ KidCount(J, c) = a + 1 + (b + 1)
      BY <1>2, <1>13, <3>1 DEF a, b
    <3>3. j \in 1..b /\ j + m \in 1..(a + 1 + (b + 1)) /\ ~(j + m =< a + 1)
          /\ j + m - (a + 1) = j + 1 /\ (b + 1) - 1 = b
      BY <1>14, <3>2
    <3>8. PICK z : z = j + m
      OBVIOUS
    <3>7. z \in 1..(KidCount(t, c) + KidCount(t, r)) /\ ~(z =< KidCount(t, c))
          /\ z - KidCount(t, c) = j + 1
      BY <1>14, <3>2, <3>3, <3>8
    <3>4. Kid(J, c, z) = Kid(t, r, z - KidCount(t, c))
      BY <1>13, <3>7
    <3>5. Kid(u, r, j) = Kid(t, r, j + 1)
      BY <1>12, <3>1, <3>2, <3>3
    <3>6. QED
      BY <3>4, <3>5, <3>7, <3>8
  <2>18. QED
    BY <2>1, <2>2, <2>3, <2>4, <2>5, <2>6, <2>7, <2>8, <2>9, <2>10, <2>11, <2>12, <2>13,
       <2>14, <2>15, <2>16, <2>17 DEF Splits
<1>16. EntAt(u, c, KeyCount(t, c) + 1) = EntAt(t, p, i)
  BY <1>2, <1>11
<1>17. QED
  BY <1>5, <1>10, <1>11, <1>12, <1>15, <1>16 DEF J

\* A steal from the left sibling is the two made one and split one entry further
\* to the left.
LEMMA StealLeftSplits ==
    ASSUME NEW t, NEW level, NEW span, Formed(t, level, span),
           NEW p \in Heap(t), ~Leaf(t, p), NEW i \in 1..KeyCount(t, p),
           NEW l, l = Kid(t, p, i), NEW c, c = Kid(t, p, i + 1),
           1 =< KeyCount(t, l),
           NEW u, u = StealLeft(t, p, i)
    PROVE  /\ Typed(u) /\ u.root = t.root /\ Heap(u) = Heap(t)
           /\ \A n \in Heap(t) : Leaf(u, n) = Leaf(t, n)
           /\ \A n \in Heap(t) \ {p, l, c} : Ents(u, n) = Ents(t, n)
           /\ KeyCount(u, p) = KeyCount(t, p)
           /\ \A j \in 1..KeyCount(t, p) :
                EntAt(u, p, j) = IF j = i THEN EntAt(t, l, KeyCount(t, l)) ELSE EntAt(t, p, j)
           /\ Kids(u, p) = Kids(t, p)
           /\ KeyCount(u, c) = KeyCount(t, c) + 1
           /\ KeyCount(u, l) = KeyCount(t, l) - 1
           /\ Splits(Joined(t, p, i), u, p, i, l, KeyCount(t, l), c)
<1> DEFINE J == Joined(t, p, i)
           H == Heap(t)
           m == KeyCount(t, l)
           moved == IF Leaf(t, c) THEN <<>> ELSE <<Last(Kids(t, l))>>
           lKids == IF Leaf(t, l) THEN Kids(t, l) ELSE Front(Kids(t, l))
           cEnts == <<Ents(t, p)[i]>> \o Ents(t, c)
           cKids == moved \o Kids(t, c)
           lEnts == Front(Ents(t, l))
           e == Last(Ents(t, l))
<1>1. Typed(t) /\ Linked(t, level) /\ Spanned(t, span)
  BY DEF Formed
<1>2. /\ i \in 1..KidCount(t, p) /\ i + 1 \in 1..KidCount(t, p)
      /\ l \in H /\ c \in H /\ l # c /\ l # p /\ c # p /\ l # t.root /\ c # t.root
      /\ Parent(t, l) = p /\ Parent(t, c) = p
      /\ Leaf(t, l) = Leaf(t, c)
      /\ KidCount(t, p) = KeyCount(t, p) + 1
      /\ KidCount(t, l) = IF Leaf(t, l) THEN 0 ELSE KeyCount(t, l) + 1
      /\ KidCount(t, c) = IF Leaf(t, l) THEN 0 ELSE KeyCount(t, c) + 1
      /\ KeyCount(t, l) \in Nat /\ KeyCount(t, c) \in Nat /\ KeyCount(t, p) \in Nat
      /\ KidCount(t, l) \in Nat /\ KidCount(t, c) \in Nat /\ KidCount(t, p) \in Nat
  BY JoinPlace
<1>3. Typed(J) /\ Joins(t, J, p, i, l, c)
  BY JoinedFacts
<1> HIDE DEF J
<1>4. Ents(t, l) # <<>> /\ Ents(t, l) \in Seq(Entry) /\ Len(Ents(t, l)) = KeyCount(t, l)
      /\ Ents(t, c) \in Seq(Entry) /\ Ents(t, p) \in Seq(Entry)
  <2>1. Ents(t, l) \in Seq(Entry) /\ Ents(t, c) \in Seq(Entry) /\ Ents(t, p) \in Seq(Entry)
    BY <1>1, <1>2, TypedFacts
  <2>2. Ents(t, l) # <<>>
    BY <1>2 DEF KeyCount
  <2>3. QED
    BY <2>1, <2>2 DEF KeyCount
<1>5. /\ e \in Entry /\ e = EntAt(t, l, KeyCount(t, l))
      /\ lEnts \in Seq(Entry) /\ Len(lEnts) = KeyCount(t, l) - 1
      /\ \A j \in 1..(KeyCount(t, l) - 1) : lEnts[j] = EntAt(t, l, j)
  <2>1. /\ Last(Ents(t, l)) \in Entry /\ Last(Ents(t, l)) = Ents(t, l)[Len(Ents(t, l))]
        /\ Front(Ents(t, l)) \in Seq(Entry) /\ Len(Front(Ents(t, l))) = Len(Ents(t, l)) - 1
        /\ \A j \in 1..(Len(Ents(t, l)) - 1) : Front(Ents(t, l))[j] = Ents(t, l)[j]
    BY <1>4, FrontFacts
  <2>2. QED
    BY <1>4, <2>1 DEF EntAt
<1>6. /\ cEnts \in Seq(Entry) /\ Len(cEnts) = KeyCount(t, c) + 1
      /\ \A j \in 1..(KeyCount(t, c) + 1) :
            cEnts[j] = IF j = 1 THEN EntAt(t, p, i) ELSE EntAt(t, c, j - 1)
  <2> DEFINE f == Ents(t, p)[i]
             z == Ents(t, c)
  <2>1. f \in Entry /\ f = EntAt(t, p, i)
    BY <1>1, TypedFacts DEF EntAt
  <2>2. z \in Seq(Entry) /\ Len(z) = KeyCount(t, c) /\ \A j : z[j] = EntAt(t, c, j)
    BY <1>4 DEF KeyCount, EntAt
  <2>3. cEnts = <<f>> \o z
    OBVIOUS
  <2> HIDE DEF f, z, cEnts
  <2>4. z \in Seq(Entry)
    BY <2>2
  <2>5. /\ <<f>> \o z \in Seq(Entry) /\ Len(<<f>> \o z) = Len(z) + 1
        /\ \A j \in 1..(Len(z) + 1) : (<<f>> \o z)[j] = IF j = 1 THEN f ELSE z[j - 1]
    BY <2>1, <2>4, PrependFacts
  <2>6. QED
    BY <2>1, <2>2, <2>3, <2>5
<1>7. /\ moved \in Seq(H) /\ Len(moved) = IF Leaf(t, l) THEN 0 ELSE 1
      /\ ~Leaf(t, l) => moved[1] = Kid(t, l, KidCount(t, l))
      /\ lKids \in Seq(H) /\ Len(lKids) = IF Leaf(t, l) THEN 0 ELSE KidCount(t, l) - 1
      /\ \A j \in 1..(KidCount(t, l) - 1) : ~Leaf(t, l) => lKids[j] = Kid(t, l, j)
  <2>1. Kids(t, l) \in Seq(H) /\ Len(Kids(t, l)) = KidCount(t, l)
    BY <1>1, <1>2, TypedFacts DEF KidCount
  <2>4. Leaf(t, l) = Leaf(t, c)
    BY <1>2
  <2>2. CASE Leaf(t, l)
    <3>1. moved = <<>> /\ lKids = Kids(t, l) /\ KidCount(t, l) = 0
      <4>1. Leaf(t, c)
        BY <2>2, <2>4
      <4>2. KidCount(t, l) = 0
        BY <1>2, <2>2
      <4>3. QED
        BY <2>2, <4>1, <4>2
    <3> HIDE DEF moved, lKids
    <3>2. moved \in Seq(H) /\ Len(moved) = 0
      BY <3>1
    <3>3. lKids \in Seq(H) /\ Len(lKids) = 0
      BY <2>1, <3>1
    <3>4. QED
      BY <2>2, <3>2, <3>3
  <2>3. CASE ~Leaf(t, l)
    <3>0. ~Leaf(t, c)
      BY <2>3, <2>4
    <3>1. moved = <<Last(Kids(t, l))>> /\ lKids = Front(Kids(t, l))
      BY <2>3, <3>0
    <3>2. Kids(t, l) # <<>>
      BY <1>2, <2>1, <2>3
    <3>3. /\ Last(Kids(t, l)) \in H /\ Last(Kids(t, l)) = Kids(t, l)[Len(Kids(t, l))]
          /\ Front(Kids(t, l)) \in Seq(H) /\ Len(Front(Kids(t, l))) = Len(Kids(t, l)) - 1
          /\ \A j \in 1..(Len(Kids(t, l)) - 1) : Front(Kids(t, l))[j] = Kids(t, l)[j]
      BY <2>1, <3>2, FrontFacts
    <3> HIDE DEF moved, lKids
    <3>4. moved \in Seq(H) /\ Len(moved) = 1 /\ moved[1] = Kid(t, l, KidCount(t, l))
      BY <2>1, <3>1, <3>3 DEF Kid
    <3>5. lKids \in Seq(H) /\ Len(lKids) = KidCount(t, l) - 1
          /\ \A j \in 1..(KidCount(t, l) - 1) : lKids[j] = Kid(t, l, j)
      <4> DEFINE kids == Kids(t, l)
      <4>1. lKids = Front(kids) /\ Front(kids) \in Seq(H) /\ Len(Front(kids)) = Len(kids) - 1
            /\ Len(kids) = KidCount(t, l) /\ \A j : kids[j] = Kid(t, l, j)
        BY <2>1, <3>1, <3>3 DEF Kid
      <4>2. \A j \in 1..(Len(kids) - 1) : Front(kids)[j] = kids[j]
        BY <3>3
      <4> HIDE DEF kids, H
      <4>3. QED
        BY <4>1, <4>2
    <3>6. QED
      BY <2>3, <3>4, <3>5
  <2>5. QED
    BY <2>2, <2>3
<1> HIDE DEF moved, lKids
<1>8. /\ cKids \in Seq(H) /\ Len(cKids) = Len(moved) + KidCount(t, c)
      /\ \A j \in 1..(Len(moved) + KidCount(t, c)) :
            cKids[j] = IF j =< Len(moved) THEN moved[j] ELSE Kid(t, c, j - Len(moved))
  <2>1. Kids(t, c) \in Seq(H) /\ Len(Kids(t, c)) = KidCount(t, c)
    BY <1>1, <1>2, TypedFacts DEF KidCount
  <2>2. /\ moved \o Kids(t, c) \in Seq(H)
        /\ Len(moved \o Kids(t, c)) = Len(moved) + Len(Kids(t, c))
        /\ \A x \in 1..(Len(moved) + Len(Kids(t, c))) :
             (moved \o Kids(t, c))[x] =
                IF x =< Len(moved) THEN moved[x] ELSE Kids(t, c)[x - Len(moved)]
    BY <1>7, <2>1, ConcatFacts
  <2>3. QED
    BY <2>1, <2>2 DEF Kid
<1>9. u = Moved(t, p, l, c, i, e, lEnts, cEnts, lKids, cKids, moved)
  <2>1. l = Kids(t, p)[i] /\ c = Kids(t, p)[i + 1]
    BY DEF Kid
  <2>2. QED
    BY <2>1 DEF StealLeft, Moved, moved, lKids
<1> HIDE DEF e, cEnts, cKids, lEnts
<1>10. /\ Typed(u)
       /\ u.root = t.root /\ Heap(u) = Heap(t)
       /\ \A n \in Heap(t) : Leaf(u, n) = Leaf(t, n)
       /\ \A n \in Heap(t) : Parent(u, n) = IF \E j \in 1..Len(moved) : moved[j] = n THEN c
                                            ELSE Parent(t, n)
       /\ \A n \in Heap(t) \ {p, l, c} : Ents(u, n) = Ents(t, n) /\ Kids(u, n) = Kids(t, n)
       /\ Kids(u, p) = Kids(t, p) /\ KeyCount(u, p) = KeyCount(t, p)
       /\ \A j \in 1..KeyCount(t, p) : EntAt(u, p, j) = IF j = i THEN e ELSE EntAt(t, p, j)
       /\ Ents(u, l) = lEnts /\ Kids(u, l) = lKids
       /\ Ents(u, c) = cEnts /\ Kids(u, c) = cKids
  <2>1. /\ Typed(t) /\ c \in Heap(t) /\ l \in Heap(t) /\ p # l /\ p # c /\ l # c
        /\ e \in Entry /\ lEnts \in Seq(Entry) /\ cEnts \in Seq(Entry)
        /\ lKids \in Seq(Heap(t)) /\ cKids \in Seq(Heap(t)) /\ moved \in Seq(Heap(t))
    BY <1>1, <1>2, <1>5, <1>6, <1>7, <1>8
  <2> HIDE DEF H, m
  <2>2. DidMove(t, u, p, l, c, i, e, lEnts, cEnts, lKids, cKids, moved)
    BY <1>9, <2>1, MoveFacts
  <2>3. QED
    BY <2>2 DEF DidMove
<1>11. /\ KeyCount(u, c) = KeyCount(t, c) + 1
       /\ \A j \in 1..(KeyCount(t, c) + 1) :
            EntAt(u, c, j) = IF j = 1 THEN EntAt(t, p, i) ELSE EntAt(t, c, j - 1)
       /\ KidCount(u, c) = Len(moved) + KidCount(t, c)
       /\ \A j \in 1..(Len(moved) + KidCount(t, c)) :
            Kid(u, c, j) = IF j =< Len(moved) THEN moved[j] ELSE Kid(t, c, j - Len(moved))
  BY <1>6, <1>8, <1>10 DEF KeyCount, EntAt, KidCount, Kid
<1>12. /\ KeyCount(u, l) = KeyCount(t, l) - 1
       /\ \A j \in 1..(KeyCount(t, l) - 1) : EntAt(u, l, j) = EntAt(t, l, j)
       /\ KidCount(u, l) = IF Leaf(t, l) THEN 0 ELSE KidCount(t, l) - 1
       /\ \A j \in 1..(KidCount(t, l) - 1) : ~Leaf(t, l) => Kid(u, l, j) = Kid(t, l, j)
  BY <1>5, <1>7, <1>10 DEF KeyCount, EntAt, KidCount, Kid
<1>13. /\ J.root = t.root
       /\ Heap(J) = H \ {c}
       /\ \A n \in Heap(J) : Leaf(J, n) = Leaf(t, n)
       /\ \A n \in Heap(J) :
            Parent(J, n) = IF \E j \in 1..KidCount(t, c) : Kid(t, c, j) = n
                           THEN l ELSE Parent(t, n)
       /\ \A n \in Heap(J) \ {l, p} : Ents(J, n) = Ents(t, n) /\ Kids(J, n) = Kids(t, n)
       /\ KeyCount(J, p) = KeyCount(t, p) - 1
       /\ \A j \in 1..(KeyCount(t, p) - 1) :
            EntAt(J, p, j) = IF j < i THEN EntAt(t, p, j) ELSE EntAt(t, p, j + 1)
       /\ KidCount(J, p) = KidCount(t, p) - 1
       /\ \A j \in 1..(KidCount(t, p) - 1) :
            Kid(J, p, j) = IF j < i + 1 THEN Kid(t, p, j) ELSE Kid(t, p, j + 1)
       /\ KeyCount(J, l) = KeyCount(t, l) + 1 + KeyCount(t, c)
       /\ \A j \in 1..(KeyCount(t, l) + 1 + KeyCount(t, c)) :
            EntAt(J, l, j) = IF j =< KeyCount(t, l) THEN EntAt(t, l, j)
                             ELSE IF j = KeyCount(t, l) + 1 THEN EntAt(t, p, i)
                             ELSE EntAt(t, c, j - KeyCount(t, l) - 1)
       /\ KidCount(J, l) = KidCount(t, l) + KidCount(t, c)
       /\ \A j \in 1..(KidCount(t, l) + KidCount(t, c)) :
            Kid(J, l, j) = IF j =< KidCount(t, l) THEN Kid(t, l, j)
                           ELSE Kid(t, c, j - KidCount(t, l))
  BY <1>3 DEF Joins
<1> DEFINE a == KeyCount(t, l)
           b == KeyCount(t, c)
           w == KeyCount(t, p)
<1>14. a \in Nat /\ b \in Nat /\ 1 =< a /\ w \in Nat /\ i \in 1..w /\ m = a
       /\ KidCount(t, p) = w + 1
  BY <1>2
<1>15. Splits(J, u, p, i, l, m, c)
  <2> HIDE DEF a, b, w, m, H
  <2>1. u.root = J.root /\ Heap(u) = Heap(J) \cup {c}
    BY <1>2, <1>10, <1>13 DEF H
  <2>2. \A n \in Heap(J) : Leaf(u, n) = Leaf(J, n)
    BY <1>10, <1>13 DEF H
  <2>3. Leaf(u, c) = Leaf(J, l)
    BY <1>2, <1>10, <1>13 DEF H
  <2>4. Parent(u, c) = p
    <3>1. \A j \in 1..Len(moved) : moved[j] # c
      <4>1. \A j \in 1..KidCount(t, l) : Parent(t, Kid(t, l, j)) = l
        BY <1>2, KidFacts DEF H
      <4>2. ~Leaf(t, l) => KidCount(t, l) \in 1..KidCount(t, l)
        BY <1>2
      <4>3. ~Leaf(t, l) => Len(moved) = 1 /\ moved[1] = Kid(t, l, KidCount(t, l))
        BY <1>7
      <4>4. Leaf(t, l) => Len(moved) = 0
        BY <1>7
      <4>5. l # p
        BY <1>2
      <4>6. Parent(t, c) = p
        BY <1>2
      <4>7. CASE Leaf(t, l)
        BY <4>4, <4>7
      <4>8. CASE ~Leaf(t, l)
        BY <4>1, <4>2, <4>3, <4>5, <4>6, <4>8
      <4>9. QED
        BY <4>7, <4>8
    <3>2. QED
      BY <1>2, <1>10, <3>1 DEF H
  <2>5. ASSUME NEW n \in Heap(J)
        PROVE  Parent(u, n) = IF \E j \in (m + 1)..KidCount(J, l) : Kid(J, l, j) = n
                              THEN c ELSE Parent(J, n)
    <3>1. n \in H /\ n # c
      BY <1>13
    <3>2. CASE Leaf(t, l)
      <4>1. KidCount(t, c) = 0 /\ KidCount(J, l) = 0 /\ Len(moved) = 0
        BY <1>2, <1>7, <1>13, <3>2
      <4>2. Parent(u, n) = Parent(t, n) /\ Parent(J, n) = Parent(t, n)
        BY <1>10, <1>13, <3>1, <4>1 DEF H
      <4>3. ~ \E j \in (m + 1)..KidCount(J, l) : Kid(J, l, j) = n
        BY <1>14, <4>1
      <4>4. QED
        BY <4>2, <4>3
    <3>3. CASE ~Leaf(t, l)
      <4>1. KidCount(t, l) = a + 1 /\ KidCount(t, c) = b + 1 /\ KidCount(J, l) = a + b + 2
        BY <1>2, <1>13, <1>14, <3>3 DEF a, b
      <4>2. (\E j \in 1..Len(moved) : moved[j] = n) <=> n = Kid(t, l, a + 1)
        <5>1. Len(moved) = 1 /\ moved[1] = Kid(t, l, a + 1)
          BY <1>7, <3>3, <4>1
        <5>2. QED
          BY <5>1
      <4>3. (\E j \in (m + 1)..KidCount(J, l) : Kid(J, l, j) = n)
            <=> n = Kid(t, l, a + 1) \/ \E j \in 1..(b + 1) : Kid(t, c, j) = n
        <5>1. ASSUME NEW j \in (m + 1)..KidCount(J, l), j # a + 1
              PROVE  j - (a + 1) \in 1..(b + 1) /\ Kid(J, l, j) = Kid(t, c, j - (a + 1))
          <6>1. j - (a + 1) \in 1..(b + 1) /\ j \in 1..(KidCount(t, l) + KidCount(t, c))
                /\ ~(j =< KidCount(t, l))
            BY <1>14, <4>1, <5>1
          <6>2. QED
            BY <1>13, <4>1, <6>1
        <5>2. ASSUME NEW j \in 1..(b + 1)
              PROVE  j + (a + 1) \in (m + 1)..KidCount(J, l)
                     /\ Kid(J, l, j + (a + 1)) = Kid(t, c, j)
          <6>1. /\ j + (a + 1) \in (m + 1)..KidCount(J, l) /\ j + (a + 1) # a + 1
                /\ (j + (a + 1)) - (a + 1) = j
            BY <1>14, <4>1
          <6>2. QED
            BY <5>1, <6>1
        <5>3. a + 1 \in (m + 1)..KidCount(J, l) /\ Kid(J, l, a + 1) = Kid(t, l, a + 1)
          <6>1. a + 1 \in (m + 1)..KidCount(J, l)
                /\ a + 1 \in 1..(KidCount(t, l) + KidCount(t, c)) /\ a + 1 =< KidCount(t, l)
            BY <1>14, <4>1
          <6>2. QED
            BY <1>13, <6>1
        <5>4. QED
          BY <5>1, <5>2, <5>3
      <4>4. (\E j \in 1..KidCount(t, c) : Kid(t, c, j) = n)
            <=> \E j \in 1..(b + 1) : Kid(t, c, j) = n
        BY <4>1
      <4>5. Parent(J, n) = IF \E j \in 1..KidCount(t, c) : Kid(t, c, j) = n
                           THEN l ELSE Parent(t, n)
        BY <1>13
      <4>6. Parent(u, n) = IF n = Kid(t, l, a + 1) THEN c ELSE Parent(t, n)
        BY <1>10, <3>1, <4>2 DEF H
      <4>7. \A j \in 1..(b + 1) : Parent(t, Kid(t, c, j)) = c
        BY <1>2, <4>1, KidFacts DEF H
      <4>8. QED
        BY <4>3, <4>4, <4>5, <4>6, <4>7
    <3>4. QED
      BY <3>2, <3>3
  <2>6. \A n \in Heap(J) \ {l, p} : Ents(u, n) = Ents(J, n) /\ Kids(u, n) = Kids(J, n)
    <3>1. ASSUME NEW n \in Heap(J) \ {l, p}
          PROVE  Ents(u, n) = Ents(J, n) /\ Kids(u, n) = Kids(J, n)
      <4>1. n \in Heap(t) \ {p, l, c}
        BY <1>13 DEF H
      <4>2. QED
        BY <1>10, <1>13, <4>1
    <3>2. QED
      BY <3>1
  <2>7. KeyCount(u, p) = KeyCount(J, p) + 1 /\ KidCount(u, p) = KidCount(J, p) + 1
    BY <1>10, <1>13, <1>14, SameKids DEF w
  <2>8. ASSUME NEW j \in 1..(KeyCount(J, p) + 1)
        PROVE  EntAt(u, p, j) = IF j < i THEN EntAt(J, p, j)
                                ELSE IF j = i THEN EntAt(J, l, m) ELSE EntAt(J, p, j - 1)
    <3>1. KeyCount(J, p) = w - 1 /\ j \in 1..w
      BY <1>13, <1>14 DEF w
    <3>2. EntAt(u, p, j) = IF j = i THEN e ELSE EntAt(t, p, j)
      BY <1>10, <3>1 DEF w
    <3>3. EntAt(J, l, m) = e
      <4>1. m \in 1..(a + 1 + b) /\ m =< a
        BY <1>14
      <4>2. EntAt(J, l, m) = EntAt(t, l, m)
        BY <1>13, <4>1 DEF a, b
      <4>3. QED
        BY <1>5, <1>14, <4>2 DEF a
    <3>4. j < i => EntAt(J, p, j) = EntAt(t, p, j)
      <4>1. SUFFICES ASSUME j < i PROVE EntAt(J, p, j) = EntAt(t, p, j)
        OBVIOUS
      <4>2. j \in 1..(w - 1)
        BY <1>14, <3>1, <4>1
      <4>3. QED
        BY <1>13, <4>1, <4>2 DEF w
    <3>5. j > i => EntAt(J, p, j - 1) = EntAt(t, p, j)
      <4>1. SUFFICES ASSUME j > i PROVE EntAt(J, p, j - 1) = EntAt(t, p, j)
        OBVIOUS
      <4>2. j - 1 \in 1..(w - 1) /\ ~(j - 1 < i) /\ (j - 1) + 1 = j
        BY <1>14, <3>1, <4>1
      <4>3. EntAt(J, p, j - 1) = EntAt(t, p, (j - 1) + 1)
        BY <1>13, <4>2 DEF w
      <4>4. QED
        BY <4>2, <4>3
    <3>6. QED
      BY <1>14, <3>1, <3>2, <3>3, <3>4, <3>5
  <2>9. ASSUME NEW j \in 1..(KidCount(J, p) + 1)
        PROVE  Kid(u, p, j) = IF j < i + 1 THEN Kid(J, p, j)
                              ELSE IF j = i + 1 THEN c ELSE Kid(J, p, j - 1)
    <3>1. KidCount(J, p) = w /\ j \in 1..(w + 1)
      BY <1>13, <1>14 DEF w
    <3>2. Kid(u, p, j) = Kid(t, p, j)
      BY <1>10, SameKids
    <3>3. j < i + 1 => Kid(J, p, j) = Kid(t, p, j)
      <4>1. SUFFICES ASSUME j < i + 1 PROVE Kid(J, p, j) = Kid(t, p, j)
        OBVIOUS
      <4>2. j \in 1..(KidCount(t, p) - 1)
        BY <1>14, <3>1, <4>1
      <4>3. QED
        BY <1>13, <4>1, <4>2
    <3>4. j > i + 1 => Kid(J, p, j - 1) = Kid(t, p, j)
      <4>1. SUFFICES ASSUME j > i + 1 PROVE Kid(J, p, j - 1) = Kid(t, p, j)
        OBVIOUS
      <4>2. j - 1 \in 1..(KidCount(t, p) - 1) /\ ~(j - 1 < i + 1) /\ (j - 1) + 1 = j
        BY <1>14, <3>1, <4>1
      <4>3. Kid(J, p, j - 1) = Kid(t, p, (j - 1) + 1)
        BY <1>13, <4>2
      <4>4. QED
        BY <4>2, <4>3
    <3>5. QED
      BY <1>14, <3>1, <3>2, <3>3, <3>4
  <2>10. KeyCount(u, l) = m - 1
    BY <1>12, <1>14 DEF a
  <2>11. ASSUME NEW j \in 1..(m - 1)
         PROVE  EntAt(u, l, j) = EntAt(J, l, j)
    <3>1. j \in 1..(a - 1) /\ j \in 1..(a + 1 + b) /\ j =< a
      BY <1>14
    <3>2. QED
      BY <1>12, <1>13, <3>1 DEF a, b
  <2>12. KidCount(u, l) = IF Leaf(J, l) THEN 0 ELSE m
    <3>1. Leaf(J, l) = Leaf(t, l)
      BY <1>2, <1>13
    <3>2. QED
      BY <1>2, <1>12, <1>14, <3>1 DEF a
  <2>13. ASSUME NEW j \in 1..m, ~Leaf(J, l)
         PROVE  Kid(u, l, j) = Kid(J, l, j)
    <3>1. ~Leaf(t, l)
      BY <1>2, <1>13, <2>13
    <3>2. KidCount(t, l) = a + 1 /\ KidCount(t, c) = b + 1
      BY <1>2, <3>1 DEF a, b
    <3>3. j \in 1..(KidCount(t, l) - 1) /\ j \in 1..(KidCount(t, l) + KidCount(t, c))
          /\ j =< KidCount(t, l)
      BY <1>14, <3>2
    <3>4. Kid(u, l, j) = Kid(t, l, j)
      BY <1>12, <3>1, <3>3
    <3>5. Kid(J, l, j) = Kid(t, l, j)
      BY <1>13, <3>3
    <3>6. QED
      BY <3>4, <3>5
  <2>14. KeyCount(u, c) = KeyCount(J, l) - m
    BY <1>11, <1>13, <1>14 DEF a, b
  <2>15. ASSUME NEW j \in 1..(KeyCount(J, l) - m)
         PROVE  EntAt(u, c, j) = EntAt(J, l, j + m)
    <3>1. j \in 1..(b + 1)
      BY <1>13, <1>14 DEF a, b
    <3>2. PICK z : z = j + m
      OBVIOUS
    <3>3. z \in 1..(a + 1 + b) /\ ~(z =< a) /\ (z = a + 1 <=> j = 1) /\ z - a - 1 = j - 1
      BY <1>14, <3>1, <3>2
    <3>4. EntAt(J, l, z) = IF z = a + 1 THEN EntAt(t, p, i) ELSE EntAt(t, c, z - a - 1)
      BY <1>13, <3>3 DEF a, b
    <3>5. EntAt(u, c, j) = IF j = 1 THEN EntAt(t, p, i) ELSE EntAt(t, c, j - 1)
      BY <1>11, <3>1 DEF b
    <3>6. QED
      BY <3>2, <3>3, <3>4, <3>5
  <2>16. KidCount(u, c) = IF Leaf(J, l) THEN 0 ELSE KidCount(J, l) - m
    <3>1. Leaf(J, l) = Leaf(t, l)
      BY <1>2, <1>13
    <3>2. CASE Leaf(t, l)
      BY <1>2, <1>7, <1>11, <3>1, <3>2
    <3>3. CASE ~Leaf(t, l)
      <4>1. KidCount(t, l) = a + 1 /\ KidCount(t, c) = b + 1
        BY <1>2, <3>3 DEF a, b
      <4>2. Len(moved) = 1
        BY <1>7, <1>2, <3>3
      <4>3. KidCount(J, l) = (a + 1) + (b + 1)
        BY <1>13, <4>1
      <4>4. KidCount(u, c) = 1 + (b + 1)
        BY <1>11, <4>1, <4>2
      <4>5. KidCount(u, c) = KidCount(J, l) - m
        BY <1>14, <4>3, <4>4
      <4>6. QED
        BY <3>1, <3>3, <4>5
    <3>4. QED
      BY <3>2, <3>3
  <2>17. ASSUME NEW j \in 1..(KidCount(J, l) - m), ~Leaf(J, l)
         PROVE  Kid(u, c, j) = Kid(J, l, j + m)
    <3>1. ~Leaf(t, l)
      BY <1>2, <1>13, <2>17
    <3>2. KidCount(t, l) = a + 1 /\ KidCount(t, c) = b + 1 /\ KidCount(J, l) = a + 1 + (b + 1)
          /\ Len(moved) = 1 /\ moved[1] = Kid(t, l, a + 1)
      BY <1>2, <1>7, <1>13, <3>1 DEF a, b
    <3>3. j \in 1..(b + 2)
      BY <1>14, <3>2
    <3>4. PICK z : z = j + m
      OBVIOUS
    <3>5. z \in 1..(KidCount(t, l) + KidCount(t, c)) /\ (z =< KidCount(t, l) <=> j = 1)
          /\ z - KidCount(t, l) = j - 1 /\ (j = 1 => z = a + 1)
      BY <1>14, <3>2, <3>3, <3>4
    <3>6. Kid(J, l, z) = IF z =< KidCount(t, l) THEN Kid(t, l, z)
                         ELSE Kid(t, c, z - KidCount(t, l))
      BY <1>13, <3>5
    <3>7. j \in 1..(Len(moved) + KidCount(t, c)) /\ (j =< Len(moved) <=> j = 1)
          /\ j - Len(moved) = j - 1
      BY <1>14, <3>2, <3>3
    <3>8. Kid(u, c, j) = IF j =< Len(moved) THEN moved[j] ELSE Kid(t, c, j - Len(moved))
      BY <1>11, <3>7
    <3>9. QED
      BY <3>2, <3>4, <3>5, <3>6, <3>7, <3>8
  <2>18. QED
    BY <2>1, <2>2, <2>3, <2>4, <2>5, <2>6, <2>7, <2>8, <2>9, <2>10, <2>11, <2>12, <2>13,
       <2>14, <2>15, <2>16, <2>17 DEF Splits
<1>16. QED
  BY <1>5, <1>10, <1>11, <1>12, <1>15 DEF J

\* Two children made one and split again elsewhere.
LEMMA MendFormed ==
    ASSUME NEW t, NEW level, NEW span, Formed(t, level, span),
           NEW p \in Heap(t), NEW i \in 1..KeyCount(t, p), ~Leaf(t, p),
           NEW l, l = Kid(t, p, i), NEW r, r = Kid(t, p, i + 1),
           NEW m \in 1..(KeyCount(t, l) + 1 + KeyCount(t, r)),
           NEW u, Typed(u), Splits(Joined(t, p, i), u, p, i, l, m, r)
    PROVE  /\ Held(u) = Held(t)
           /\ \E level2, span2 :
                /\ Formed(u, level2, span2)
                /\ \A n \in Heap(t) : level2[n] = level[n]
                /\ \A n \in Heap(t) \ {l, r} : span2[n] = span[n]
<1> DEFINE J == Joined(t, p, i)
<1>1. Typed(J) /\ Joins(t, J, p, i, l, r)
  BY JoinedFacts
<1> HIDE DEF J
<1>2. /\ l \in Heap(t) /\ r \in Heap(t) /\ l # r /\ l # p /\ r # p
      /\ level[l] = level[r] /\ KidCount(t, p) = KeyCount(t, p) + 1
      /\ KeyCount(t, p) \in Nat
  BY JoinPlace
<1>3. /\ Held(J) = Held(t)
      /\ \E level2, span2 :
            /\ Formed(J, level2, span2)
            /\ \A n \in Heap(J) : level2[n] = level[n]
            /\ \A n \in Heap(J) \ {l} : span2[n] = span[n]
  BY <1>1, JoinFormed
<1>4. PICK level1, span1 :
            /\ Formed(J, level1, span1)
            /\ \A n \in Heap(J) : level1[n] = level[n]
            /\ \A n \in Heap(J) \ {l} : span1[n] = span[n]
  BY <1>3
<1>5. Heap(J) = Heap(t) \ {r} /\ KidCount(J, p) = KidCount(t, p) - 1
  BY <1>1 DEF Joins
<1>6. KeyCount(J, l) = KeyCount(t, l) + 1 + KeyCount(t, r)
  BY <1>1 DEF Joins
<1>7. i \in 1..KidCount(J, p) /\ i \in 1..(KidCount(t, p) - 1) /\ i < i + 1
  BY <1>2, <1>5
<1>8. Kid(J, p, i) = l
  <2>1. Kid(J, p, i) = IF i < i + 1 THEN Kid(t, p, i) ELSE Kid(t, p, i + 1)
    BY <1>1, <1>7 DEF Joins
  <2>2. QED
    BY <1>7, <2>1
<1>9. p \in Heap(J) /\ r \notin Heap(J)
  BY <1>2, <1>5
<1>10. Splits(J, u, p, i, l, m, r)
  BY DEF J
<1>11. m \in 1..KeyCount(J, l)
  BY <1>6
<1>12. /\ Held(u) = Held(J)
       /\ \E level2, span2 :
            /\ Formed(u, level2, span2)
            /\ level2[r] = level1[l]
            /\ \A n \in Heap(J) : level2[n] = level1[n]
            /\ \A n \in Heap(J) \ {l} : span2[n] = span1[n]
  BY <1>4, <1>7, <1>8, <1>9, <1>10, <1>11, SplitFormed
<1>13. PICK level2, span2 :
            /\ Formed(u, level2, span2)
            /\ level2[r] = level1[l]
            /\ \A n \in Heap(J) : level2[n] = level1[n]
            /\ \A n \in Heap(J) \ {l} : span2[n] = span1[n]
  BY <1>12
<1>14. \A n \in Heap(t) : level2[n] = level[n]
  <2>1. l \in Heap(J)
    BY <1>2, <1>5
  <2>2. level2[r] = level[r]
    BY <1>2, <1>4, <1>13, <2>1
  <2>3. \A n \in Heap(J) : level2[n] = level[n]
    BY <1>4, <1>13
  <2>4. QED
    BY <1>5, <2>2, <2>3
<1>15. \A n \in Heap(t) \ {l, r} : span2[n] = span[n]
  BY <1>4, <1>5, <1>13
<1>16. QED
  BY <1>3, <1>12, <1>13, <1>14, <1>15

\* A steal keeps the tree formed
Mended(t, u, p, l, r, level, span) ==
    /\ Typed(u) /\ u.root = t.root /\ Heap(u) = Heap(t)
    /\ \A n \in Heap(t) : Leaf(u, n) = Leaf(t, n)
    /\ Kids(u, p) = Kids(t, p) /\ KeyCount(u, p) = KeyCount(t, p)
    /\ \A n \in Heap(t) \ {p, l, r} : Ents(u, n) = Ents(t, n)
    /\ Held(u) = Held(t)
    /\ \E level2, span2 :
        /\ Formed(u, level2, span2)
        /\ \A n \in Heap(t) : level2[n] = level[n]
        /\ \A n \in Heap(t) \ {l, r} : span2[n] = span[n]

\* btree_steal_right keeps a tree in order.
LEMMA StealRightFormed ==
    ASSUME NEW t, NEW level, NEW span, Formed(t, level, span),
           NEW p \in Heap(t), ~Leaf(t, p), NEW i \in 1..KeyCount(t, p),
           NEW c, c = Kid(t, p, i), NEW r, r = Kid(t, p, i + 1),
           1 =< KeyCount(t, r),
           NEW u, u = StealRight(t, p, i)
    PROVE  /\ Mended(t, u, p, c, r, level, span)
           /\ KeyCount(u, c) = KeyCount(t, c) + 1 /\ KeyCount(u, r) = KeyCount(t, r) - 1
           /\ \A j \in 1..KeyCount(t, p) :
                EntAt(u, p, j) = IF j = i THEN EntAt(t, r, 1) ELSE EntAt(t, p, j)
           /\ EntAt(u, c, KeyCount(t, c) + 1) = EntAt(t, p, i)
<1>1. /\ Typed(u) /\ u.root = t.root /\ Heap(u) = Heap(t)
      /\ \A n \in Heap(t) : Leaf(u, n) = Leaf(t, n)
      /\ \A n \in Heap(t) \ {p, c, r} : Ents(u, n) = Ents(t, n)
      /\ KeyCount(u, p) = KeyCount(t, p)
      /\ \A j \in 1..KeyCount(t, p) :
            EntAt(u, p, j) = IF j = i THEN EntAt(t, r, 1) ELSE EntAt(t, p, j)
      /\ Kids(u, p) = Kids(t, p)
      /\ KeyCount(u, c) = KeyCount(t, c) + 1
      /\ EntAt(u, c, KeyCount(t, c) + 1) = EntAt(t, p, i)
      /\ KeyCount(u, r) = KeyCount(t, r) - 1
      /\ Splits(Joined(t, p, i), u, p, i, c, KeyCount(t, c) + 2, r)
  BY StealRightSplits
<1>2. KeyCount(t, c) \in Nat /\ KeyCount(t, r) \in Nat
  BY JoinPlace
<1>3. KeyCount(t, c) + 2 \in 1..(KeyCount(t, c) + 1 + KeyCount(t, r))
  BY <1>2
<1>4. Typed(u) /\ Splits(Joined(t, p, i), u, p, i, c, KeyCount(t, c) + 2, r)
  BY <1>1
<1>5. /\ Held(u) = Held(t)
      /\ \E level2, span2 :
            /\ Formed(u, level2, span2)
            /\ \A n \in Heap(t) : level2[n] = level[n]
            /\ \A n \in Heap(t) \ {c, r} : span2[n] = span[n]
  BY <1>3, <1>4, MendFormed
<1>6. QED
  BY <1>1, <1>5 DEF Mended

\* btree_steal_left keeps a tree in order.
LEMMA StealLeftFormed ==
    ASSUME NEW t, NEW level, NEW span, Formed(t, level, span),
           NEW p \in Heap(t), ~Leaf(t, p), NEW i \in 1..KeyCount(t, p),
           NEW l, l = Kid(t, p, i), NEW c, c = Kid(t, p, i + 1),
           1 =< KeyCount(t, l),
           NEW u, u = StealLeft(t, p, i)
    PROVE  /\ Mended(t, u, p, l, c, level, span)
           /\ KeyCount(u, c) = KeyCount(t, c) + 1 /\ KeyCount(u, l) = KeyCount(t, l) - 1
           /\ \A j \in 1..KeyCount(t, p) :
                EntAt(u, p, j) = IF j = i THEN EntAt(t, l, KeyCount(t, l)) ELSE EntAt(t, p, j)
<1>1. /\ Typed(u) /\ u.root = t.root /\ Heap(u) = Heap(t)
      /\ \A n \in Heap(t) : Leaf(u, n) = Leaf(t, n)
      /\ \A n \in Heap(t) \ {p, l, c} : Ents(u, n) = Ents(t, n)
      /\ KeyCount(u, p) = KeyCount(t, p)
      /\ \A j \in 1..KeyCount(t, p) :
            EntAt(u, p, j) = IF j = i THEN EntAt(t, l, KeyCount(t, l)) ELSE EntAt(t, p, j)
      /\ Kids(u, p) = Kids(t, p)
      /\ KeyCount(u, c) = KeyCount(t, c) + 1
      /\ KeyCount(u, l) = KeyCount(t, l) - 1
      /\ Splits(Joined(t, p, i), u, p, i, l, KeyCount(t, l), c)
  BY StealLeftSplits
<1>2. KeyCount(t, l) \in Nat /\ KeyCount(t, c) \in Nat
  BY JoinPlace
<1>3. KeyCount(t, l) \in 1..(KeyCount(t, l) + 1 + KeyCount(t, c))
  BY <1>2
<1>4. Typed(u) /\ Splits(Joined(t, p, i), u, p, i, l, KeyCount(t, l), c)
  BY <1>1
<1>5. /\ Held(u) = Held(t)
      /\ \E level2, span2 :
            /\ Formed(u, level2, span2)
            /\ \A n \in Heap(t) : level2[n] = level[n]
            /\ \A n \in Heap(t) \ {l, c} : span2[n] = span[n]
  BY <1>3, <1>4, MendFormed
<1>6. QED
  BY <1>1, <1>5 DEF Mended

\* btree_merge makes leaves one; of internal nodes this says only what their
\* parent is left with.
LEMMA MergeFacts ==
    ASSUME NEW t, NEW level, NEW span, Formed(t, level, span),
           NEW p \in Heap(t), ~Leaf(t, p), NEW i \in 1..KeyCount(t, p),
           NEW l, l = Kid(t, p, i), NEW r, r = Kid(t, p, i + 1),
           NEW u, u = Merge(t, p, i)
    PROVE  /\ u.root = t.root /\ Heap(u) = Heap(t) \ {r}
           /\ \A n \in Heap(u) : Leaf(u, n) = Leaf(t, n)
           /\ \A n \in Heap(u) \ {p, l} : Ents(u, n) = Ents(t, n) /\ Kids(u, n) = Kids(t, n)
           /\ Ents(u, p) \in Seq(Entry) /\ KeyCount(u, p) = KeyCount(t, p) - 1
           /\ \A j \in 1..(KeyCount(t, p) - 1) :
                EntAt(u, p, j) = IF j < i THEN EntAt(t, p, j) ELSE EntAt(t, p, j + 1)
           /\ Kids(u, p) \in Seq(Heap(t)) /\ KidCount(u, p) = KidCount(t, p) - 1
           /\ \A j \in 1..(KidCount(t, p) - 1) :
                Kid(u, p, j) = IF j < i + 1 THEN Kid(t, p, j) ELSE Kid(t, p, j + 1)
           /\ Leaf(t, l) => Typed(u) /\ Joins(t, u, p, i, l, r)
<1> DEFINE H == Heap(t)
           ents == Append(Ents(t, l), EntAt(t, p, i)) \o Ents(t, r)
           kids == IF Leaf(t, l) THEN <<>>
                   ELSE SubSeq(Kids(t, l) \o <<Null>> \o Kids(t, r), 1, Len(ents) + 1)
           pEnts == RemoveAt(Ents(t, p), i)
           pKids == RemoveAt(Kids(t, p), i + 1)
           t1 == Fill(t, p, pEnts, pKids)
           t2 == Fill(t1, l, ents, kids)
           t3 == Free(t2, r)
<1>1. u = Adopt(t3, l, Kids(t, r))
  BY Zenon DEF Merge, Kid, EntAt
<1>2. /\ i \in 1..KidCount(t, p) /\ i + 1 \in 1..KidCount(t, p)
      /\ l \in H /\ r \in H /\ l # r
      /\ l # p /\ r # p /\ l # t.root /\ r # t.root
      /\ Parent(t, l) = p /\ Parent(t, r) = p
      /\ level[l] = level[r] /\ Leaf(t, l) = Leaf(t, r)
      /\ KidCount(t, p) = KeyCount(t, p) + 1
      /\ KidCount(t, l) = IF Leaf(t, l) THEN 0 ELSE KeyCount(t, l) + 1
      /\ KidCount(t, r) = IF Leaf(t, l) THEN 0 ELSE KeyCount(t, r) + 1
      /\ KeyCount(t, l) \in Nat /\ KeyCount(t, r) \in Nat /\ KeyCount(t, p) \in Nat
      /\ KidCount(t, l) \in Nat /\ KidCount(t, r) \in Nat /\ KidCount(t, p) \in Nat
  BY JoinPlace
<1>3. Typed(t) /\ Linked(t, level)
  BY DEF Formed
<1>4. /\ Ents(t, p) \in Seq(Entry) /\ Ents(t, l) \in Seq(Entry) /\ Ents(t, r) \in Seq(Entry)
      /\ Kids(t, p) \in Seq(H) /\ Kids(t, l) \in Seq(H) /\ Kids(t, r) \in Seq(H)
      /\ EntAt(t, p, i) \in Entry
  BY <1>2, <1>3, TypedFacts
<1> HIDE DEF H
<1>5. /\ pEnts \in Seq(Entry) /\ Len(pEnts) = KeyCount(t, p) - 1
      /\ \A j \in 1..(KeyCount(t, p) - 1) :
            pEnts[j] = IF j < i THEN EntAt(t, p, j) ELSE EntAt(t, p, j + 1)
  <2>1. i \in 1..Len(Ents(t, p))
    BY DEF KeyCount
  <2>2. /\ pEnts \in Seq(Entry)
        /\ Len(pEnts) = Len(Ents(t, p)) - 1
        /\ \A j \in 1..(Len(Ents(t, p)) - 1) :
              pEnts[j] = IF j < i THEN Ents(t, p)[j] ELSE Ents(t, p)[j + 1]
    BY <1>4, <2>1, RemoveAtFacts
  <2>3. QED
    BY <2>2 DEF KeyCount, EntAt
<1>6. /\ pKids \in Seq(H) /\ Len(pKids) = KidCount(t, p) - 1
      /\ \A j \in 1..(KidCount(t, p) - 1) :
            pKids[j] = IF j < i + 1 THEN Kid(t, p, j) ELSE Kid(t, p, j + 1)
  <2>1. i + 1 \in 1..Len(Kids(t, p))
    BY <1>2 DEF KidCount
  <2>2. Kids(t, p) \in Seq(H)
    BY <1>4
  <2>3. /\ pKids \in Seq(H)
        /\ Len(pKids) = Len(Kids(t, p)) - 1
        /\ \A j \in 1..(Len(Kids(t, p)) - 1) :
              pKids[j] = IF j < i + 1 THEN Kids(t, p)[j] ELSE Kids(t, p)[j + 1]
    BY <2>1, <2>2, RemoveAtFacts
  <2>4. QED
    BY <2>3 DEF KidCount, Kid
<1>7. /\ ents \in Seq(Entry) /\ Len(ents) = KeyCount(t, l) + 1 + KeyCount(t, r)
      /\ \A j \in 1..(KeyCount(t, l) + 1 + KeyCount(t, r)) :
            ents[j] = IF j =< KeyCount(t, l) THEN EntAt(t, l, j)
                      ELSE IF j = KeyCount(t, l) + 1 THEN EntAt(t, p, i)
                      ELSE EntAt(t, r, j - KeyCount(t, l) - 1)
  <2>1. /\ ents \in Seq(Entry)
        /\ Len(ents) = Len(Ents(t, l)) + 1 + Len(Ents(t, r))
        /\ \A j \in 1..(Len(Ents(t, l)) + 1 + Len(Ents(t, r))) :
            ents[j] = IF j =< Len(Ents(t, l)) THEN Ents(t, l)[j]
                      ELSE IF j = Len(Ents(t, l)) + 1 THEN EntAt(t, p, i)
                      ELSE Ents(t, r)[j - Len(Ents(t, l)) - 1]
    BY <1>4, JoinFacts
  <2>2. QED
    BY <2>1 DEF KeyCount, EntAt
<1> HIDE DEF ents, kids, pEnts, pKids
<1>8. p \in Heap(t)
  OBVIOUS
<1>9. /\ t1.root = t.root /\ Heap(t1) = Heap(t)
      /\ Ents(t1, p) = pEnts /\ Kids(t1, p) = pKids
      /\ \A m \in Heap(t) : Leaf(t1, m) = Leaf(t, m) /\ Parent(t1, m) = Parent(t, m)
      /\ \A m \in Heap(t) \ {p} : Ents(t1, m) = Ents(t, m) /\ Kids(t1, m) = Kids(t, m)
  BY <1>8, FillFacts
<1> HIDE DEF t1
<1>10. l \in Heap(t1)
  BY <1>2, <1>9 DEF H
<1>11. /\ t2.root = t1.root /\ Heap(t2) = Heap(t1)
       /\ Ents(t2, l) = ents /\ Kids(t2, l) = kids
       /\ \A m \in Heap(t1) : Leaf(t2, m) = Leaf(t1, m) /\ Parent(t2, m) = Parent(t1, m)
       /\ \A m \in Heap(t1) \ {l} : Ents(t2, m) = Ents(t1, m) /\ Kids(t2, m) = Kids(t1, m)
  BY <1>10, FillFacts
<1> HIDE DEF t2
<1>12. r \in Heap(t2)
  BY <1>2, <1>9, <1>11 DEF H
<1>13. /\ t3.root = t2.root /\ Heap(t3) = Heap(t2) \ {r}
       /\ \A m \in Heap(t3) :
            /\ Leaf(t3, m) = Leaf(t2, m) /\ Ents(t3, m) = Ents(t2, m)
            /\ Kids(t3, m) = Kids(t2, m) /\ Parent(t3, m) = Parent(t2, m)
  BY <1>12, FreeFacts
<1> HIDE DEF t3
<1>14. Heap(t3) = H \ {r}
  BY <1>9, <1>11, <1>13 DEF H
<1>15. Kids(t, r) \in Seq(Heap(t3))
  <2>1. ASSUME NEW j \in 1..KidCount(t, r)
        PROVE  Kid(t, r, j) \in Heap(t3)
    BY <1>2, <1>14, <2>1, KidFacts DEF H
  <2>2. \A j \in 1..Len(Kids(t, r)) : Kids(t, r)[j] \in Heap(t3)
    BY <2>1 DEF KidCount, Kid
  <2>3. Kids(t, r) \in Seq(H)
    BY <1>4
  <2>4. QED
    BY <2>2, <2>3, SeqWithin
<1>16. Null \notin Heap(t3)
  <2>1. Null \notin Heap(t)
    BY <1>3, NotWreck
  <2>2. QED
    BY <2>1, <1>14 DEF H
<1>17. /\ u.root = t3.root /\ Heap(u) = Heap(t3)
       /\ \A m \in Heap(t3) :
            /\ Leaf(u, m) = Leaf(t3, m) /\ Ents(u, m) = Ents(t3, m)
            /\ Kids(u, m) = Kids(t3, m)
            /\ Parent(u, m) = IF \E j \in 1..Len(Kids(t, r)) : Kids(t, r)[j] = m THEN l
                              ELSE Parent(t3, m)
  BY <1>1, <1>15, <1>16, AdoptFacts
<1>18. u.root = t.root /\ Heap(u) = H \ {r}
  BY <1>9, <1>11, <1>13, <1>14, <1>17
<1>19. \A n \in Heap(u) : Leaf(u, n) = Leaf(t, n)
  BY <1>9, <1>11, <1>13, <1>14, <1>17 DEF H
<1>20. \A n \in Heap(u) \ {p, l} : Ents(u, n) = Ents(t, n) /\ Kids(u, n) = Kids(t, n)
  BY <1>9, <1>11, <1>13, <1>14, <1>17 DEF H
<1>21. p \in H \ {r} /\ p # l /\ l \in H \ {r}
  BY <1>2 DEF H
<1>22. Ents(u, p) = pEnts /\ Kids(u, p) = pKids
  BY <1>9, <1>11, <1>13, <1>14, <1>17, <1>21 DEF H
<1>23. Ents(u, l) = ents /\ Kids(u, l) = kids
  BY <1>9, <1>11, <1>13, <1>14, <1>17, <1>21 DEF H
<1>24. /\ KeyCount(u, p) = KeyCount(t, p) - 1
       /\ \A j \in 1..(KeyCount(t, p) - 1) :
            EntAt(u, p, j) = IF j < i THEN EntAt(t, p, j) ELSE EntAt(t, p, j + 1)
  BY <1>5, <1>22 DEF KeyCount, EntAt
<1>25. /\ KidCount(u, p) = KidCount(t, p) - 1
       /\ \A j \in 1..(KidCount(t, p) - 1) :
            Kid(u, p, j) = IF j < i + 1 THEN Kid(t, p, j) ELSE Kid(t, p, j + 1)
  BY <1>6, <1>22 DEF KidCount, Kid
<1>26. /\ KeyCount(u, l) = KeyCount(t, l) + 1 + KeyCount(t, r)
       /\ \A j \in 1..(KeyCount(t, l) + 1 + KeyCount(t, r)) :
            EntAt(u, l, j) = IF j =< KeyCount(t, l) THEN EntAt(t, l, j)
                      ELSE IF j = KeyCount(t, l) + 1 THEN EntAt(t, p, i)
                      ELSE EntAt(t, r, j - KeyCount(t, l) - 1)
  <2>1. \A n : KeyCount(u, l) = Len(ents) /\ EntAt(u, l, n) = ents[n]
    BY <1>23 DEF KeyCount, EntAt
  <2>2. QED
    BY <1>7, <2>1
<1>27. \A n \in Heap(u) :
        Parent(u, n) = IF \E j \in 1..KidCount(t, r) : Kid(t, r, j) = n
                       THEN l ELSE Parent(t, n)
  <2>1. \A n \in Heap(u) : Parent(t3, n) = Parent(t, n)
    BY <1>9, <1>11, <1>13, <1>14, <1>18 DEF H
  <2>2. \A n \in Heap(u) :
        Parent(u, n) = IF \E j \in 1..Len(Kids(t, r)) : Kids(t, r)[j] = n
                       THEN l ELSE Parent(t3, n)
    BY <1>17
  <2>3. QED
    BY <2>1, <2>2 DEF KidCount, Kid
<1>28. ASSUME Leaf(t, l) PROVE Typed(u) /\ Joins(t, u, p, i, l, r)
  <2>1. kids = <<>>
    BY <1>28 DEF kids
  <2>2. KidCount(u, l) = 0
    BY <1>23, <2>1 DEF KidCount
  <2>3. KidCount(t, l) = 0 /\ KidCount(t, r) = 0
    BY <1>2, <1>28
  <2>4. /\ KidCount(u, l) = KidCount(t, l) + KidCount(t, r)
        /\ \A j \in 1..(KidCount(t, l) + KidCount(t, r)) :
            Kid(u, l, j) = IF j =< KidCount(t, l) THEN Kid(t, l, j)
                       ELSE Kid(t, r, j - KidCount(t, l))
    BY <2>2, <2>3
  <2>5. Joins(t, u, p, i, l, r)
    BY <1>18, <1>19, <1>20, <1>24, <1>25, <1>26, <1>27, <2>4 DEF Joins, H
  <2>6. IsFiniteSet(Heap(u)) /\ Heap(u) \subseteq Nat \ {0} /\ u.root \in Heap(u)
    <3>1. IsFiniteSet(H) /\ H \subseteq Nat \ {0} /\ t.root \in H
      BY <1>3 DEF Typed, H
    <3>2. IsFiniteSet(H \ {r})
      BY <3>1, FS_Subset
    <3>3. QED
      BY <1>2, <1>18, <3>1, <3>2
  <2>7. ASSUME NEW n \in Heap(u)
        PROVE  /\ Leaf(u, n) \in BOOLEAN
               /\ Ents(u, n) \in Seq(Entry)
               /\ Kids(u, n) \in Seq(H)
               /\ \A j \in 1..KidCount(u, n) : Kid(u, n, j) \in Heap(u)
               /\ Parent(u, n) \in Nat
    <3>1. n \in Heap(t) /\ n # r /\ n \in H
      BY <1>18 DEF H
    <3>2. /\ Leaf(t, n) \in BOOLEAN /\ Ents(t, n) \in Seq(Entry)
          /\ Kids(t, n) \in Seq(H) /\ Parent(t, n) \in Nat
      BY <1>3, <3>1, TypedFacts DEF H
    <3>3. Leaf(u, n) \in BOOLEAN
      BY <1>19, <3>2, Zenon
    <3>4. Parent(u, n) \in Nat
      <4>1. l \in Nat
        BY <1>2, <1>3, TypedFacts DEF H
      <4>2. QED
        BY <1>27, <3>2, <4>1
    <3>5. CASE n = p
      <4>1. Ents(u, n) \in Seq(Entry) /\ Kids(u, n) \in Seq(H)
        BY <1>5, <1>6, <1>22, <3>5
      <4>2. ASSUME NEW j \in 1..KidCount(u, n)
            PROVE  Kid(u, n, j) \in Heap(u)
        <5>1. \A x \in 1..KidCount(t, p) : \A y \in 1..KidCount(t, p) :
                Kid(t, p, x) = Kid(t, p, y) => x = y
          BY <1>8, KidFacts
        <5>2. \A x \in 1..KidCount(t, p) : Kid(t, p, x) \in H
          BY <1>8, KidFacts DEF H
        <5>3. j \in 1..(KidCount(t, p) - 1) /\ j \in 1..KidCount(t, p) /\ j + 1 \in 1..KidCount(t, p)
          BY <1>2, <1>25, <3>5, <4>2
        <5>4. Kid(u, p, j) = IF j < i + 1 THEN Kid(t, p, j) ELSE Kid(t, p, j + 1)
          BY <1>25, <5>3
        <5>5. CASE j < i + 1
          <6>1. j # i + 1
            BY <5>5
          <6>2. Kid(t, p, j) # r
            BY <1>2, <5>1, <5>3, <6>1
          <6>3. QED
            BY <1>18, <3>5, <5>2, <5>3, <5>4, <5>5, <6>2
        <5>6. CASE ~(j < i + 1)
          <6>1. j + 1 # i + 1
            BY <5>3, <5>6
          <6>2. Kid(t, p, j + 1) # r
            BY <1>2, <5>1, <5>3, <6>1
          <6>3. QED
            BY <1>18, <3>5, <5>2, <5>3, <5>4, <5>6, <6>2
        <5>7. QED
          BY <5>5, <5>6
      <4>3. QED
        BY <3>3, <3>4, <4>1, <4>2
    <3>6. CASE n = l
      <4>1. Ents(u, n) \in Seq(Entry) /\ Kids(u, n) \in Seq(H)
        BY <1>7, <1>23, <2>1, <3>6
      <4>2. QED
        BY <2>2, <3>3, <3>4, <3>6, <4>1
    <3>7. CASE n # p /\ n # l
      <4>1. Ents(u, n) = Ents(t, n) /\ Kids(u, n) = Kids(t, n)
        BY <1>20, <3>7
      <4>2. ASSUME NEW j \in 1..KidCount(u, n)
            PROVE  Kid(u, n, j) \in Heap(u)
        <5>1. KidCount(u, n) = KidCount(t, n) /\ Kid(u, n, j) = Kid(t, n, j)
          BY <4>1, SameKids
        <5>2. j \in 1..KidCount(t, n)
          BY <4>2, <5>1
        <5>3. Kid(t, n, j) \in H /\ Parent(t, Kid(t, n, j)) = n
          BY <3>1, <5>2, KidFacts DEF H
        <5>4. Kid(t, n, j) # r
          BY <1>2, <3>7, <5>3
        <5>5. QED
          BY <1>18, <5>1, <5>3, <5>4
      <4>3. QED
        BY <3>2, <3>3, <3>4, <4>1, <4>2
    <3>8. QED
      BY <3>5, <3>6, <3>7
  <2>8. Typed(u)
    BY <2>6, <2>7, TypedFrom
  <2>9. QED
    BY <2>5, <2>8
<1>29. QED
  BY <1>5, <1>6, <1>18, <1>19, <1>20, <1>22, <1>24, <1>25, <1>28 DEF H

\* Between insertions and deletions there is more than this: see Sized.
Thick(t) ==
    \A n \in Heap(t) :
        /\ KeyCount(t, n) =< MaxKeys
        /\ n # t.root => MinKeys =< KeyCount(t, n)

\* What ensure_min_keys is called with: a node that can spare an entry.
Spares(t, p, level, span) ==
    /\ Formed(t, level, span) /\ Thick(t)
    /\ p \in Heap(t) /\ ~Leaf(t, p) /\ 1 =< KeyCount(t, p)
    /\ p = t.root \/ MinKeys < KeyCount(t, p)

\* A node that can do without an entry.
LEMMA SpareIs ==
    ASSUME NEW t, NEW n
    PROVE  Spare(t, n) <=> KeyCount(t, n) > MinKeys
  BY DEF Spare

\* What ensure_min_keys does to child s of p.
LEMMA EnsureCases ==
    ASSUME NEW t, NEW level, NEW span, NEW p, Spares(t, p, level, span),
           NEW s \in 1..KidCount(t, p), NEW u, u = EnsureMinKeys(t, p, s)
    PROVE  \/ u = t /\ Spare(t, Kid(t, p, s))
           \/ /\ s > 1 /\ ~Spare(t, Kid(t, p, s)) /\ Spare(t, Kid(t, p, s - 1))
              /\ u = StealLeft(t, p, s - 1)
           \/ /\ s < KidCount(t, p) /\ ~Spare(t, Kid(t, p, s)) /\ Spare(t, Kid(t, p, s + 1))
              /\ u = StealRight(t, p, s)
           \/ /\ s > 1 /\ ~Spare(t, Kid(t, p, s)) /\ ~Spare(t, Kid(t, p, s - 1))
              /\ u = Merge(t, p, s - 1)
           \/ /\ s = 1 /\ KidCount(t, p) > 1
              /\ ~Spare(t, Kid(t, p, s)) /\ ~Spare(t, Kid(t, p, s + 1))
              /\ u = Merge(t, p, s)
<1>1. Formed(t, level, span) /\ Typed(t) /\ Linked(t, level) /\ p \in Heap(t) /\ ~Leaf(t, p)
      /\ 1 =< KeyCount(t, p)
  BY DEF Spares, Formed
<1>2. KidCount(t, p) = KeyCount(t, p) + 1 /\ KeyCount(t, p) \in Nat /\ KidCount(t, p) \in Nat
  BY <1>1, Counts
<1>3. KidCount(t, p) > 1
  BY <1>1, <1>2
<1>4. Null \notin Heap(t)
  BY <1>1, NotWreck
<1>5. \A i \in 1..KidCount(t, p) : Kid(t, p, i) # Null
  BY <1>1, <1>4, KidFacts
<1> DEFINE kids == Kids(t, p)
<1>6. Len(kids) = KidCount(t, p) /\ \A i : kids[i] = Kid(t, p, i)
  BY DEF KidCount, Kid
<1>7. /\ s \in 1..Len(kids) /\ Len(kids) \in Nat /\ Len(kids) > 1
      /\ \A i \in 1..Len(kids) : kids[i] # Null
  BY <1>2, <1>3, <1>5, <1>6
<1>8. u = IF MeetsNull(t, kids, s) THEN Wreck
          ELSE IF Spare(t, kids[s]) THEN t
          ELSE IF s > 1 /\ Spare(t, kids[s - 1]) THEN StealLeft(t, p, s - 1)
          ELSE IF s < Len(kids) /\ Spare(t, kids[s + 1]) THEN StealRight(t, p, s)
          ELSE Merge(t, p, IF s > 1 THEN s - 1 ELSE s)
  BY DEF EnsureMinKeys
<1> HIDE DEF kids
<1>9. ~MeetsNull(t, kids, s)
  <2>1. kids[s] # Null /\ ~(Len(kids) < 2)
    BY <1>7
  <2>2. s > 1 => kids[s - 1] # Null
    <3>1. s > 1 => s - 1 \in 1..Len(kids)
      BY <1>7
    <3>2. QED
      BY <1>7, <3>1
  <2>3. s < Len(kids) => kids[s + 1] # Null
    <3>1. s < Len(kids) => s + 1 \in 1..Len(kids)
      BY <1>7
    <3>2. QED
      BY <1>7, <3>1
  <2>4. QED
    BY <2>1, <2>2, <2>3 DEF MeetsNull
<1>10. u = IF Spare(t, kids[s]) THEN t
           ELSE IF s > 1 /\ Spare(t, kids[s - 1]) THEN StealLeft(t, p, s - 1)
           ELSE IF s < Len(kids) /\ Spare(t, kids[s + 1]) THEN StealRight(t, p, s)
           ELSE Merge(t, p, IF s > 1 THEN s - 1 ELSE s)
  BY <1>8, <1>9
<1>11. Kid(t, p, s) = kids[s] /\ Kid(t, p, s - 1) = kids[s - 1] /\ Kid(t, p, s + 1) = kids[s + 1]
  BY <1>6
<1>12. CASE Spare(t, kids[s])
  BY <1>10, <1>11, <1>12
<1>13. CASE ~Spare(t, kids[s]) /\ s > 1 /\ Spare(t, kids[s - 1])
  BY <1>10, <1>11, <1>13
<1>14. CASE ~Spare(t, kids[s]) /\ ~(s > 1 /\ Spare(t, kids[s - 1]))
            /\ s < Len(kids) /\ Spare(t, kids[s + 1])
  BY <1>6, <1>10, <1>11, <1>14
<1>15. CASE ~Spare(t, kids[s]) /\ ~(s > 1 /\ Spare(t, kids[s - 1]))
            /\ ~(s < Len(kids) /\ Spare(t, kids[s + 1]))
  <2>1. u = Merge(t, p, IF s > 1 THEN s - 1 ELSE s)
    BY <1>10, <1>15
  <2>2. CASE s > 1
    BY <1>11, <1>15, <2>1, <2>2
  <2>3. CASE ~(s > 1)
    <3>1. s = 1 /\ s < Len(kids)
      BY <1>7, <2>3
    <3>2. u = Merge(t, p, s)
      BY <2>1, <2>3
    <3>3. QED
      BY <1>3, <1>11, <1>15, <3>1, <3>2
  <2>4. QED
    BY <2>2, <2>3
<1>16. QED
  BY <1>12, <1>13, <1>14, <1>15

\* The place of a key, by the keys beside it.
LEMMA SlotOf ==
    ASSUME NEW t, NEW level, NEW span, Formed(t, level, span), NEW p \in Heap(t), NEW k \in Key,
           NEW i \in 1..(KeyCount(t, p) + 1),
           i > 1 => KeyAt(t, p, i - 1) < k,
           i =< KeyCount(t, p) => k =< KeyAt(t, p, i)
    PROVE  Slot(Ents(t, p), k) = i
<1>1. Typed(t) /\ Spanned(t, span)
  BY DEF Formed
<1>2. CASE i =< KeyCount(t, p) /\ KeyAt(t, p, i) = k
  BY <1>1, <1>2, SortedSlot
<1>3. CASE ~(i =< KeyCount(t, p) /\ KeyAt(t, p, i) = k)
  <2>1. k \in Int
    BY BTreeAssumption
  <2>2. i =< KeyCount(t, p) => KeyAt(t, p, i) \in Int
    <3>1. KeyCount(t, p) \in Nat
      BY <1>1, TypedFacts
    <3>2. i =< KeyCount(t, p) => i \in 1..KeyCount(t, p)
      BY <3>1
    <3>3. QED
      BY <1>1, <3>2, TypedFacts
  <2>3. Between(t, p, i, k)
    BY <1>3, <2>1, <2>2 DEF Between
  <2>4. QED
    BY <1>1, <2>3, SortedSlot
<1>4. QED
  BY <1>2, <1>3

\* What ensure_min_keys leaves behind, and where the way to k goes on.
Kept(t, u, p, k, level, span) ==
    /\ Thick(u) /\ u.root = t.root /\ p \in Heap(u) /\ ~Leaf(u, p) /\ Held(u) = Held(t)
    /\ KeyCount(u, Kid(u, p, Slot(Ents(u, p), k))) > MinKeys
    /\ Here(Ents(u, p), k) => Here(Ents(t, p), k)
    /\ \E level2, span2 :
        /\ Formed(u, level2, span2)
        /\ level2[p] = level[p] /\ level2[t.root] = level[t.root]
        /\ span2[p] = span[p]

\* ensure_min_keys has nothing to do.
LEMMA KeptSame ==
    ASSUME NEW t, NEW level, NEW span, NEW p, Spares(t, p, level, span),
           NEW k, NEW s, s = Slot(Ents(t, p), k), Spare(t, Kid(t, p, s))
    PROVE  Kept(t, t, p, k, level, span)
  BY DEF Kept, Spares, Spare

\* What holds around the slot of a key, in words of the children.
LEMMA SpareFacts ==
    ASSUME NEW t, NEW level, NEW span, NEW p, Spares(t, p, level, span)
    PROVE  /\ Formed(t, level, span) /\ Typed(t) /\ Linked(t, level) /\ Spanned(t, span)
           /\ Thick(t) /\ p \in Heap(t) /\ ~Leaf(t, p)
           /\ 1 =< KeyCount(t, p) /\ KeyCount(t, p) \in Nat
           /\ KidCount(t, p) = KeyCount(t, p) + 1
           /\ \A i \in 1..KidCount(t, p) :
                /\ Kid(t, p, i) \in Heap(t) /\ Kid(t, p, i) # p /\ Kid(t, p, i) # t.root
                /\ KeyCount(t, Kid(t, p, i)) \in Nat
                /\ MinKeys =< KeyCount(t, Kid(t, p, i))
                /\ KeyCount(t, Kid(t, p, i)) =< MaxKeys
           /\ \A i \in 1..KeyCount(t, p) : KeyAt(t, p, i) \in Int /\ EntAt(t, p, i) \in Entry
<1>1. Formed(t, level, span) /\ Typed(t) /\ Linked(t, level) /\ Spanned(t, span)
      /\ Thick(t) /\ p \in Heap(t) /\ ~Leaf(t, p) /\ 1 =< KeyCount(t, p)
  BY DEF Spares, Formed
<1>2. KeyCount(t, p) \in Nat /\ KidCount(t, p) = KeyCount(t, p) + 1
  BY <1>1, Counts
<1>3. ASSUME NEW i \in 1..KidCount(t, p)
      PROVE  /\ Kid(t, p, i) \in Heap(t) /\ Kid(t, p, i) # p /\ Kid(t, p, i) # t.root
             /\ KeyCount(t, Kid(t, p, i)) \in Nat
             /\ MinKeys =< KeyCount(t, Kid(t, p, i))
             /\ KeyCount(t, Kid(t, p, i)) =< MaxKeys
  <2>1. Kid(t, p, i) \in Heap(t) /\ Kid(t, p, i) # p /\ Kid(t, p, i) # t.root
    BY <1>1, <1>3, SplitPlace
  <2>2. KeyCount(t, Kid(t, p, i)) \in Nat
    BY <1>1, <2>1, TypedFacts
  <2>3. QED
    BY <1>1, <2>1, <2>2 DEF Thick
<1>4. \A i \in 1..KeyCount(t, p) : KeyAt(t, p, i) \in Int /\ EntAt(t, p, i) \in Entry
  BY <1>1, TypedFacts
<1>5. QED
  BY <1>1, <1>2, <1>3, <1>4

\* The keys of a child are between its neighbours in the parent.
LEMMA ChildKeys ==
    ASSUME NEW t, NEW level, NEW span, Formed(t, level, span), NEW p \in Heap(t),
           NEW i \in 1..KidCount(t, p), NEW c, c = Kid(t, p, i),
           NEW j \in 1..KeyCount(t, c)
    PROVE  Between(t, p, i, KeyAt(t, c, j)) /\ KeyAt(t, c, j) \in Int
<1>1. Typed(t) /\ Spanned(t, span)
  BY DEF Formed
<1>2. c \in Heap(t)
  BY KidFacts
<1>3. KeyAt(t, c, j) \in span[c] /\ KeyAt(t, c, j) \in Key /\ KeyAt(t, c, j) \in Int
  BY <1>1, <1>2, KeyFacts
<1>4. QED
  BY <1>3, KidFacts

\* A steal between two children of p leaves Thick what can spare an entry.
LEMMA MendedThick ==
    ASSUME NEW t, NEW level, NEW span, NEW p, Spares(t, p, level, span),
           NEW x, NEW y, x \in Heap(t), y \in Heap(t), x # t.root, y # t.root,
           NEW u, Mended(t, u, p, x, y, level, span) \/ Mended(t, u, p, y, x, level, span),
           KeyCount(u, x) = KeyCount(t, x) + 1, KeyCount(u, y) = KeyCount(t, y) - 1,
           KeyCount(t, x) =< MinKeys, KeyCount(t, y) > MinKeys, x # y
    PROVE  Thick(u) /\ ~Leaf(u, p)
<1>1. /\ u.root = t.root /\ Heap(u) = Heap(t) /\ Typed(u)
      /\ KeyCount(u, p) = KeyCount(t, p)
      /\ \A n \in Heap(t) : Leaf(u, n) = Leaf(t, n)
      /\ \A n \in Heap(t) \ {p, x, y} : Ents(u, n) = Ents(t, n)
  BY DEF Mended
<1>2. Thick(t) /\ p \in Heap(t) /\ ~Leaf(t, p) /\ Typed(t)
  BY SpareFacts
<1>3. ~Leaf(u, p)
  BY <1>1, <1>2
<1>4. KeyCount(t, x) \in Nat /\ KeyCount(t, y) \in Nat /\ MinKeys \in Nat /\ MaxKeys \in Nat
      /\ MinKeys + 1 + MinKeys =< MaxKeys
  BY <1>2, TypedFacts, Sizes
<1>5. /\ MinKeys =< KeyCount(t, x) /\ KeyCount(t, x) =< MaxKeys
      /\ MinKeys =< KeyCount(t, y) /\ KeyCount(t, y) =< MaxKeys
  BY <1>2 DEF Thick
<1>6. ASSUME NEW n \in Heap(u)
      PROVE  KeyCount(u, n) =< MaxKeys /\ (n # u.root => MinKeys =< KeyCount(u, n))
  <2>1. KeyCount(t, n) =< MaxKeys /\ (n # t.root => MinKeys =< KeyCount(t, n))
    BY <1>1, <1>2 DEF Thick
  <2>2. CASE n = x
    BY <1>4, <1>5, <2>2
  <2>3. CASE n = y
    BY <1>4, <1>5, <2>3
  <2>4. CASE n # x /\ n # y
    <3>1. KeyCount(u, n) = KeyCount(t, n)
      BY <1>1, <2>4, SameEnts
    <3>2. QED
      BY <1>1, <2>1, <3>1
  <2>5. QED
    BY <2>2, <2>3, <2>4
<1>7. QED
  BY <1>3, <1>6 DEF Thick

\* ensure_min_keys steals from the left.
LEMMA KeptLeft ==
    ASSUME NEW t, NEW level, NEW span, NEW p, Spares(t, p, level, span),
           NEW k \in Key, NEW s, s = Slot(Ents(t, p), k), s > 1,
           ~Spare(t, Kid(t, p, s)), Spare(t, Kid(t, p, s - 1)),
           NEW u, u = StealLeft(t, p, s - 1)
    PROVE  Kept(t, u, p, k, level, span)
<1> DEFINE i == s - 1
           l == Kid(t, p, i)
           c == Kid(t, p, s)
<1>1. /\ Formed(t, level, span) /\ Typed(t) /\ Thick(t) /\ p \in Heap(t) /\ ~Leaf(t, p)
      /\ 1 =< KeyCount(t, p) /\ KeyCount(t, p) \in Nat /\ KidCount(t, p) = KeyCount(t, p) + 1
  BY SpareFacts
<1>2. /\ s \in 1..(KeyCount(t, p) + 1)
      /\ \A j \in 1..KeyCount(t, p) : j < s => KeyAt(t, p, j) < k
      /\ s =< KeyCount(t, p) => k =< KeyAt(t, p, s)
  BY <1>1, NodeSlot
<1>3. i \in 1..KeyCount(t, p) /\ i + 1 = s /\ s \in 1..KidCount(t, p) /\ i \in 1..KidCount(t, p)
      /\ i < s
  BY <1>1, <1>2
<1>4. KeyCount(t, l) > MinKeys /\ KeyCount(t, c) =< MinKeys /\ MinKeys \in Nat
      /\ KeyCount(t, l) \in Nat /\ KeyCount(t, c) \in Nat /\ MinKeys =< KeyCount(t, c)
      /\ l \in Heap(t) /\ c \in Heap(t) /\ l # t.root /\ c # t.root
  BY <1>3, SpareFacts, SpareIs, Sizes
<1>5. 1 =< KeyCount(t, l) /\ KeyCount(t, l) \in 1..KeyCount(t, l) /\ l # c
  BY <1>4
<1>6. c = Kid(t, p, i + 1)
  BY <1>3
<1> HIDE DEF i, l, c
<1>7. u = StealLeft(t, p, i) /\ l = Kid(t, p, i) /\ c = Kid(t, p, s)
  BY DEF i, l, c
<1>8. /\ Mended(t, u, p, l, c, level, span)
      /\ KeyCount(u, c) = KeyCount(t, c) + 1 /\ KeyCount(u, l) = KeyCount(t, l) - 1
      /\ \A j \in 1..KeyCount(t, p) :
            EntAt(u, p, j) = IF j = i THEN EntAt(t, l, KeyCount(t, l)) ELSE EntAt(t, p, j)
  BY <1>1, <1>3, <1>5, <1>6, <1>7, StealLeftFormed
<1>9. Thick(u) /\ ~Leaf(u, p)
  BY <1>4, <1>5, <1>8, MendedThick
<1>10. /\ u.root = t.root /\ Heap(u) = Heap(t) /\ Kids(u, p) = Kids(t, p)
       /\ KeyCount(u, p) = KeyCount(t, p) /\ Held(u) = Held(t)
       /\ \E level2, span2 :
            /\ Formed(u, level2, span2)
            /\ \A n \in Heap(t) : level2[n] = level[n]
            /\ \A n \in Heap(t) \ {l, c} : span2[n] = span[n]
  BY <1>8 DEF Mended
<1>11. PICK level2, span2 :
            /\ Formed(u, level2, span2)
            /\ \A n \in Heap(t) : level2[n] = level[n]
            /\ \A n \in Heap(t) \ {l, c} : span2[n] = span[n]
  BY <1>10
<1>12. KeyAt(u, p, i) = KeyAt(t, l, KeyCount(t, l))
  BY <1>3, <1>8, EntKey
<1>13. KeyAt(u, p, i) < KeyAt(t, p, i) /\ KeyAt(u, p, i) \in Int
  <2>1. Between(t, p, i, KeyAt(t, l, KeyCount(t, l))) /\ KeyAt(t, l, KeyCount(t, l)) \in Int
    BY <1>1, <1>3, <1>5, <1>7, ChildKeys
  <2>2. i =< KeyCount(t, p)
    BY <1>3
  <2>3. QED
    BY <1>12, <2>1, <2>2 DEF Between
<1>14. KeyAt(u, p, s - 1) < k
  <2>1. KeyAt(t, p, i) < k
    BY <1>2, <1>3
  <2>2. KeyAt(t, p, i) \in Int /\ k \in Int
    BY <1>3, SpareFacts, BTreeAssumption
  <2>3. QED
    BY <1>13, <2>1, <2>2 DEF i
<1>15. s =< KeyCount(u, p) => k =< KeyAt(u, p, s)
  <2>1. SUFFICES ASSUME s =< KeyCount(u, p) PROVE k =< KeyAt(u, p, s)
    OBVIOUS
  <2>2. s \in 1..KeyCount(t, p) /\ s # i
    BY <1>2, <1>3, <1>10, <2>1
  <2>3. EntAt(u, p, s) = EntAt(t, p, s)
    BY <1>8, <2>2
  <2>4. KeyAt(u, p, s) = KeyAt(t, p, s)
    BY <2>3, EntKey
  <2>5. QED
    BY <1>2, <2>2, <2>4
<1>16. Slot(Ents(u, p), k) = s
  BY <1>1, <1>2, <1>10, <1>11, <1>14, <1>15, SlotOf
<1>17. Kid(u, p, s) = c
  BY <1>7, <1>10, SameKids
<1>18. KeyCount(u, Kid(u, p, s)) > MinKeys
  BY <1>4, <1>8, <1>17
<1>22. Here(Ents(u, p), k) => Here(Ents(t, p), k)
  <2>1. SUFFICES ASSUME Here(Ents(u, p), k) PROVE Here(Ents(t, p), k)
    OBVIOUS
  <2>2. s =< KeyCount(u, p) /\ KeyAt(u, p, s) = k
    BY <1>1, <1>8, <1>10, <1>16, <2>1, NodeSlot DEF Mended
  <2>3. s \in 1..KeyCount(t, p) /\ s # i
    BY <1>2, <1>3, <1>10, <2>2
  <2>4. KeyAt(u, p, s) = KeyAt(t, p, s)
    BY <1>8, <2>3, EntKey
  <2>5. QED
    BY <1>1, <2>2, <2>3, <2>4, NodeSlot
<1>19. p \in Heap(t) \ {l, c} /\ t.root \in Heap(t)
  BY <1>1, <1>3, <1>7, SpareFacts DEF Typed
<1>20. level2[p] = level[p] /\ level2[t.root] = level[t.root] /\ span2[p] = span[p]
  BY <1>11, <1>19
<1>21. QED
  BY <1>1, <1>9, <1>10, <1>11, <1>16, <1>18, <1>20, <1>22 DEF Kept

\* ensure_min_keys steals from the right.
LEMMA KeptRight ==
    ASSUME NEW t, NEW level, NEW span, NEW p, Spares(t, p, level, span),
           NEW k \in Key, NEW s, s = Slot(Ents(t, p), k), s < KidCount(t, p),
           ~Spare(t, Kid(t, p, s)), Spare(t, Kid(t, p, s + 1)),
           NEW u, u = StealRight(t, p, s)
    PROVE  Kept(t, u, p, k, level, span)
<1> DEFINE r == Kid(t, p, s + 1)
           c == Kid(t, p, s)
<1>1. /\ Formed(t, level, span) /\ Typed(t) /\ Thick(t) /\ p \in Heap(t) /\ ~Leaf(t, p)
      /\ 1 =< KeyCount(t, p) /\ KeyCount(t, p) \in Nat /\ KidCount(t, p) = KeyCount(t, p) + 1
  BY SpareFacts
<1>2. /\ s \in 1..(KeyCount(t, p) + 1)
      /\ \A j \in 1..KeyCount(t, p) : j < s => KeyAt(t, p, j) < k
      /\ s =< KeyCount(t, p) => k =< KeyAt(t, p, s)
  BY <1>1, NodeSlot
<1>3. s \in 1..KeyCount(t, p) /\ s \in 1..KidCount(t, p) /\ s + 1 \in 1..KidCount(t, p)
  BY <1>1, <1>2
<1>4. KeyCount(t, r) > MinKeys /\ KeyCount(t, c) =< MinKeys /\ MinKeys \in Nat
      /\ KeyCount(t, r) \in Nat /\ KeyCount(t, c) \in Nat /\ MinKeys =< KeyCount(t, c)
      /\ r \in Heap(t) /\ c \in Heap(t) /\ r # t.root /\ c # t.root
  BY <1>3, SpareFacts, SpareIs, Sizes
<1>5. 1 =< KeyCount(t, r) /\ 1 \in 1..KeyCount(t, r) /\ r # c
  BY <1>4
<1> HIDE DEF r, c
<1>7. r = Kid(t, p, s + 1) /\ c = Kid(t, p, s)
  BY DEF r, c
<1>8. /\ Mended(t, u, p, c, r, level, span)
      /\ KeyCount(u, c) = KeyCount(t, c) + 1 /\ KeyCount(u, r) = KeyCount(t, r) - 1
      /\ \A j \in 1..KeyCount(t, p) :
            EntAt(u, p, j) = IF j = s THEN EntAt(t, r, 1) ELSE EntAt(t, p, j)
  BY <1>1, <1>3, <1>5, <1>7, StealRightFormed
<1>9. Thick(u) /\ ~Leaf(u, p)
  BY <1>4, <1>5, <1>8, MendedThick
<1>10. /\ u.root = t.root /\ Heap(u) = Heap(t) /\ Kids(u, p) = Kids(t, p)
       /\ KeyCount(u, p) = KeyCount(t, p) /\ Held(u) = Held(t)
       /\ \E level2, span2 :
            /\ Formed(u, level2, span2)
            /\ \A n \in Heap(t) : level2[n] = level[n]
            /\ \A n \in Heap(t) \ {c, r} : span2[n] = span[n]
  BY <1>8 DEF Mended
<1>11. PICK level2, span2 :
            /\ Formed(u, level2, span2)
            /\ \A n \in Heap(t) : level2[n] = level[n]
            /\ \A n \in Heap(t) \ {c, r} : span2[n] = span[n]
  BY <1>10
<1>12. KeyAt(u, p, s) = KeyAt(t, r, 1)
  BY <1>3, <1>8, EntKey
<1>13. KeyAt(t, p, s) < KeyAt(u, p, s) /\ KeyAt(u, p, s) \in Int
  <2>1. Between(t, p, s + 1, KeyAt(t, r, 1)) /\ KeyAt(t, r, 1) \in Int
    BY <1>1, <1>3, <1>5, <1>7, ChildKeys
  <2>2. s + 1 > 1 /\ (s + 1) - 1 = s
    BY <1>1, <1>3
  <2>3. KeyAt(t, p, (s + 1) - 1) < KeyAt(t, r, 1)
    BY <2>1, <2>2 DEF Between
  <2>4. KeyAt(t, p, s) < KeyAt(t, r, 1)
    BY <2>2, <2>3
  <2>5. QED
    BY <1>12, <2>1, <2>4
<1>14. k =< KeyAt(u, p, s)
  <2>1. k =< KeyAt(t, p, s)
    BY <1>2, <1>3
  <2>2. KeyAt(t, p, s) \in Int /\ k \in Int
    BY <1>3, SpareFacts, BTreeAssumption
  <2>3. QED
    BY <1>13, <2>1, <2>2
<1>15. s > 1 => KeyAt(u, p, s - 1) < k
  <2>1. SUFFICES ASSUME s > 1 PROVE KeyAt(u, p, s - 1) < k
    OBVIOUS
  <2>2. s - 1 \in 1..KeyCount(t, p) /\ s - 1 # s /\ s - 1 < s
    BY <1>1, <1>3, <2>1
  <2>3. EntAt(u, p, s - 1) = EntAt(t, p, s - 1)
    BY <1>8, <2>2
  <2>4. KeyAt(u, p, s - 1) = KeyAt(t, p, s - 1)
    BY <2>3, EntKey
  <2>5. QED
    BY <1>2, <2>2, <2>4
<1>16. Slot(Ents(u, p), k) = s
  BY <1>1, <1>2, <1>10, <1>11, <1>14, <1>15, SlotOf
<1>17. Kid(u, p, s) = c
  BY <1>7, <1>10, SameKids
<1>18. KeyCount(u, Kid(u, p, s)) > MinKeys
  BY <1>4, <1>8, <1>17
<1>22. ~Here(Ents(u, p), k)
  <2>1. SUFFICES ASSUME Here(Ents(u, p), k) PROVE FALSE
    OBVIOUS
  <2>2. KeyAt(u, p, s) = k
    BY <1>1, <1>8, <1>10, <1>16, <2>1, NodeSlot DEF Mended
  <2>3. KeyAt(t, p, s) < k /\ k =< KeyAt(t, p, s) /\ k \in Int /\ KeyAt(t, p, s) \in Int
    BY <1>2, <1>3, <1>13, <2>2, SpareFacts, BTreeAssumption
  <2>4. QED
    BY <2>3
<1>19. p \in Heap(t) \ {c, r} /\ t.root \in Heap(t)
  BY <1>1, <1>3, <1>7, SpareFacts DEF Typed
<1>20. level2[p] = level[p] /\ level2[t.root] = level[t.root] /\ span2[p] = span[p]
  BY <1>11, <1>19
<1>21. QED
  BY <1>1, <1>9, <1>10, <1>11, <1>16, <1>18, <1>20, <1>22 DEF Kept

\* Leaves that cannot spare an entry are merged.
LEMMA KeptMerge ==
    ASSUME NEW t, NEW level, NEW span, NEW p, Spares(t, p, level, span),
           NEW k \in Key, NEW s, s = Slot(Ents(t, p), k),
           NEW i \in 1..KeyCount(t, p), i = s \/ i + 1 = s,
           NEW l, l = Kid(t, p, i), NEW r, r = Kid(t, p, i + 1),
           ~Spare(t, l), ~Spare(t, r), Leaf(t, l),
           NEW u, u = Merge(t, p, i)
    PROVE  Kept(t, u, p, k, level, span)
<1>1. /\ Formed(t, level, span) /\ Typed(t) /\ Spanned(t, span) /\ Thick(t)
      /\ p \in Heap(t) /\ ~Leaf(t, p)
      /\ 1 =< KeyCount(t, p) /\ KeyCount(t, p) \in Nat /\ KidCount(t, p) = KeyCount(t, p) + 1
  BY SpareFacts
<1>2. /\ s \in 1..(KeyCount(t, p) + 1)
      /\ \A j \in 1..KeyCount(t, p) : j < s => KeyAt(t, p, j) < k
      /\ s =< KeyCount(t, p) => k =< KeyAt(t, p, s)
  BY <1>1, NodeSlot
<1>3. i \in 1..KidCount(t, p) /\ i + 1 \in 1..KidCount(t, p) /\ i \in Nat
  BY <1>1
<1>4. /\ KeyCount(t, l) =< MinKeys /\ KeyCount(t, r) =< MinKeys
      /\ KeyCount(t, l) \in Nat /\ KeyCount(t, r) \in Nat
      /\ MinKeys =< KeyCount(t, l) /\ MinKeys =< KeyCount(t, r)
      /\ l \in Heap(t) /\ r \in Heap(t) /\ l # t.root /\ r # t.root /\ l # p /\ r # p
      /\ MinKeys \in Nat /\ MaxKeys \in Nat /\ 1 =< MinKeys /\ MinKeys + 1 + MinKeys =< MaxKeys
  BY <1>3, SpareFacts, SpareIs, Sizes
<1>5. Typed(u) /\ Joins(t, u, p, i, l, r)
  BY <1>1, MergeFacts
<1>6. l # r
  BY <1>1, JoinPlace
<1>7. /\ u.root = t.root /\ Heap(u) = Heap(t) \ {r}
      /\ \A n \in Heap(u) : Leaf(u, n) = Leaf(t, n)
      /\ \A n \in Heap(u) \ {l, p} : Ents(u, n) = Ents(t, n) /\ Kids(u, n) = Kids(t, n)
      /\ KeyCount(u, p) = KeyCount(t, p) - 1
      /\ \A j \in 1..(KeyCount(t, p) - 1) :
            EntAt(u, p, j) = IF j < i THEN EntAt(t, p, j) ELSE EntAt(t, p, j + 1)
      /\ KidCount(u, p) = KidCount(t, p) - 1
      /\ \A j \in 1..(KidCount(t, p) - 1) :
            Kid(u, p, j) = IF j < i + 1 THEN Kid(t, p, j) ELSE Kid(t, p, j + 1)
      /\ KeyCount(u, l) = KeyCount(t, l) + 1 + KeyCount(t, r)
  BY <1>5 DEF Joins
<1>8. /\ Held(u) = Held(t)
      /\ \E level2, span2 :
            /\ Formed(u, level2, span2)
            /\ \A n \in Heap(u) : level2[n] = level[n]
            /\ \A n \in Heap(u) \ {l} : span2[n] = span[n]
            /\ span2[l] = {x \in span[p] : Between(u, p, i, x)}
  BY <1>1, <1>5, JoinFormed
<1>9. PICK level2, span2 :
            /\ Formed(u, level2, span2)
            /\ \A n \in Heap(u) : level2[n] = level[n]
            /\ \A n \in Heap(u) \ {l} : span2[n] = span[n]
  BY <1>8
<1>10. p \in Heap(u) \ {l} /\ t.root \in Heap(u) /\ l \in Heap(u)
  BY <1>1, <1>4, <1>6, <1>7 DEF Typed
<1>11. level2[p] = level[p] /\ level2[t.root] = level[t.root] /\ span2[p] = span[p]
  BY <1>9, <1>10
<1>12. k \in Int /\ \A j \in 1..KeyCount(t, p) : KeyAt(t, p, j) \in Int
  BY SpareFacts, BTreeAssumption
<1>13. i > 1 => KeyAt(u, p, i - 1) < k
  <2>1. SUFFICES ASSUME i > 1 PROVE KeyAt(u, p, i - 1) < k
    OBVIOUS
  <2>2. i - 1 \in 1..(KeyCount(t, p) - 1) /\ i - 1 < i /\ i - 1 < s /\ i - 1 \in 1..KeyCount(t, p)
    BY <1>1, <1>2, <1>3, <2>1
  <2>3. EntAt(u, p, i - 1) = EntAt(t, p, i - 1)
    BY <1>7, <2>2
  <2>4. KeyAt(u, p, i - 1) = KeyAt(t, p, i - 1)
    BY <2>3, EntKey
  <2>5. QED
    BY <1>2, <2>2, <2>4
<1>14. i =< KeyCount(u, p) => k =< KeyAt(u, p, i)
  <2>1. SUFFICES ASSUME i =< KeyCount(u, p) PROVE k =< KeyAt(u, p, i)
    OBVIOUS
  <2>2. i \in 1..(KeyCount(t, p) - 1) /\ ~(i < i) /\ i + 1 \in 1..KeyCount(t, p)
    BY <1>1, <1>3, <1>7, <2>1
  <2>3. EntAt(u, p, i) = EntAt(t, p, i + 1)
    BY <1>7, <2>2
  <2>4. KeyAt(u, p, i) = KeyAt(t, p, i + 1)
    BY <2>3, EntKey
  <2>5. CASE i + 1 = s
    <3>1. s =< KeyCount(t, p)
      BY <2>2, <2>5
    <3>2. QED
      BY <1>2, <2>4, <2>5, <3>1
  <2>6. CASE i = s
    <3>1. s =< KeyCount(t, p) /\ i < i + 1
      BY <1>3, <2>6
    <3>2. k =< KeyAt(t, p, i)
      BY <1>2, <2>6, <3>1
    <3>3. KeyAt(t, p, i) < KeyAt(t, p, i + 1)
      BY <1>1, <2>2, <3>1, KeyFacts
    <3>4. KeyAt(t, p, i) \in Int /\ KeyAt(t, p, i + 1) \in Int
      BY <1>12, <2>2
    <3>5. QED
      BY <1>12, <2>4, <3>2, <3>3, <3>4
  <2>7. QED
    BY <2>5, <2>6
<1>15. i \in 1..(KeyCount(u, p) + 1) /\ i \in 1..(KidCount(t, p) - 1) /\ i < i + 1
  BY <1>1, <1>3, <1>7
<1>16. Slot(Ents(u, p), k) = i
  BY <1>9, <1>10, <1>13, <1>14, <1>15, SlotOf
<1>17. Kid(u, p, i) = l
  BY <1>7, <1>15
<1>18. KeyCount(u, l) > MinKeys /\ KeyCount(u, l) =< MaxKeys
  BY <1>4, <1>7
<1>19. ASSUME NEW n \in Heap(u)
       PROVE  KeyCount(u, n) =< MaxKeys /\ (n # u.root => MinKeys =< KeyCount(u, n))
  <2>1. n \in Heap(t)
    BY <1>7
  <2>2. KeyCount(t, n) =< MaxKeys /\ (n # t.root => MinKeys =< KeyCount(t, n))
    BY <1>1, <2>1 DEF Thick
  <2>3. CASE n = l
    <3>1. KeyCount(u, l) \in Nat
      BY <1>4, <1>7
    <3>2. QED
      BY <1>4, <1>18, <2>3, <3>1
  <2>4. CASE n = p
    <3>1. p = t.root \/ MinKeys < KeyCount(t, p)
      BY DEF Spares
    <3>2. QED
      BY <1>1, <1>4, <1>7, <2>2, <2>4, <3>1
  <2>5. CASE n # l /\ n # p
    <3>1. KeyCount(u, n) = KeyCount(t, n)
      BY <1>7, <2>5, SameEnts
    <3>2. QED
      BY <1>7, <2>2, <3>1
  <2>6. QED
    BY <2>3, <2>4, <2>5
<1>20. Thick(u)
  BY <1>19 DEF Thick
<1>21. ~Leaf(u, p)
  BY <1>1, <1>7, <1>10
<1>22. Here(Ents(u, p), k) => Here(Ents(t, p), k)
  <2>1. SUFFICES ASSUME Here(Ents(u, p), k) PROVE Here(Ents(t, p), k)
    OBVIOUS
  <2>2. i =< KeyCount(u, p) /\ KeyAt(u, p, i) = k
    BY <1>5, <1>10, <1>16, <2>1, NodeSlot
  <2>3. i \in 1..(KeyCount(t, p) - 1) /\ ~(i < i) /\ i + 1 \in 1..KeyCount(t, p)
    BY <1>1, <1>3, <1>7, <2>2
  <2>4. EntAt(u, p, i) = EntAt(t, p, i + 1)
    BY <1>7, <2>3
  <2>5. KeyAt(t, p, i + 1) = k
    BY <2>2, <2>4, EntKey
  <2>6. QED
    BY <1>1, <2>3, <2>5, HereFacts
<1>23. QED
  BY <1>7, <1>8, <1>9, <1>10, <1>11, <1>16, <1>17, <1>18, <1>20, <1>21, <1>22 DEF Kept

\* A merge of internal nodes is seen by what it leaves.
LEMMA MergeSeen ==
    ASSUME NEW t, NEW level, NEW span, NEW p, Spares(t, p, level, span),
           NEW k \in Key,
           NEW i \in 1..KeyCount(t, p),
           NEW l, l = Kid(t, p, i), ~Leaf(t, l),
           NEW u, u = Merge(t, p, i), NEW c, c = Kid(u, p, Slot(Ents(u, p), k))
    PROVE  /\ u # Wreck /\ c # Null /\ ~Leaf(u, c)
           /\ KeyCount(u, p) # KeyCount(t, p)
<1> DEFINE r == Kid(t, p, i + 1)
           s == Slot(Ents(u, p), k)
<1>1. /\ Formed(t, level, span) /\ Typed(t) /\ Linked(t, level) /\ p \in Heap(t) /\ ~Leaf(t, p)
      /\ 1 =< KeyCount(t, p) /\ KeyCount(t, p) \in Nat /\ KidCount(t, p) = KeyCount(t, p) + 1
  BY SpareFacts
<1> HIDE DEF r
<1>2. r = Kid(t, p, i + 1)
  BY DEF r
<1>3. /\ u.root = t.root /\ Heap(u) = Heap(t) \ {r}
      /\ \A n \in Heap(u) : Leaf(u, n) = Leaf(t, n)
      /\ Ents(u, p) \in Seq(Entry) /\ KeyCount(u, p) = KeyCount(t, p) - 1
      /\ KidCount(u, p) = KidCount(t, p) - 1
      /\ \A j \in 1..(KidCount(t, p) - 1) :
           Kid(u, p, j) = IF j < i + 1 THEN Kid(t, p, j) ELSE Kid(t, p, j + 1)
  BY <1>1, <1>2, MergeFacts
<1>4. s \in 1..(Len(Ents(u, p)) + 1)
  BY <1>3, SlotFacts
<1> HIDE DEF s
<1>5. s \in 1..(KidCount(t, p) - 1)
  BY <1>1, <1>3, <1>4 DEF KeyCount
<1>6. c = IF s < i + 1 THEN Kid(t, p, s) ELSE Kid(t, p, s + 1)
  BY <1>3, <1>5 DEF s
<1>7. PICK j \in 1..KidCount(t, p) : c = Kid(t, p, j) /\ j # i + 1
  <2>1. CASE s < i + 1
    BY <1>1, <1>5, <1>6, <2>1
  <2>2. CASE ~(s < i + 1)
    <3>1. s + 1 \in 1..KidCount(t, p) /\ s + 1 # i + 1
      BY <1>1, <1>5, <2>2
    <3>2. c = Kid(t, p, s + 1)
      BY <1>6, <2>2
    <3>3. QED
      BY <3>1, <3>2
  <2>3. QED
    BY <2>1, <2>2
<1>8. i + 1 \in 1..KidCount(t, p) /\ i \in 1..KidCount(t, p)
  BY <1>1
<1>9. c # r /\ c \in Heap(t) /\ l \in Heap(t) /\ level[c] = level[p] - 1 /\ level[l] = level[p] - 1
  BY <1>1, <1>2, <1>7, <1>8, KidFacts
<1>10. ~Leaf(t, c)
  <2>1. level[l] # 0
    BY <1>1, <1>9 DEF Linked
  <2>2. QED
    BY <1>1, <1>9, <2>1 DEF Linked
<1>11. c \in Heap(u)
  BY <1>3, <1>9
<1>12. ~Leaf(u, c)
  BY <1>3, <1>10, <1>11
<1>13. c # Null /\ t.root \in Nat
  BY <1>1, <1>9 DEF Typed, Null
<1>14. u # Wreck
  BY <1>3, <1>13 DEF Wreck
<1>15. QED
  BY <1>1, <1>3, <1>12, <1>13, <1>14

\* What ensure_min_keys does on the way to a key.
LEMMA EnsureFacts ==
    ASSUME NEW t, NEW level, NEW span, NEW p, Spares(t, p, level, span),
           NEW k \in Key, NEW u, u = EnsureMinKeys(t, p, Slot(Ents(t, p), k)),
           NEW c, c = Kid(u, p, Slot(Ents(u, p), k))
    PROVE  \/ Kept(t, u, p, k, level, span)
           \/ /\ u # Wreck /\ c # Null /\ ~Leaf(u, c)
              /\ KeyCount(u, p) # KeyCount(t, p)
<1> DEFINE s == Slot(Ents(t, p), k)
<1>1. /\ Formed(t, level, span) /\ Typed(t) /\ Linked(t, level) /\ p \in Heap(t) /\ ~Leaf(t, p)
      /\ 1 =< KeyCount(t, p) /\ KeyCount(t, p) \in Nat /\ KidCount(t, p) = KeyCount(t, p) + 1
  BY SpareFacts
<1>2. s \in 1..(KeyCount(t, p) + 1)
  BY <1>1, NodeSlot
<1> HIDE DEF s
<1>3. s = Slot(Ents(t, p), k) /\ u = EnsureMinKeys(t, p, s) /\ s \in 1..KidCount(t, p)
  BY <1>1, <1>2 DEF s
<1>4. \/ u = t /\ Spare(t, Kid(t, p, s))
      \/ /\ s > 1 /\ ~Spare(t, Kid(t, p, s)) /\ Spare(t, Kid(t, p, s - 1))
         /\ u = StealLeft(t, p, s - 1)
      \/ /\ s < KidCount(t, p) /\ ~Spare(t, Kid(t, p, s)) /\ Spare(t, Kid(t, p, s + 1))
         /\ u = StealRight(t, p, s)
      \/ /\ s > 1 /\ ~Spare(t, Kid(t, p, s)) /\ ~Spare(t, Kid(t, p, s - 1))
         /\ u = Merge(t, p, s - 1)
      \/ /\ s = 1 /\ KidCount(t, p) > 1
         /\ ~Spare(t, Kid(t, p, s)) /\ ~Spare(t, Kid(t, p, s + 1))
         /\ u = Merge(t, p, s)
  BY <1>3, EnsureCases
<1>5. CASE u = t /\ Spare(t, Kid(t, p, s))
  BY <1>3, <1>5, KeptSame
<1>6. CASE /\ s > 1 /\ ~Spare(t, Kid(t, p, s)) /\ Spare(t, Kid(t, p, s - 1))
           /\ u = StealLeft(t, p, s - 1)
  BY <1>3, <1>6, KeptLeft
<1>7. CASE /\ s < KidCount(t, p) /\ ~Spare(t, Kid(t, p, s)) /\ Spare(t, Kid(t, p, s + 1))
           /\ u = StealRight(t, p, s)
  BY <1>3, <1>7, KeptRight
<1>8. CASE /\ s > 1 /\ ~Spare(t, Kid(t, p, s)) /\ ~Spare(t, Kid(t, p, s - 1))
           /\ u = Merge(t, p, s - 1)
  <2> DEFINE i == s - 1
  <2>1. i \in 1..KeyCount(t, p) /\ i + 1 = s
    BY <1>2, <1>8, <1>1 DEF s
  <2>2. u = Merge(t, p, i) /\ ~Spare(t, Kid(t, p, i)) /\ ~Spare(t, Kid(t, p, i + 1))
    BY <1>8, <2>1
  <2> HIDE DEF i
  <2>3. CASE Leaf(t, Kid(t, p, i))
    BY <1>3, <2>1, <2>2, <2>3, KeptMerge
  <2>4. CASE ~Leaf(t, Kid(t, p, i))
    BY <2>1, <2>2, <2>4, MergeSeen
  <2>5. QED
    BY <2>3, <2>4
<1>9. CASE /\ s = 1 /\ KidCount(t, p) > 1
           /\ ~Spare(t, Kid(t, p, s)) /\ ~Spare(t, Kid(t, p, s + 1))
           /\ u = Merge(t, p, s)
  <2>1. s \in 1..KeyCount(t, p)
    BY <1>1, <1>9
  <2>2. u = Merge(t, p, s) /\ ~Spare(t, Kid(t, p, s)) /\ ~Spare(t, Kid(t, p, s + 1))
    BY <1>9
  <2>3. CASE Leaf(t, Kid(t, p, s))
    BY <1>3, <2>1, <2>2, <2>3, KeptMerge
  <2>4. CASE ~Leaf(t, Kid(t, p, s))
    BY <2>1, <2>2, <2>4, MergeSeen
  <2>5. QED
    BY <2>3, <2>4
<1>10. QED
  BY <1>4, <1>5, <1>6, <1>7, <1>8, <1>9

\* A leaf without its entry s.
LEMMA TakenFacts ==
    ASSUME NEW t, Typed(t), NEW p \in Heap(t), NEW s \in 1..KeyCount(t, p),
           NEW u, u = Fill(t, p, RemoveAt(Ents(t, p), s), Kids(t, p))
    PROVE  /\ Typed(u) /\ Takes(t, u, p, s)
           /\ Ents(u, p) \in Seq(Entry)
<1> DEFINE ents == RemoveAt(Ents(t, p), s)
<1>1. /\ u.root = t.root /\ Heap(u) = Heap(t)
      /\ Ents(u, p) = ents /\ Kids(u, p) = Kids(t, p)
      /\ \A m \in Heap(t) : Leaf(u, m) = Leaf(t, m) /\ Parent(u, m) = Parent(t, m)
      /\ \A m \in Heap(t) \ {p} : Ents(u, m) = Ents(t, m) /\ Kids(u, m) = Kids(t, m)
  BY FillFacts
<1>2. Ents(t, p) \in Seq(Entry)
  BY TypedFacts
<1>3. s \in 1..Len(Ents(t, p))
  BY DEF KeyCount
<1>4. /\ ents \in Seq(Entry)
      /\ Len(ents) = Len(Ents(t, p)) - 1
      /\ \A j \in 1..(Len(Ents(t, p)) - 1) :
            ents[j] = IF j < s THEN Ents(t, p)[j] ELSE Ents(t, p)[j + 1]
  BY <1>2, <1>3, RemoveAtFacts
<1> HIDE DEF ents
<1>5. /\ KeyCount(u, p) = KeyCount(t, p) - 1
      /\ \A j \in 1..(KeyCount(t, p) - 1) :
            EntAt(u, p, j) = IF j < s THEN EntAt(t, p, j) ELSE EntAt(t, p, j + 1)
  BY <1>1, <1>4 DEF KeyCount, EntAt
<1>6. \A n \in Heap(t) : Leaf(u, n) = Leaf(t, n) /\ Kids(u, n) = Kids(t, n) /\ Parent(u, n) = Parent(t, n)
  BY <1>1
<1>7. Takes(t, u, p, s)
  BY <1>1, <1>5, <1>6 DEF Takes, Differs
<1>8. ASSUME NEW n \in Heap(u)
      PROVE  /\ Leaf(u, n) \in BOOLEAN
             /\ Ents(u, n) \in Seq(Entry)
             /\ Kids(u, n) \in Seq(Heap(u))
             /\ Parent(u, n) \in Nat
  <2>1. n \in Heap(t)
    BY <1>1
  <2>2. /\ Leaf(t, n) \in BOOLEAN /\ Ents(t, n) \in Seq(Entry)
        /\ Kids(t, n) \in Seq(Heap(t)) /\ Parent(t, n) \in Nat
    BY <2>1, TypedFacts
  <2>3. Ents(u, n) \in Seq(Entry)
    BY <1>1, <1>4, <2>1, <2>2
  <2>4. Kids(u, n) \in Seq(Heap(u)) /\ Parent(u, n) \in Nat
    BY <1>1, <1>6, <2>1, <2>2
  <2>5. Leaf(u, n) \in BOOLEAN
    BY <1>6, <2>1, <2>2, Zenon
  <2>6. QED
    BY <2>3, <2>4, <2>5
<1>9. Typed(u)
  BY <1>1, <1>8 DEF Typed
<1>10. QED
  BY <1>1, <1>4, <1>7, <1>9

\* A separator that goes, and the last entry of the leaf to its left in its place.
LEMMA SwapFormed ==
    ASSUME NEW t, NEW level, NEW span, Formed(t, level, span),
           NEW p \in Heap(t), ~Leaf(t, p), NEW a \in 1..KeyCount(t, p),
           NEW c, c = Kid(t, p, a), Leaf(t, c),
           NEW n, n = KeyCount(t, c), 1 =< n,
           NEW w, w = Replace(t, p, a, EntAt(t, c, n)),
           NEW v, v = Fill(w, c, RemoveAt(Ents(w, c), n), Kids(w, c))
    PROVE  /\ Typed(v) /\ v.root = t.root /\ Heap(v) = Heap(t)
           /\ \A x \in Heap(t) : Leaf(v, x) = Leaf(t, x)
           /\ \A x \in Heap(t) \ {c} : KeyCount(v, x) = KeyCount(t, x)
           /\ KeyCount(v, c) = n - 1
           /\ Held(v) = Held(t) \ {EntAt(t, p, a)}
           /\ \E level2, span2 : Formed(v, level2, span2)
<1> DEFINE J == Joined(t, p, a)
           r == Kid(t, p, a + 1)
           J2 == Fill(J, c, RemoveAt(Ents(J, c), n + 1), Kids(J, c))
           b == KeyCount(t, r)
           w2 == KeyCount(t, p)
<1>1. Typed(t) /\ Typed(J) /\ Joins(t, J, p, a, c, r)
  BY JoinedFacts DEF Formed
<1> HIDE DEF J, r
<1>2. /\ a \in 1..KidCount(t, p) /\ a + 1 \in 1..KidCount(t, p)
      /\ c \in Heap(t) /\ r \in Heap(t) /\ c # r
      /\ c # p /\ r # p /\ c # t.root /\ r # t.root
      /\ Parent(t, c) = p /\ Parent(t, r) = p
      /\ Leaf(t, c) = Leaf(t, r)
      /\ KidCount(t, p) = w2 + 1
      /\ KidCount(t, c) = 0 /\ KidCount(t, r) = 0
      /\ n \in Nat /\ b \in Nat /\ w2 \in Nat
  <2>1. r = Kid(t, p, a + 1)
    BY DEF r
  <2> HIDE DEF b, w2, J2
  <2>6. /\ a \in 1..KidCount(t, p) /\ a + 1 \in 1..KidCount(t, p)
        /\ c \in Heap(t) /\ r \in Heap(t) /\ c # r
        /\ c # p /\ r # p /\ c # t.root /\ r # t.root
        /\ Parent(t, c) = p /\ Parent(t, r) = p
    BY <2>1, JoinPlace
  <2>7. Leaf(t, c) = Leaf(t, r)
    <3>1. level[c] = level[r]
      BY <2>1, JoinPlace
    <3>2. Linked(t, level)
      BY DEF Formed
    <3>3. Leaf(t, c) <=> Leaf(t, r)
      BY <2>6, <3>1, <3>2 DEF Linked
    <3>4. Leaf(t, c) \in BOOLEAN /\ Leaf(t, r) \in BOOLEAN
      BY <1>1, <2>6, TypedFacts
    <3>5. QED
      BY <3>3, <3>4, Zenon
  <2>8. /\ KidCount(t, p) = KeyCount(t, p) + 1
        /\ KidCount(t, c) = IF Leaf(t, c) THEN 0 ELSE KeyCount(t, c) + 1
        /\ KidCount(t, r) = IF Leaf(t, c) THEN 0 ELSE KeyCount(t, r) + 1
        /\ KeyCount(t, c) \in Nat /\ KeyCount(t, r) \in Nat /\ KeyCount(t, p) \in Nat
    BY <2>1, JoinPlace
  <2>3. KidCount(t, c) = 0 /\ KidCount(t, r) = 0
    BY <2>8
  <2>4. KidCount(t, p) = w2 + 1 /\ n \in Nat /\ b \in Nat /\ w2 \in Nat
    BY <2>8 DEF b, w2
  <2>5. QED
    BY <2>3, <2>4, <2>6, <2>7
<1> DEFINE H == Heap(t)
<1> HIDE DEF J2, b, w2, H
<1>3. /\ J.root = t.root /\ Heap(J) = H \ {r}
      /\ \A x \in Heap(J) : Leaf(J, x) = Leaf(t, x)
      /\ \A x \in Heap(J) : Parent(J, x) = Parent(t, x)
      /\ \A x \in Heap(J) \ {c, p} : Ents(J, x) = Ents(t, x) /\ Kids(J, x) = Kids(t, x)
      /\ KeyCount(J, p) = w2 - 1
      /\ \A i \in 1..(w2 - 1) :
            EntAt(J, p, i) = IF i < a THEN EntAt(t, p, i) ELSE EntAt(t, p, i + 1)
      /\ KidCount(J, p) = w2
      /\ \A i \in 1..w2 :
            Kid(J, p, i) = IF i < a + 1 THEN Kid(t, p, i) ELSE Kid(t, p, i + 1)
      /\ KeyCount(J, c) = n + 1 + b
      /\ \A i \in 1..(n + 1 + b) :
            EntAt(J, c, i) = IF i =< n THEN EntAt(t, c, i)
                             ELSE IF i = n + 1 THEN EntAt(t, p, a)
                             ELSE EntAt(t, r, i - n - 1)
      /\ KidCount(J, c) = 0
  <2>1. /\ J.root = t.root /\ Heap(J) = H \ {r}
        /\ \A x \in Heap(J) : Leaf(J, x) = Leaf(t, x)
        /\ \A x \in Heap(J) \ {c, p} : Ents(J, x) = Ents(t, x) /\ Kids(J, x) = Kids(t, x)
    BY <1>1 DEF Joins, H
  <2>2. \A x \in Heap(J) : Parent(J, x) = Parent(t, x)
    <3>1. \A x \in Heap(J) :
            Parent(J, x) = IF \E i \in 1..KidCount(t, r) : Kid(t, r, i) = x
                           THEN c ELSE Parent(t, x)
      BY <1>1 DEF Joins
    <3>2. 1..KidCount(t, r) = {}
      BY <1>2
    <3>3. QED
      BY <3>1, <3>2
  <2>3. /\ KeyCount(J, p) = w2 - 1
        /\ \A i \in 1..(w2 - 1) :
            EntAt(J, p, i) = IF i < a THEN EntAt(t, p, i) ELSE EntAt(t, p, i + 1)
    BY <1>1 DEF Joins, w2
  <2>4. KidCount(t, p) - 1 = w2
    BY <1>2
  <2>5. /\ KidCount(J, p) = KidCount(t, p) - 1
        /\ \A i \in 1..(KidCount(t, p) - 1) :
            Kid(J, p, i) = IF i < a + 1 THEN Kid(t, p, i) ELSE Kid(t, p, i + 1)
    BY <1>1 DEF Joins
  <2>6. /\ KeyCount(J, c) = n + 1 + b
        /\ \A i \in 1..(n + 1 + b) :
            EntAt(J, c, i) = IF i =< n THEN EntAt(t, c, i)
                             ELSE IF i = n + 1 THEN EntAt(t, p, a)
                             ELSE EntAt(t, r, i - n - 1)
    BY <1>1 DEF Joins, b
  <2>7. KidCount(J, c) = KidCount(t, c) + KidCount(t, r)
    BY <1>1 DEF Joins
  <2>8. KidCount(J, c) = 0
    BY <1>2, <2>7
  <2>9. QED
    BY <2>1, <2>2, <2>3, <2>4, <2>5, <2>6, <2>8
<1>4. c \in Heap(J) /\ p \in Heap(J) /\ n + 1 \in 1..KeyCount(J, c) /\ r \notin Heap(J)
  BY <1>2, <1>3 DEF H
<1>5. J2 = Fill(J, c, RemoveAt(Ents(J, c), n + 1), Kids(J, c))
  BY DEF J2
<1>6. Typed(J2) /\ Takes(J, J2, c, n + 1)
  BY <1>1, <1>4, <1>5, TakenFacts
<1>7. /\ Held(J) = Held(t)
      /\ \E level2, span2 :
            /\ Formed(J, level2, span2)
            /\ \A x \in Heap(J) : level2[x] = level[x]
            /\ \A x \in Heap(J) \ {c} : span2[x] = span[x]
  BY <1>1, JoinFormed DEF r
<1>8. PICK level1, span1 : Formed(J, level1, span1)
  BY <1>7
<1>9. Leaf(J, c)
  BY <1>3, <1>4
<1>10. Formed(J2, level1, span1) /\ Held(J2) = Held(J) \ {EntAt(J, c, n + 1)}
  BY <1>4, <1>6, <1>8, <1>9, TakeFormed
<1>11. EntAt(J, c, n + 1) = EntAt(t, p, a)
  <2>1. n + 1 \in 1..(n + 1 + b) /\ ~(n + 1 =< n)
    BY <1>2
  <2>2. QED
    BY <1>3, <2>1
<1>12. /\ J2.root = t.root /\ Heap(J2) = H \ {r}
       /\ \A x \in Heap(J2) :
            Leaf(J2, x) = Leaf(t, x) /\ Kids(J2, x) = Kids(J, x) /\ Parent(J2, x) = Parent(t, x)
       /\ \A x \in Heap(J2) \ {c} : Ents(J2, x) = Ents(J, x)
       /\ KeyCount(J2, c) = n + b
       /\ \A i \in 1..(n + b) :
            EntAt(J2, c, i) = IF i < n + 1 THEN EntAt(J, c, i) ELSE EntAt(J, c, i + 1)
  <2>1. KeyCount(J, c) - 1 = n + b
    BY <1>2, <1>3
  <2>2. /\ KeyCount(J2, c) = KeyCount(J, c) - 1
        /\ \A i2 \in 1..(KeyCount(J, c) - 1) :
             EntAt(J2, c, i2) = IF i2 < n + 1 THEN EntAt(J, c, i2) ELSE EntAt(J, c, i2 + 1)
    BY <1>6 DEF Takes
  <2>3. /\ J2.root = J.root /\ Heap(J2) = Heap(J)
        /\ \A x \in Heap(J) :
            Leaf(J2, x) = Leaf(J, x) /\ Kids(J2, x) = Kids(J, x) /\ Parent(J2, x) = Parent(J, x)
        /\ \A x \in Heap(J) \ {c} : Ents(J2, x) = Ents(J, x)
    BY <1>6 DEF Takes, Differs
  <2>4. QED
    BY <1>3, <2>1, <2>2, <2>3
<1>13. n \in 1..KeyCount(t, c) /\ EntAt(t, c, n) \in Entry /\ Ents(t, p) \in Seq(Entry)
  <2>1. n \in 1..KeyCount(t, c)
    BY <1>2
  <2>2. QED
    BY <1>1, <1>2, <2>1, TypedFacts
<1>14. /\ w.root = t.root /\ Heap(w) = H
       /\ \A m \in H :
            Leaf(w, m) = Leaf(t, m) /\ Parent(w, m) = Parent(t, m) /\ Kids(w, m) = Kids(t, m)
       /\ \A m \in H \ {p} : Ents(w, m) = Ents(t, m)
       /\ Ents(w, p) \in Seq(Entry) /\ KeyCount(w, p) = w2
       /\ \A j \in 1..w2 :
            EntAt(w, p, j) = IF j = a THEN EntAt(t, c, n) ELSE EntAt(t, p, j)
  BY <1>13, ReplaceFacts DEF H, w2
<1>15. Typed(w)
  <2>1. ASSUME NEW m \in Heap(w)
        PROVE  /\ Leaf(w, m) \in BOOLEAN
               /\ Ents(w, m) \in Seq(Entry)
               /\ Kids(w, m) \in Seq(Heap(w))
               /\ Parent(w, m) \in Nat
    <3>1. m \in Heap(t) /\ m \in H
      BY <1>14 DEF H
    <3>2. /\ Leaf(t, m) \in BOOLEAN /\ Ents(t, m) \in Seq(Entry)
          /\ Kids(t, m) \in Seq(H) /\ Parent(t, m) \in Nat
      BY <1>1, <3>1, TypedFacts DEF H
    <3>3. Ents(w, m) \in Seq(Entry)
      BY <1>14, <3>1, <3>2
    <3>4. Kids(w, m) \in Seq(Heap(w)) /\ Parent(w, m) \in Nat
      BY <1>14, <3>1, <3>2
    <3>5. Leaf(w, m) \in BOOLEAN
      BY <1>14, <3>1, <3>2, Zenon
    <3>6. QED
      BY <3>3, <3>4, <3>5
  <2>2. IsFiniteSet(Heap(w)) /\ Heap(w) \subseteq Nat \ {0} /\ w.root \in Heap(w)
    BY <1>1, <1>14 DEF Typed, H
  <2>3. QED
    BY <2>1, <2>2 DEF Typed
<1>16. c \in Heap(w) /\ Ents(w, c) = Ents(t, c) /\ KeyCount(w, c) = n /\ n \in 1..KeyCount(w, c)
  <2>1. c \in H \ {p}
    BY <1>2 DEF H
  <2>2. Ents(w, c) = Ents(t, c)
    BY <1>14, <2>1
  <2>3. KeyCount(w, c) = KeyCount(t, c)
    BY <2>2, SameEnts
  <2>4. QED
    BY <1>13, <1>14, <2>1, <2>2, <2>3
<1>17. Typed(v) /\ Takes(w, v, c, n)
  BY <1>15, <1>16, TakenFacts
<1>18. /\ v.root = t.root /\ Heap(v) = H
       /\ \A x \in H :
            Leaf(v, x) = Leaf(t, x) /\ Kids(v, x) = Kids(t, x) /\ Parent(v, x) = Parent(t, x)
       /\ \A x \in H \ {c, p} : Ents(v, x) = Ents(t, x)
       /\ Ents(v, p) = Ents(w, p)
       /\ KeyCount(v, c) = n - 1
       /\ \A i \in 1..(n - 1) : EntAt(v, c, i) = EntAt(t, c, i)
  <2>1. /\ v.root = w.root /\ Heap(v) = Heap(w)
        /\ \A x \in Heap(w) :
            Leaf(v, x) = Leaf(w, x) /\ Kids(v, x) = Kids(w, x) /\ Parent(v, x) = Parent(w, x)
        /\ \A x \in Heap(w) \ {c} : Ents(v, x) = Ents(w, x)
    BY <1>17 DEF Takes, Differs
  <2>2. /\ KeyCount(v, c) = KeyCount(w, c) - 1
        /\ \A i2 \in 1..(KeyCount(w, c) - 1) :
             EntAt(v, c, i2) = IF i2 < n THEN EntAt(w, c, i2) ELSE EntAt(w, c, i2 + 1)
    BY <1>17 DEF Takes
  <2>3. ASSUME NEW i \in 1..(n - 1) PROVE EntAt(v, c, i) = EntAt(t, c, i)
    <3>1. i < n
      BY <1>2
    <3>2. EntAt(v, c, i) = EntAt(w, c, i)
      BY <1>16, <2>2, <3>1
    <3>3. QED
      BY <1>16, <3>2, SameEnts
  <2>4. p \in H \ {c}
    BY <1>2 DEF H
  <2>5. QED
    BY <1>14, <1>16, <2>1, <2>2, <2>3, <2>4
<1>19. KeyCount(v, p) = w2 /\ \A j \in 1..w2 :
            EntAt(v, p, j) = IF j = a THEN EntAt(t, c, n) ELSE EntAt(t, p, j)
  BY <1>14, <1>18, SameEnts
<1>20. KeyCount(v, r) = b /\ \A j : EntAt(v, r, j) = EntAt(t, r, j)
  <2>1. Ents(v, r) = Ents(t, r)
    BY <1>2, <1>18 DEF H
  <2>2. QED
    BY <2>1, SameEnts DEF b
<1>21. Splits(J2, v, p, a, c, n, r)
  <2>1. v.root = J2.root /\ Heap(v) = Heap(J2) \cup {r}
    BY <1>2, <1>12, <1>18 DEF H
  <2>2. c \in Heap(J2) /\ p \in Heap(J2) /\ c \in H /\ r \in H /\ p \in H
    BY <1>2, <1>12 DEF H
  <2>3. \A x \in Heap(J2) : Leaf(v, x) = Leaf(J2, x)
    BY <1>12, <1>18
  <2>4. Leaf(J2, c) = Leaf(t, c) /\ Leaf(v, r) = Leaf(t, r)
    <3>1. Leaf(J2, c) = Leaf(t, c)
      BY <1>12, <2>2
    <3>2. Leaf(v, r) = Leaf(t, r)
      BY <1>18, <2>2
    <3>3. QED
      BY <3>1, <3>2
  <2>5. Leaf(v, r) = Leaf(J2, c)
    BY <1>2, <2>4
  <2>6. Parent(v, r) = p
    BY <1>2, <1>18, <2>2
  <2>7. KidCount(J2, c) = 0
    BY <1>3, <1>12, <2>2, SameKids
  <2>8. \A x \in Heap(J2) :
            Parent(v, x) = IF \E i \in (n + 1)..KidCount(J2, c) : Kid(J2, c, i) = x
                           THEN r ELSE Parent(J2, x)
    <3>1. (n + 1)..KidCount(J2, c) = {}
      BY <1>2, <2>7
    <3>2. \A x \in Heap(J2) : Parent(v, x) = Parent(J2, x)
      BY <1>12, <1>18
    <3>3. QED
      BY <3>1, <3>2
  <2>9. \A x \in Heap(J2) \ {c, p} : Ents(v, x) = Ents(J2, x) /\ Kids(v, x) = Kids(J2, x)
    <3>1. ASSUME NEW x \in Heap(J2) \ {c, p}
          PROVE  Ents(v, x) = Ents(J2, x) /\ Kids(v, x) = Kids(J2, x)
      <4>1. x \in Heap(J) \ {c, p} /\ x \in H /\ x \in Heap(J2) \ {c} /\ x \in H \ {c, p}
        BY <1>3, <1>12
      <4>2. QED
        BY <1>3, <1>12, <1>18, <4>1
    <3>2. QED
      BY <3>1
  <2>10. p \in Heap(J2) \ {c}
    BY <1>2, <2>2
  <2>11. KeyCount(J2, p) = w2 - 1 /\ KidCount(J2, p) = w2
    BY <1>3, <1>12, <2>10, SameEnts, SameKids
  <2>12. /\ \A j : EntAt(J2, p, j) = EntAt(J, p, j)
         /\ \A j : Kid(J2, p, j) = Kid(J, p, j)
    BY <1>12, <2>10, SameEnts, SameKids
  <2>13. KeyCount(v, p) = KeyCount(J2, p) + 1
    BY <1>2, <1>19, <2>11
  <2>14. ASSUME NEW i \in 1..(KeyCount(J2, p) + 1)
         PROVE  EntAt(v, p, i) = IF i < a THEN EntAt(J2, p, i)
                                 ELSE IF i = a THEN EntAt(J2, c, n) ELSE EntAt(J2, p, i - 1)
    <3>1. i \in 1..w2
      BY <1>2, <2>11
    <3>2. EntAt(v, p, i) = IF i = a THEN EntAt(t, c, n) ELSE EntAt(t, p, i)
      BY <1>19, <3>1
    <3>3. EntAt(J2, c, n) = EntAt(t, c, n)
      <4>1. n \in 1..(n + b) /\ n < n + 1 /\ n \in 1..(n + 1 + b)
        BY <1>2
      <4>2. EntAt(J2, c, n) = EntAt(J, c, n)
        BY <1>12, <4>1
      <4>3. n =< n
        BY <1>2
      <4>4. EntAt(J, c, n) = EntAt(t, c, n)
        BY <1>3, <4>1, <4>3
      <4>5. QED
        BY <4>2, <4>4
    <3>4. CASE i < a
      <4>1. i \in 1..(w2 - 1)
        BY <1>2, <3>1, <3>4 DEF w2
      <4>2. EntAt(J, p, i) = EntAt(t, p, i)
        BY <1>3, <3>4, <4>1
      <4>3. i # a
        BY <3>4
      <4>4. QED
        BY <2>12, <3>2, <3>4, <4>2, <4>3
    <3>5. CASE i = a
      BY <3>2, <3>3, <3>5
    <3>6. CASE i > a
      <4>1. i - 1 \in 1..(w2 - 1) /\ ~(i - 1 < a) /\ (i - 1) + 1 = i
        BY <1>2, <3>1, <3>6
      <4>2. EntAt(J, p, i - 1) = EntAt(t, p, (i - 1) + 1)
        BY <1>3, <4>1
      <4>3. ~(i < a) /\ i # a
        BY <3>6
      <4>4. QED
        BY <2>12, <3>2, <4>1, <4>2, <4>3
    <3>7. QED
      BY <3>4, <3>5, <3>6
  <2>15. KidCount(v, p) = KidCount(t, p) /\ \A j : Kid(v, p, j) = Kid(t, p, j)
    BY <1>18, <2>2, SameKids
  <2>16. KidCount(v, p) = KidCount(J2, p) + 1
    BY <1>2, <2>11, <2>15
  <2>17. ASSUME NEW i \in 1..(KidCount(J2, p) + 1)
         PROVE  Kid(v, p, i) = IF i < a + 1 THEN Kid(J2, p, i)
                               ELSE IF i = a + 1 THEN r ELSE Kid(J2, p, i - 1)
    <3>1. i \in 1..(w2 + 1)
      BY <1>2, <2>11
    <3>2. CASE i < a + 1
      <4>1. i \in 1..w2
        BY <1>2, <3>1, <3>2 DEF w2
      <4>2. Kid(J, p, i) = Kid(t, p, i)
        BY <1>3, <3>2, <4>1
      <4>3. QED
        BY <2>12, <2>15, <3>2, <4>2
    <3>3. CASE i = a + 1
      <4>1. Kid(t, p, a + 1) = r
        BY DEF r
      <4>2. ~(i < a + 1)
        BY <3>3
      <4>3. QED
        BY <2>15, <3>3, <4>1, <4>2
    <3>4. CASE i > a + 1
      <4>1. i - 1 \in 1..w2 /\ ~(i - 1 < a + 1) /\ (i - 1) + 1 = i
        BY <1>2, <3>1, <3>4
      <4>2. Kid(J, p, i - 1) = Kid(t, p, (i - 1) + 1)
        BY <1>3, <4>1
      <4>3. ~(i < a + 1) /\ i # a + 1
        BY <3>4
      <4>4. QED
        BY <2>12, <2>15, <4>1, <4>2, <4>3
    <3>5. QED
      BY <3>2, <3>3, <3>4
  <2>18. KeyCount(v, c) = n - 1 /\ KidCount(v, c) = 0 /\ KidCount(v, r) = 0
    BY <1>2, <1>18, <2>2, SameKids
  <2>19. ASSUME NEW i \in 1..(n - 1) PROVE EntAt(v, c, i) = EntAt(J2, c, i)
    <3>1. i \in 1..(n + b) /\ i < n + 1 /\ i \in 1..(n + 1 + b) /\ i =< n
      BY <1>2
    <3>2. EntAt(J2, c, i) = EntAt(J, c, i)
      BY <1>12, <3>1
    <3>3. EntAt(J, c, i) = EntAt(t, c, i)
      BY <1>3, <3>1
    <3>4. QED
      BY <1>18, <3>2, <3>3
  <2>20. KeyCount(v, r) = KeyCount(J2, c) - n
    BY <1>2, <1>12, <1>20
  <2>21. ASSUME NEW i \in 1..(KeyCount(J2, c) - n) PROVE EntAt(v, r, i) = EntAt(J2, c, i + n)
    <3>1. i \in 1..b
      BY <1>2, <1>12
    <3>2. PICK z : z = i + n
      OBVIOUS
    <3>3. z \in 1..(n + b) /\ ~(z < n + 1) /\ z + 1 \in 1..(n + 1 + b) /\ ~(z + 1 =< n) /\ z + 1 # n + 1
          /\ (z + 1) - n - 1 = i
      BY <1>2, <3>1, <3>2
    <3>4. EntAt(J2, c, z) = EntAt(J, c, z + 1)
      BY <1>12, <3>3
    <3>5. EntAt(J, c, z + 1) = EntAt(t, r, (z + 1) - n - 1)
      BY <1>3, <3>3
    <3>6. QED
      BY <1>20, <3>2, <3>3, <3>4, <3>5
  <2>22. Leaf(J2, c)
    BY <2>4
  <2>23. QED
    BY <2>1, <2>3, <2>5, <2>6, <2>8, <2>9, <2>13, <2>14, <2>16, <2>17, <2>18, <2>19,
       <2>20, <2>21, <2>22 DEF Splits
<1>22. p \in Heap(J2) /\ r \notin Heap(J2) /\ c = Kid(J2, p, a) /\ a \in 1..KidCount(J2, p)
       /\ n \in 1..KeyCount(J2, c)
  <2>1. p \in Heap(J2) \ {c} /\ r \notin Heap(J2)
    BY <1>2, <1>12 DEF H
  <2>2. KidCount(J2, p) = w2 /\ Kid(J2, p, a) = Kid(J, p, a)
    BY <1>3, <1>12, <2>1, SameKids
  <2>3. a \in 1..w2 /\ a < a + 1 /\ n \in 1..(n + b)
    BY <1>2 DEF w2
  <2>4. Kid(J, p, a) = c
    BY <1>3, <2>3
  <2>5. QED
    BY <1>12, <2>1, <2>2, <2>3, <2>4
<1>23. /\ Held(v) = Held(J2)
       /\ \E level2, span2 :
            /\ Formed(v, level2, span2)
            /\ level2[r] = level1[c]
            /\ \A x \in Heap(J2) : level2[x] = level1[x]
            /\ \A x \in Heap(J2) \ {c} : span2[x] = span1[x]
  BY <1>10, <1>17, <1>21, <1>22, SplitFormed
<1>24. Held(v) = Held(t) \ {EntAt(t, p, a)} /\ \E level2, span2 : Formed(v, level2, span2)
  BY <1>7, <1>10, <1>11, <1>23
<1>25. \A x \in Heap(t) \ {c} : KeyCount(v, x) = KeyCount(t, x)
  <2>1. ASSUME NEW x \in Heap(t) \ {c} PROVE KeyCount(v, x) = KeyCount(t, x)
    <3>1. CASE x = p
      BY <1>19, <3>1 DEF w2
    <3>2. CASE x # p
      BY <1>18, <3>2, SameEnts DEF H
    <3>3. QED
      BY <3>1, <3>2
  <2>2. QED
    BY <2>1
<1>26. QED
  BY <1>17, <1>18, <1>24, <1>25 DEF H

\* What a step to child c, in the tree that ensure_min_keys makes, u, must meet
\* to be sound.
StaysSound(d, u, c) ==
    /\ d.sound
    /\ KeyCount(u, d.at) = KeyCount(d.tree, d.at) \/ Leaf(u, c)
    /\ Here(Ents(d.tree, d.at), d.key) => Here(Ents(u, d.at), d.key) /\ Leaf(u, c)

\* delete_recursive in a leaf that has the key.
LEMMA LowerAtLeaf ==
    ASSUME NEW d, d.at # Null, Leaf(d.tree, d.at), Here(Ents(d.tree, d.at), d.key)
    PROVE  Lower(d) =
            [tree |-> Fill(d.tree, d.at,
                           RemoveAt(Ents(d.tree, d.at), Slot(Ents(d.tree, d.at), d.key)),
                           Kids(d.tree, d.at)),
             at |-> Null, key |-> d.key, sound |-> d.sound]
  BY DEF Lower

\* delete_recursive in a node that is no leaf.
LEMMA LowerAtNode ==
    ASSUME NEW d, d.at # Null, ~Leaf(d.tree, d.at),
           NEW u, u = EnsureMinKeys(d.tree, d.at, Slot(Ents(d.tree, d.at), d.key)),
           NEW c, c = Kid(u, d.at, Slot(Ents(u, d.at), d.key)), u # Wreck, c # Null
    PROVE  Lower(d) =
            [tree |-> IF Here(Ents(d.tree, d.at), d.key)
                      THEN Replace(u, d.at, Slot(Ents(u, d.at), d.key), Last(Ents(u, c)))
                      ELSE u,
             at |-> c,
             key |-> IF Here(Ents(d.tree, d.at), d.key) THEN Last(Ents(u, c)).key ELSE d.key,
             sound |-> StaysSound(d, u, c)]
  BY DEF Lower, Kid, StaysSound

\* A descent that is done, one that has come to level top - i of the tree, and
\* one that has put another entry in the place of e and goes for that entry.
Emptied(d, e, held) ==
    /\ d.at = Null
    /\ Thick(d.tree) /\ Held(d.tree) = held \ {e}
    /\ \E level, span : Formed(d.tree, level, span)

\* A deletion at node d.at of level i, on the way to the leaf with e.
Seeking(d, i, top, e, held) ==
    /\ d.at \in Heap(d.tree) /\ d.key = e.key
    /\ Thick(d.tree) /\ Held(d.tree) = held
    /\ d.at = d.tree.root \/ MinKeys < KeyCount(d.tree, d.at)
    /\ ~Leaf(d.tree, d.at) => 1 =< KeyCount(d.tree, d.at)
    /\ \E level, span :
        /\ Formed(d.tree, level, span)
        /\ e.key \in span[d.at] /\ level[d.at] + i = top

\* A deletion that has put entry a, the last of a leaf, in the place of e in
\* node p of t, and is in that leaf.
Swaps(d, i, top, e, held, t, p, a, level, span) ==
    /\ Thick(t) /\ Held(t) = held /\ p \in Heap(t) /\ ~Leaf(t, p)
    /\ a \in 1..KeyCount(t, p) /\ EntAt(t, p, a) = e
    /\ d.at = Kid(t, p, a) /\ Leaf(t, d.at) /\ MinKeys < KeyCount(t, d.at)
    /\ d.tree = Replace(t, p, a, EntAt(t, d.at, KeyCount(t, d.at)))
    /\ d.key = KeyAt(t, d.at, KeyCount(t, d.at))
    /\ Formed(t, level, span) /\ level[d.at] + i = top

\* The same, for some tree.
Swapping(d, i, top, e, held) ==
    \E t, p, a, level, span : Swaps(d, i, top, e, held, t, p, a, level, span)

\* Where the key of a held entry is found, the entry is.
LEMMA EntryHere ==
    ASSUME NEW t, NEW level, NEW span, Formed(t, level, span), NEW e \in Held(t),
           NEW n \in Heap(t), Here(Ents(t, n), e.key), NEW s, s = Slot(Ents(t, n), e.key)
    PROVE  s \in 1..KeyCount(t, n) /\ EntAt(t, n, s) = e /\ e.key \in Key
<1>1. Typed(t)
  BY DEF Formed
<1>2. PICK m \in Heap(t) : \E j \in 1..KeyCount(t, m) : EntAt(t, m, j) = e
  BY <1>1, HeldFacts
<1>3. PICK j \in 1..KeyCount(t, m) : EntAt(t, m, j) = e
  BY <1>2
<1>4. KeyAt(t, m, j) = e.key /\ e.key \in Key
  BY <1>1, <1>3, EntKey, TypedFacts
<1>5. s \in 1..(KeyCount(t, n) + 1) /\ s =< KeyCount(t, n) /\ KeyAt(t, n, s) = e.key
  BY <1>1, <1>4, NodeSlot
<1>6. KeyCount(t, n) \in Nat
  BY <1>1, TypedFacts
<1>7. s \in 1..KeyCount(t, n)
  BY <1>5, <1>6
<1>8. n = m /\ s = j
  BY <1>4, <1>5, <1>7, OneEntry
<1>9. QED
  BY <1>3, <1>4, <1>7, <1>8

\* An entry less in a node that can do without one.
LEMMA ThickTaken ==
    ASSUME NEW t, NEW u, Thick(t), Typed(t), u.root = t.root, Heap(u) = Heap(t),
           NEW p \in Heap(t), KeyCount(u, p) = KeyCount(t, p) - 1,
           p = t.root \/ MinKeys < KeyCount(t, p),
           \A n \in Heap(t) \ {p} : KeyCount(u, n) = KeyCount(t, n)
    PROVE  Thick(u)
<1>1. ASSUME NEW n \in Heap(u)
      PROVE  KeyCount(u, n) =< MaxKeys /\ (n # u.root => MinKeys =< KeyCount(u, n))
  <2>1. KeyCount(t, n) =< MaxKeys /\ (n # t.root => MinKeys =< KeyCount(t, n))
    BY DEF Thick
  <2>2. CASE n = p
    <3>1. KeyCount(t, n) \in Nat /\ MinKeys \in Nat /\ MaxKeys \in Nat
      BY TypedFacts, Sizes
    <3>2. KeyCount(u, n) = KeyCount(t, n) - 1
      BY <2>2
    <3>3. n # t.root => MinKeys < KeyCount(t, n)
      BY <2>2
    <3>4. QED
      BY <2>1, <3>1, <3>2, <3>3
  <2>3. CASE n # p
    BY <2>1, <2>3
  <2>4. QED
    BY <2>2, <2>3
<1>2. QED
  BY <1>1 DEF Thick

\* At a leaf the key is there, and goes.
LEMMA LowerLeaf ==
    ASSUME NEW d, NEW i, NEW top, NEW held, NEW e \in held, Seeking(d, i, top, e, held),
           Leaf(d.tree, d.at)
    PROVE  Emptied(Lower(d), e, held)
<1> DEFINE t == d.tree
           p == d.at
           k == e.key
           s == Slot(Ents(t, p), k)
           v == Fill(t, p, RemoveAt(Ents(t, p), s), Kids(t, p))
<1>1. /\ p \in Heap(t) /\ d.key = k /\ Thick(t) /\ Held(t) = held
      /\ p = t.root \/ MinKeys < KeyCount(t, p)
      /\ \E level, span : Formed(t, level, span) /\ k \in span[p]
  BY DEF Seeking
<1>2. PICK level, span : Formed(t, level, span) /\ k \in span[p]
  BY <1>1
<1>3. Typed(t) /\ Spanned(t, span)
  BY <1>2 DEF Formed
<1> HIDE DEF s, t, p, k
<1>4. e \in Held(t) /\ Leaf(t, p)
  BY <1>1 DEF t, p
<1>5. PICK m \in Heap(t) : \E j \in 1..KeyCount(t, m) : EntAt(t, m, j) = e
  BY <1>3, <1>4, HeldFacts
<1>6. PICK j \in 1..KeyCount(t, m) : EntAt(t, m, j) = e
  BY <1>5
<1>7. KeyAt(t, m, j) = k /\ k \in Key
  BY <1>3, <1>6, EntKey, TypedFacts DEF k
<1>8. m = p
  BY <1>1, <1>2, <1>4, <1>7, OnePlace
<1>9. Here(Ents(t, p), k)
  BY <1>3, <1>7, <1>8, HereFacts
<1>10. s \in 1..KeyCount(t, p) /\ EntAt(t, p, s) = e
  BY <1>1, <1>2, <1>4, <1>9, EntryHere DEF s, k
<1>11. Typed(v) /\ Takes(t, v, p, s)
  BY <1>1, <1>3, <1>10, TakenFacts
<1> HIDE DEF v
<1>12. Formed(v, level, span) /\ Held(v) = Held(t) \ {e}
  BY <1>1, <1>2, <1>4, <1>10, <1>11, TakeFormed
<1>13. /\ v.root = t.root /\ Heap(v) = Heap(t) /\ KeyCount(v, p) = KeyCount(t, p) - 1
       /\ \A n \in Heap(t) \ {p} : Ents(v, n) = Ents(t, n)
  BY <1>11 DEF Takes, Differs
<1>14. \A n \in Heap(t) \ {p} : KeyCount(v, n) = KeyCount(t, n)
  BY <1>13, SameEnts
<1>15. Thick(v)
  BY <1>1, <1>3, <1>13, <1>14, ThickTaken
<1>16. p # Null
  BY <1>1, <1>3, NotWreck
<1>17. Lower(d).tree = v /\ Lower(d).at = Null
  <2>1. t = d.tree /\ p = d.at /\ k = d.key /\ s = Slot(Ents(t, p), k)
        /\ v = Fill(t, p, RemoveAt(Ents(t, p), s), Kids(t, p))
    BY <1>1 DEF t, p, s, v
  <2>2. Lower(d) = [tree |-> v, at |-> Null, key |-> k, sound |-> d.sound]
    BY <1>4, <1>9, <1>16, <2>1, LowerAtLeaf
  <2>3. QED
    BY <2>2
<1>18. QED
  BY <1>1, <1>12, <1>15, <1>17 DEF Emptied

\* In an inner node it goes on to the child, or takes the last entry of the leaf
\* to the left in the place of its own.
LEMMA LowerNode ==
    ASSUME NEW d, NEW i \in Nat, NEW top, NEW held, NEW e \in held,
           Seeking(d, i, top, e, held), ~Leaf(d.tree, d.at), Lower(d).sound
    PROVE  /\ Seeking(Lower(d), i + 1, top, e, held) \/ Swapping(Lower(d), i + 1, top, e, held)
           /\ d.sound
<1> DEFINE t == d.tree
           p == d.at
           k == e.key
           s == Slot(Ents(t, p), k)
           u == EnsureMinKeys(t, p, s)
           s2 == Slot(Ents(u, p), k)
           c == Kid(u, p, s2)
           last == Last(Ents(u, c))
           d2 == Lower(d)
           ok == StaysSound(d, u, c)
<1>1. /\ p \in Heap(t) /\ d.key = k /\ Thick(t) /\ Held(t) = held /\ ~Leaf(t, p)
      /\ p = t.root \/ MinKeys < KeyCount(t, p)
      /\ 1 =< KeyCount(t, p)
      /\ \E level, span : Formed(t, level, span) /\ k \in span[p] /\ level[p] + i = top
  BY DEF Seeking
<1>2. PICK level, span : Formed(t, level, span) /\ k \in span[p] /\ level[p] + i = top
  BY <1>1
<1>3. Typed(t) /\ Spanned(t, span) /\ Linked(t, level)
  BY <1>2 DEF Formed
<1> HIDE DEF t, p, k, s, u, s2, c, last, d2, ok
<1>4. Spares(t, p, level, span)
  BY <1>1, <1>2 DEF Spares
<1>5. k \in Key
  <2>1. span[p] \subseteq Key
    BY <1>1, <1>3 DEF Spanned
  <2>2. QED
    BY <1>2, <2>1
<1>6. u = EnsureMinKeys(t, p, Slot(Ents(t, p), k)) /\ c = Kid(u, p, Slot(Ents(u, p), k))
  BY DEF u, s, c, s2
<1>7. \/ Kept(t, u, p, k, level, span)
      \/ /\ u # Wreck /\ c # Null /\ ~Leaf(u, c)
         /\ KeyCount(u, p) # KeyCount(t, p)
  BY <1>4, <1>5, <1>6, EnsureFacts
<1>8. p # Null
  BY <1>1, <1>3, NotWreck
<1>9. u # Wreck /\ c # Null =>
       d2 = [tree |-> IF Here(Ents(t, p), k) THEN Replace(u, p, s2, last) ELSE u,
             at |-> c,
             key |-> IF Here(Ents(t, p), k) THEN last.key ELSE k,
             sound |-> ok]
  <2>1. t = d.tree /\ p = d.at /\ k = d.key /\ s = Slot(Ents(t, p), k)
        /\ u = EnsureMinKeys(t, p, s) /\ s2 = Slot(Ents(u, p), k) /\ c = Kid(u, p, s2)
        /\ last = Last(Ents(u, c)) /\ d2 = Lower(d)
    BY <1>1 DEF t, p, s, u, s2, c, last, d2
  <2>2. SUFFICES ASSUME u # Wreck /\ c # Null
                 PROVE  d2 = [tree |-> IF Here(Ents(t, p), k) THEN Replace(u, p, s2, last) ELSE u,
                              at |-> c,
                              key |-> IF Here(Ents(t, p), k) THEN last.key ELSE k,
                              sound |-> ok]
    OBVIOUS
  <2>3. d.at # Null /\ ~Leaf(d.tree, d.at) /\ u = EnsureMinKeys(d.tree, d.at, Slot(Ents(d.tree, d.at), d.key))
        /\ c = Kid(u, d.at, Slot(Ents(u, d.at), d.key))
    BY <1>8, <2>1
  <2>4. Lower(d) =
            [tree |-> IF Here(Ents(d.tree, d.at), d.key)
                      THEN Replace(u, d.at, Slot(Ents(u, d.at), d.key), Last(Ents(u, c)))
                      ELSE u,
             at |-> c,
             key |-> IF Here(Ents(d.tree, d.at), d.key) THEN Last(Ents(u, c)).key ELSE d.key,
             sound |-> StaysSound(d, u, c)]
    BY <2>2, <2>3, LowerAtNode, Zenon
  <2>5. QED
    BY <2>1, <2>4, Zenon DEF ok
<1>10. d2.sound
  BY DEF d2
<1>11. Kept(t, u, p, k, level, span)
  <2>1. SUFFICES ASSUME /\ u # Wreck /\ c # Null /\ ~Leaf(u, c)
                        /\ KeyCount(u, p) # KeyCount(t, p)
                 PROVE  FALSE
    BY <1>7
  <2>2. d2.sound = ok
    BY <1>9, <2>1
  <2>3. ok
    BY <1>10, <2>2
  <2>4. t = d.tree /\ p = d.at
    BY DEF t, p
  <2>5. QED
    BY <2>1, <2>3, <2>4 DEF ok, StaysSound
<1>12. /\ Thick(u) /\ u.root = t.root /\ p \in Heap(u) /\ ~Leaf(u, p) /\ Held(u) = Held(t)
       /\ KeyCount(u, c) > MinKeys
       /\ Here(Ents(u, p), k) => Here(Ents(t, p), k)
       /\ \E level2, span2 :
            /\ Formed(u, level2, span2)
            /\ level2[p] = level[p] /\ span2[p] = span[p]
  BY <1>6, <1>11 DEF Kept
<1>13. PICK level2, span2 : /\ Formed(u, level2, span2)
                            /\ level2[p] = level[p] /\ span2[p] = span[p]
  BY <1>12
<1>14. Typed(u) /\ Linked(u, level2) /\ Spanned(u, span2)
  BY <1>13 DEF Formed
<1>15. s2 \in 1..KidCount(u, p)
  <2>1. s2 \in 1..(KeyCount(u, p) + 1)
    BY <1>5, <1>12, <1>14, NodeSlot DEF s2
  <2>2. KidCount(u, p) = KeyCount(u, p) + 1
    BY <1>12, <1>14, Counts
  <2>3. QED
    BY <2>1, <2>2
<1>16. c \in Heap(u) /\ level2[c] = level2[p] - 1 /\ level2[p] \in Nat
  BY <1>12, <1>13, <1>14, <1>15, KidFacts, Counts DEF c
<1>17. c # Null /\ u # Wreck
  BY <1>14, <1>16, NotWreck
<1>18. d2.tree = (IF Here(Ents(t, p), k) THEN Replace(u, p, s2, last) ELSE u)
       /\ d2.at = c /\ d2.key = (IF Here(Ents(t, p), k) THEN last.key ELSE k)
  BY <1>9, <1>17
<1>19. ok
  <2>1. d2.sound = ok
    BY <1>9, <1>17
  <2>2. QED
    BY <1>10, <2>1
<1>20. d.sound /\ (Here(Ents(t, p), k) => Here(Ents(u, p), k) /\ Leaf(u, c))
  <2>1. t = d.tree /\ p = d.at /\ k = d.key
    BY <1>1 DEF t, p
  <2>2. QED
    BY <1>19, <2>1, Zenon DEF ok, StaysSound
<1>21. level2[c] + (i + 1) = top
  BY <1>2, <1>13, <1>16
<1>22. CASE ~Here(Ents(t, p), k)
  <2>1. d2.tree = u /\ d2.at = c /\ d2.key = k
    BY <1>18, <1>22
  <2>2. k \in span2[p] /\ ~Here(Ents(u, p), k)
    BY <1>2, <1>12, <1>13, <1>22
  <2>3. k \in span2[c]
    BY <1>12, <1>13, <2>2, StepDown DEF s2, c
  <2>4. 1 =< KeyCount(u, c)
    <3>1. KeyCount(u, c) \in Nat /\ MinKeys \in Nat
      BY <1>14, <1>16, TypedFacts, Sizes
    <3>2. QED
      BY <1>12, <3>1
  <2>5. MinKeys < KeyCount(u, c)
    BY <1>12
  <2>6. Held(u) = held
    BY <1>1, <1>12
  <2>7. Seeking(d2, i + 1, top, e, held)
    BY <1>12, <1>13, <1>16, <1>21, <2>1, <2>3, <2>4, <2>5, <2>6 DEF Seeking, k
  <2>8. QED
    BY <1>20, <2>7 DEF d2
<1>23. CASE Here(Ents(t, p), k)
  <2>1. d2.tree = Replace(u, p, s2, last) /\ d2.at = c /\ d2.key = last.key
    BY <1>18, <1>23
  <2>2. Here(Ents(u, p), k) /\ Leaf(u, c)
    BY <1>20, <1>23
  <2>3. Held(u) = held /\ e \in Held(u)
    BY <1>1, <1>12
  <2>4. s2 \in 1..KeyCount(u, p) /\ EntAt(u, p, s2) = e
    BY <1>12, <1>13, <2>2, <2>3, EntryHere DEF s2, k
  <2>5. MinKeys < KeyCount(u, c)
    BY <1>12
  <2>6. last = EntAt(u, c, KeyCount(u, c))
    <3>1. Ents(u, c) \in Seq(Entry)
      BY <1>14, <1>16, TypedFacts
    <3>2. KeyCount(u, c) \in Nat /\ MinKeys \in Nat
      BY <1>14, <1>16, TypedFacts, Sizes
    <3>3. KeyCount(u, c) > 0
      BY <2>5, <3>2
    <3>4. Ents(u, c) # <<>>
      BY <3>3 DEF KeyCount
    <3>5. Last(Ents(u, c)) = Ents(u, c)[Len(Ents(u, c))]
      BY <3>1, <3>4, FrontFacts
    <3>6. QED
      BY <3>5 DEF last, KeyCount, EntAt
  <2>7. last.key = KeyAt(u, c, KeyCount(u, c))
    BY <2>6, EntKey
  <2>8. Swaps(d2, i + 1, top, e, held, u, p, s2, level2, span2)
    <3>1. c = Kid(u, p, s2)
      BY DEF c
    <3>2. QED
      BY <1>12, <1>13, <1>21, <2>1, <2>2, <2>3, <2>4, <2>5, <2>6, <2>7, <3>1 DEF Swaps
  <2>9. QED
    BY <1>20, <2>8 DEF Swapping, d2
<1>24. QED
  BY <1>22, <1>23

\* The entry that has taken the place of e goes from its leaf.
LEMMA LowerSwap ==
    ASSUME NEW d, NEW i, NEW top, NEW held, NEW e \in held, Swapping(d, i, top, e, held)
    PROVE  Emptied(Lower(d), e, held)
<1>1. PICK t, p, a, level, span : Swaps(d, i, top, e, held, t, p, a, level, span)
  BY DEF Swapping
<1> DEFINE c == d.at
           n == KeyCount(t, c)
           w == d.tree
           k == d.key
           v == Fill(w, c, RemoveAt(Ents(w, c), n), Kids(w, c))
<1>2. /\ Thick(t) /\ Held(t) = held /\ p \in Heap(t) /\ ~Leaf(t, p)
      /\ a \in 1..KeyCount(t, p) /\ EntAt(t, p, a) = e
      /\ c = Kid(t, p, a) /\ Leaf(t, c) /\ MinKeys < n
      /\ w = Replace(t, p, a, EntAt(t, c, n)) /\ k = KeyAt(t, c, n)
      /\ Formed(t, level, span)
  BY <1>1 DEF Swaps
<1> HIDE DEF c, n, w, k, v
<1>3. Typed(t) /\ Spanned(t, span)
  BY <1>2 DEF Formed
<1>4. a \in 1..KidCount(t, p) /\ c \in Heap(t) /\ c # p
  <2>1. KeyCount(t, p) \in Nat /\ KidCount(t, p) = KeyCount(t, p) + 1
    BY <1>2, Counts DEF Formed
  <2>2. a \in 1..KidCount(t, p)
    BY <1>2, <2>1
  <2>3. QED
    BY <1>2, <2>2, KidFacts
<1>5. n \in Nat /\ MinKeys \in Nat /\ 1 =< n /\ n \in 1..KeyCount(t, c) /\ n = KeyCount(t, c)
  <2>1. n = KeyCount(t, c)
    BY DEF n
  <2>2. n \in Nat /\ MinKeys \in Nat
    BY <1>3, <1>4, <2>1, TypedFacts, Sizes
  <2>3. 1 =< n
    BY <1>2, <2>2
  <2>4. QED
    BY <2>1, <2>2, <2>3
<1>6. v = Fill(w, c, RemoveAt(Ents(w, c), n), Kids(w, c))
  BY DEF v
<1>7. /\ Typed(v) /\ v.root = t.root /\ Heap(v) = Heap(t)
      /\ \A x \in Heap(t) \ {c} : KeyCount(v, x) = KeyCount(t, x)
      /\ KeyCount(v, c) = n - 1
      /\ Held(v) = Held(t) \ {EntAt(t, p, a)}
      /\ \E level2, span2 : Formed(v, level2, span2)
  BY <1>2, <1>5, <1>6, SwapFormed
<1>8. Thick(v)
  BY <1>2, <1>3, <1>4, <1>5, <1>7, ThickTaken
<1>9. Leaf(w, c) /\ Ents(w, c) = Ents(t, c)
  <2>1. Ents(t, p) \in Seq(Entry) /\ EntAt(t, c, n) \in Entry
    BY <1>2, <1>3, <1>4, <1>5, TypedFacts
  <2>2. \A m \in Heap(t) : Leaf(w, m) = Leaf(t, m)
    BY <1>2, <2>1, ReplaceFacts
  <2>3. \A m \in Heap(t) \ {p} : Ents(w, m) = Ents(t, m)
    BY <1>2, <2>1, ReplaceFacts
  <2>4. QED
    BY <1>2, <1>4, <2>2, <2>3
<1>10. k \in Key /\ Slot(Ents(w, c), k) = n /\ Here(Ents(w, c), k)
  <2>1. k \in Key
    BY <1>2, <1>3, <1>4, <1>5, TypedFacts
  <2>2. n \in 1..(KeyCount(t, c) + 1) /\ n =< KeyCount(t, c)
    BY <1>5
  <2>3. Slot(Ents(t, c), k) = n
    BY <1>2, <1>3, <1>4, <2>1, <2>2, SortedSlot
  <2>4. Here(Ents(t, c), k)
    BY <1>2, <1>3, <1>4, <1>5, <2>1, HereFacts
  <2>5. QED
    BY <1>9, <2>1, <2>3, <2>4
<1>11. c # Null
  BY <1>3, <1>4, NotWreck
<1>12. Lower(d).tree = v /\ Lower(d).at = Null
  <2>1. w = d.tree /\ c = d.at /\ k = d.key
    BY DEF w, c, k
  <2>2. n = Slot(Ents(w, c), k)
    BY <1>10
  <2>3. Lower(d) = [tree |-> v, at |-> Null, key |-> k, sound |-> d.sound]
    BY <1>6, <1>9, <1>10, <1>11, <2>1, <2>2, LowerAtLeaf
  <2>4. QED
    BY <2>3
<1>13. QED
  BY <1>2, <1>7, <1>8, <1>12 DEF Emptied

\* A deletion that was not sound does not become so.
LEMMA LowerSound ==
    ASSUME NEW d, Lower(d).sound
    PROVE  d.sound
<1> DEFINE u == EnsureMinKeys(d.tree, d.at, Slot(Ents(d.tree, d.at), d.key))
           c == Kid(u, d.at, Slot(Ents(u, d.at), d.key))
           ok == StaysSound(d, u, c)
<1>1. Lower(d).sound = d.sound \/ Lower(d).sound = ok
  <2>1. CASE d.at = Null
    BY <2>1 DEF Lower
  <2>2. CASE d.at # Null /\ Leaf(d.tree, d.at)
    BY <2>2 DEF Lower
  <2>3. CASE d.at # Null /\ ~Leaf(d.tree, d.at) /\ (u = Wreck \/ c = Null)
    BY <2>3 DEF Lower, Kid
  <2>4. CASE d.at # Null /\ ~Leaf(d.tree, d.at) /\ u # Wreck /\ c # Null
    <3> HIDE DEF ok
    <3>1. Lower(d) =
            [tree |-> IF Here(Ents(d.tree, d.at), d.key)
                      THEN Replace(u, d.at, Slot(Ents(u, d.at), d.key), Last(Ents(u, c)))
                      ELSE u,
             at |-> c,
             key |-> IF Here(Ents(d.tree, d.at), d.key) THEN Last(Ents(u, c)).key ELSE d.key,
             sound |-> ok]
      BY <2>4, LowerAtNode, Zenon DEF ok
    <3>2. QED
      BY <3>1
  <2>5. QED
    BY <2>1, <2>2, <2>3, <2>4
<1> HIDE DEF ok
<1>2. CASE Lower(d).sound = d.sound
  BY <1>2
<1>3. CASE Lower(d).sound = ok
  <2>1. ok
    BY <1>3
  <2>2. QED
    BY <2>1 DEF ok, StaysSound
<1>4. QED
  BY <1>1, <1>2, <1>3

\* A deletion that has come to level i of a tree as high as top.
Descends(d, i, top, e, held) ==
    \/ Emptied(d, e, held)
    \/ Seeking(d, i, top, e, held)
    \/ Swapping(d, i, top, e, held)

\* A call of delete_recursive keeps the descent on its way.
LEMMA LowerStep ==
    ASSUME NEW d, NEW i \in Nat, NEW top, NEW held, NEW e \in held,
           Descends(d, i, top, e, held), Lower(d).sound
    PROVE  Descends(Lower(d), i + 1, top, e, held)
<1>1. CASE Emptied(d, e, held)
  <2>1. d.at = Null
    BY <1>1 DEF Emptied
  <2>2. Lower(d) = d
    BY <2>1 DEF Lower
  <2>3. QED
    BY <1>1, <2>2 DEF Descends
<1>2. CASE Seeking(d, i, top, e, held) /\ Leaf(d.tree, d.at)
  BY <1>2, LowerLeaf DEF Descends
<1>3. CASE Seeking(d, i, top, e, held) /\ ~Leaf(d.tree, d.at)
  BY <1>3, LowerNode DEF Descends
<1>4. CASE Swapping(d, i, top, e, held)
  BY <1>4, LowerSwap DEF Descends
<1>5. QED
  BY <1>1, <1>2, <1>3, <1>4 DEF Descends

\* Descent is the end of that recursion.
LEMMA DescentLoop ==
    ASSUME NEW t, NEW k
    PROVE  Descent(t, k) = LowerLoop(t, k)[Rounds(t)]
  BY DEF Descent, LowerLoop

\* delete_recursive takes out the entry.
LEMMA DescentGood ==
    ASSUME NEW t, Good(t), NEW e \in Held(t), NEW k, k = e.key, Descent(t, k).sound
    PROVE  Emptied(Descent(t, k), e, Held(t))
<1> DEFINE held == Held(t)
           N == Rounds(t)
           loop == LowerLoop(t, k)
<1>1. Sized(t)
  BY DEF Good
<1>2. PICK level, span : Formed(t, level, span)
  BY DEF Good
<1> DEFINE top == level[t.root]
<1>3. Typed(t) /\ Linked(t, level) /\ Spanned(t, span)
  BY <1>2 DEF Formed
<1>4. N \in Nat /\ top \in Nat /\ top < N
  BY <1>2, Tall
<1>5. /\ loop[0] = [tree |-> t, at |-> t.root, key |-> k, sound |-> TRUE]
      /\ \A i \in 0..N : i < N => loop[i + 1] = Lower(loop[i])
  BY <1>4, LowerLoopFacts
<1> HIDE DEF N, loop, held
<1> DEFINE d0 == [tree |-> t, at |-> t.root, key |-> k, sound |-> TRUE]
<1>6. Seeking(d0, 0, top, e, held)
  <2>1. d0.tree = t /\ d0.at = t.root /\ d0.key = e.key
    OBVIOUS
  <2>2. t.root \in Heap(t)
    BY <1>3 DEF Typed
  <2>3. Thick(t) /\ (~Leaf(t, t.root) => 1 =< KeyCount(t, t.root))
    BY <1>1, <2>2 DEF Sized, Thick
  <2>4. e.key \in span[t.root]
    <3>1. PICK m \in Heap(t) : \E j \in 1..KeyCount(t, m) : EntAt(t, m, j) = e
      BY <1>3, HeldFacts
    <3>2. e.key \in Key
      BY <1>3, <3>1, EntKey, TypedFacts
    <3>3. QED
      BY <1>3, <3>2 DEF Spanned
  <2>5. level[t.root] + 0 = top
    BY <1>4
  <2> HIDE DEF d0, top
  <2>6. QED
    BY <1>2, <2>1, <2>2, <2>3, <2>4, <2>5 DEF Seeking, held
<1> HIDE DEF d0, top
<1> DEFINE P == {i \in 0..N : loop[i].sound => Descends(loop[i], i, top, e, held)}
<1>7. 0 \in P
  <2>1. loop[0] = d0
    BY <1>5 DEF d0
  <2>2. QED
    BY <1>4, <1>6, <2>1 DEF Descends
<1>8. ASSUME NEW i \in 0..N, i \in P, i < N
      PROVE  i + 1 \in P
  <2>1. i + 1 \in 0..N /\ i \in Nat
    BY <1>4, <1>8
  <2>2. loop[i + 1] = Lower(loop[i])
    BY <1>5, <1>8
  <2>3. SUFFICES ASSUME loop[i + 1].sound PROVE Descends(loop[i + 1], i + 1, top, e, held)
    BY <2>1
  <2>4. loop[i].sound
    BY <2>2, <2>3, LowerSound
  <2>5. Descends(loop[i], i, top, e, held)
    BY <1>8, <2>4
  <2>6. e \in held
    BY DEF held
  <2>7. QED
    BY <2>1, <2>2, <2>3, <2>5, <2>6, LowerStep
<1>9. \A i \in 0..N : i \in P
  <2> HIDE DEF P
  <2>1. QED
    BY <1>4, <1>7, <1>8, Induction
<1>10. Descent(t, k) = loop[N]
  BY DescentLoop DEF loop, N
<1>11. Descends(loop[N], N, top, e, held)
  BY <1>4, <1>9, <1>10
<1>12. ~Seeking(loop[N], N, top, e, held)
  <2>1. SUFFICES ASSUME Seeking(loop[N], N, top, e, held) PROVE FALSE
    OBVIOUS
  <2> DEFINE n == loop[N].at
             u == loop[N].tree
  <2>2. PICK level2, span2 : Formed(u, level2, span2) /\ level2[n] + N = top
    BY <2>1 DEF Seeking
  <2>3. n \in Heap(u)
    BY <2>1 DEF Seeking
  <2>4. level2[n] \in Nat
    BY <2>2, <2>3 DEF Formed, Linked
  <2>5. QED
    BY <1>4, <2>2, <2>4
<1>13. ~Swapping(loop[N], N, top, e, held)
  <2>1. SUFFICES ASSUME Swapping(loop[N], N, top, e, held) PROVE FALSE
    OBVIOUS
  <2>2. PICK u, p, a, level2, span2 : Swaps(loop[N], N, top, e, held, u, p, a, level2, span2)
    BY <2>1 DEF Swapping
  <2> DEFINE n == loop[N].at
  <2>3. /\ Formed(u, level2, span2) /\ level2[n] + N = top /\ p \in Heap(u) /\ ~Leaf(u, p)
        /\ a \in 1..KeyCount(u, p) /\ n = Kid(u, p, a)
    BY <2>2 DEF Swaps
  <2>4. a \in 1..KidCount(u, p)
    <3>1. KeyCount(u, p) \in Nat /\ KidCount(u, p) = KeyCount(u, p) + 1
      BY <2>3, Counts DEF Formed
    <3>2. QED
      BY <2>3, <3>1
  <2>5. n \in Heap(u)
    BY <2>3, <2>4, KidFacts
  <2>6. level2[n] \in Nat
    BY <2>3, <2>5 DEF Formed, Linked
  <2>7. QED
    BY <1>4, <2>3, <2>6
<1>14. QED
  BY <1>10, <1>11, <1>12, <1>13 DEF Descends, held

\* btree_delete keeps the tree in order and takes the entry out.
LEMMA DeleteGood ==
    ASSUME NEW t, Good(t), NEW e \in Held(t), NEW k, k = e.key, Descent(t, k).sound,
           NEW v, v = Deleted(t, k)
    PROVE  Good(v) /\ Held(v) = Held(t) \ {e}
<1> DEFINE u == Descent(t, k).tree
           r == Kid(u, u.root, 1)
<1>1. Emptied(Descent(t, k), e, Held(t))
  BY DescentGood
<1>2. /\ Thick(u) /\ Held(u) = Held(t) \ {e}
      /\ \E level, span : Formed(u, level, span)
  BY <1>1 DEF Emptied
<1>3. PICK level, span : Formed(u, level, span)
  BY <1>2
<1>4. v = IF u = Wreck THEN Wreck
          ELSE IF Ents(u, u.root) # <<>> \/ Leaf(u, u.root) THEN u
          ELSE IF r = Null THEN Wreck
          ELSE Adopt([root |-> r, node |-> Free(u, u.root).node], Null, <<r>>)
  BY Zenon DEF Deleted, Rooted, Kid
<1> HIDE DEF u, r
<1>5. Typed(u) /\ Linked(u, level) /\ u.root \in Heap(u)
  BY <1>3 DEF Formed, Typed
<1>6. u # Wreck
  BY <1>5, NotWreck
<1>7. /\ MinKeys \in Nat /\ 1 =< MinKeys
      /\ \A n \in Heap(u) : KeyCount(u, n) \in Nat
  BY <1>5, TypedFacts, Sizes
<1>8. CASE Ents(u, u.root) # <<>> \/ Leaf(u, u.root)
  <2>1. v = u
    BY <1>4, <1>6, <1>8
  <2>2. ASSUME NEW n \in Heap(u), ~Leaf(u, n)
        PROVE  1 =< KeyCount(u, n)
    <3>1. CASE n # u.root
      BY <1>2, <1>7, <3>1 DEF Thick
    <3>2. CASE n = u.root
      <4>1. Ents(u, n) # <<>> /\ Ents(u, n) \in Seq(Entry)
        BY <1>5, <1>8, <2>2, <3>2, TypedFacts
      <4>2. QED
        BY <4>1 DEF KeyCount
    <3>3. QED
      BY <3>1, <3>2
  <2>3. Sized(u)
    BY <1>2, <2>2 DEF Sized, Thick
  <2>4. QED
    BY <1>2, <2>1, <2>3 DEF Good
<1>9. CASE Ents(u, u.root) = <<>> /\ ~Leaf(u, u.root)
  <2>1. KeyCount(u, u.root) = 0
    BY <1>9 DEF KeyCount
  <2>2. KidCount(u, u.root) = 1
    BY <1>5, <1>9, <2>1, Counts
  <2>3. 1 \in 1..KidCount(u, u.root)
    BY <2>2
  <2>4. r \in Heap(u) /\ r # u.root
    BY <1>3, <1>5, <2>3, KidFacts DEF r
  <2>5. r # Null /\ Null \notin Heap(u)
    BY <1>5, <2>4, NotWreck
  <2> DEFINE x == [root |-> r, node |-> Free(u, u.root).node]
  <2>6. v = Adopt(x, Null, <<r>>)
    BY <1>4, <1>6, <1>9, <2>5
  <2>7. /\ x.root = r /\ Heap(x) = Heap(u) \ {u.root}
        /\ \A m \in Heap(x) :
            /\ Leaf(x, m) = Leaf(u, m) /\ Ents(x, m) = Ents(u, m)
            /\ Kids(x, m) = Kids(u, m) /\ Parent(x, m) = Parent(u, m)
    BY <1>5, DropFacts
  <2> HIDE DEF x
  <2> DEFINE ks == <<r>>
  <2>8. ks \in Seq(Heap(x)) /\ Null \notin Heap(x)
    <3>1. r \in Heap(x)
      BY <2>4, <2>7
    <3>2. QED
      BY <2>5, <2>7, <3>1
  <2>10. \A m : (\E i \in 1..Len(ks) : ks[i] = m) <=> m = r
    OBVIOUS
  <2> HIDE DEF ks
  <2>15. v = Adopt(x, Null, ks)
    BY <2>6 DEF ks
  <2>9. /\ v.root = x.root /\ Heap(v) = Heap(x)
        /\ \A m \in Heap(x) :
            /\ Leaf(v, m) = Leaf(x, m) /\ Ents(v, m) = Ents(x, m)
            /\ Kids(v, m) = Kids(x, m)
            /\ Parent(v, m) = IF \E i \in 1..Len(ks) : ks[i] = m THEN Null
                              ELSE Parent(x, m)
    BY <2>8, <2>15, AdoptFacts
  <2>11. Drops(u, v)
    <3>1. ASSUME NEW m \in Heap(v)
          PROVE  /\ Leaf(v, m) = Leaf(u, m) /\ Ents(v, m) = Ents(u, m)
                 /\ Kids(v, m) = Kids(u, m)
                 /\ Parent(v, m) = IF m = r THEN Null ELSE Parent(u, m)
      BY <2>7, <2>9, <2>10, <3>1
    <3>2. v.root = r /\ Heap(v) = Heap(u) \ {u.root}
      BY <2>7, <2>9
    <3>3. QED
      BY <3>1, <3>2 DEF Drops, r
  <2>12. Held(v) = Held(u) /\ \E level2, span2 : Formed(v, level2, span2)
    BY <1>3, <1>9, <2>11, DropFormed
  <2>13. ASSUME NEW n \in Heap(v)
         PROVE  /\ KeyCount(v, n) =< MaxKeys
                /\ n # v.root => MinKeys =< KeyCount(v, n)
                /\ ~Leaf(v, n) => 1 =< KeyCount(v, n)
    <3>1. n \in Heap(u) /\ n # u.root
      BY <2>7, <2>9
    <3>2. Ents(v, n) = Ents(u, n)
      BY <2>7, <2>9
    <3>3. KeyCount(v, n) = KeyCount(u, n)
      BY <3>2, SameEnts
    <3>4. KeyCount(u, n) =< MaxKeys /\ MinKeys =< KeyCount(u, n)
      BY <1>2, <3>1 DEF Thick
    <3>5. 1 =< KeyCount(u, n)
      BY <1>7, <3>1, <3>4
    <3>6. QED
      BY <3>3, <3>4, <3>5
  <2>14. QED
    BY <1>2, <2>12, <2>13 DEF Good, Sized
<1>10. QED
  BY <1>8, <1>9

(***************************************************************************)
(* A walk over the tree.                                                   *)
(***************************************************************************)
\* The elements of a sequence, and that each is there once.
Within(s) == {s[i] : i \in 1..Len(s)}

\* No element is there twice.
Distinct(s) == \A i \in 1..Len(s) : \A j \in 1..Len(s) : s[i] = s[j] => i = j

\* The elements of a sequence.
LEMMA WithinIs ==
    ASSUME NEW s, NEW x
    PROVE  x \in Within(s) <=> \E i \in 1..Len(s) : s[i] = x
  BY DEF Within

\* An element behind.
LEMMA WithinAppend ==
    ASSUME NEW S, NEW s \in Seq(S), NEW e \in S
    PROVE  /\ Within(Append(s, e)) = Within(s) \cup {e}
           /\ Distinct(s) /\ e \notin Within(s) => Distinct(Append(s, e))
<1> DEFINE z == Append(s, e)
<1>1. /\ z \in Seq(S) /\ Len(z) = Len(s) + 1 /\ Len(s) \in Nat
      /\ \A j \in 1..(Len(s) + 1) : z[j] = IF j =< Len(s) THEN s[j] ELSE e
  BY AppendFacts
<1> HIDE DEF z
<1>2. ASSUME NEW x
      PROVE  x \in Within(z) <=> x \in Within(s) \cup {e}
  <2>1. ASSUME NEW j \in 1..Len(z), z[j] = x PROVE x \in Within(s) \cup {e}
    <3>1. CASE j =< Len(s)
      <4>1. j \in 1..Len(s) /\ s[j] = x
        BY <1>1, <2>1, <3>1
      <4>2. QED
        BY <4>1 DEF Within
    <3>2. CASE ~(j =< Len(s))
      BY <1>1, <2>1, <3>2
    <3>3. QED
      BY <3>1, <3>2
  <2>2. ASSUME NEW j \in 1..Len(s), s[j] = x PROVE x \in Within(z)
    <3>1. j \in 1..Len(z) /\ z[j] = x
      BY <1>1, <2>2
    <3>2. QED
      BY <3>1 DEF Within
  <2>3. e \in Within(z)
    <3>1. Len(s) + 1 \in 1..Len(z) /\ z[Len(s) + 1] = e
      BY <1>1
    <3>2. QED
      BY <3>1 DEF Within
  <2>4. QED
    BY <2>1, <2>2, <2>3 DEF Within
<1>3. ASSUME Distinct(s), e \notin Within(s)
      PROVE  Distinct(z)
  <2>1. \A i \in 1..Len(s) : s[i] # e
    BY <1>3 DEF Within
  <2>2. SUFFICES ASSUME NEW i \in 1..Len(z), NEW j \in 1..Len(z), z[i] = z[j] PROVE i = j
    BY DEF Distinct
  <2>3. i \in 1..(Len(s) + 1) /\ j \in 1..(Len(s) + 1)
    BY <1>1
  <2>4. CASE i =< Len(s) /\ j =< Len(s)
    BY <1>1, <1>3, <2>2, <2>3, <2>4 DEF Distinct
  <2>5. CASE i =< Len(s) /\ ~(j =< Len(s))
    BY <1>1, <2>1, <2>2, <2>3, <2>5
  <2>6. CASE ~(i =< Len(s)) /\ j =< Len(s)
    BY <1>1, <2>1, <2>2, <2>3, <2>6
  <2>7. CASE ~(i =< Len(s)) /\ ~(j =< Len(s))
    BY <1>1, <2>3, <2>7
  <2>8. QED
    BY <2>4, <2>5, <2>6, <2>7
<1>4. QED
  BY <1>2, <1>3 DEF z

\* An element off the front.
LEMMA WithinTail ==
    ASSUME NEW S, NEW s \in Seq(S), s # <<>>
    PROVE  /\ Head(s) \in Within(s) /\ Head(s) \in S
           /\ Within(Tail(s)) \subseteq Within(s)
           /\ Within(s) \subseteq Within(Tail(s)) \cup {Head(s)}
           /\ Distinct(s) => Distinct(Tail(s)) /\ Head(s) \notin Within(Tail(s))
<1> DEFINE z == Tail(s)
<1>1. /\ z \in Seq(S) /\ Len(z) = Len(s) - 1 /\ Len(s) \in Nat /\ 1 =< Len(s)
      /\ \A j \in 1..(Len(s) - 1) : z[j] = s[j + 1]
      /\ Head(s) = s[1] /\ Head(s) \in S
  <2>1. Len(s) \in Nat /\ Len(s) # 0
    OBVIOUS
  <2>2. QED
    BY <2>1, TailFacts
<1> HIDE DEF z
<1>2. Head(s) \in Within(s)
  BY <1>1 DEF Within
<1>3. ASSUME NEW x \in Within(z) PROVE x \in Within(s)
  <2>1. PICK j \in 1..Len(z) : z[j] = x
    BY DEF Within
  <2>2. j + 1 \in 1..Len(s) /\ s[j + 1] = x
    BY <1>1, <2>1
  <2>3. QED
    BY <2>2 DEF Within
<1>4. ASSUME NEW x \in Within(s), x # Head(s) PROVE x \in Within(z)
  <2>1. PICK j \in 1..Len(s) : s[j] = x
    BY DEF Within
  <2>2. j # 1
    BY <1>1, <1>4, <2>1
  <2>3. j - 1 \in 1..Len(z) /\ (j - 1) + 1 = j
    BY <1>1, <2>2
  <2>4. z[j - 1] = x
    BY <1>1, <2>1, <2>3
  <2>5. QED
    BY <2>3, <2>4 DEF Within
<1>5. ASSUME Distinct(s) PROVE Distinct(z) /\ Head(s) \notin Within(z)
  <2>1. \A i \in 1..Len(z) : i \in 1..(Len(s) - 1) /\ i + 1 \in 1..Len(s) /\ i + 1 # 1 /\ i \in Nat
    BY <1>1
  <2>2. ASSUME NEW i \in 1..Len(z), NEW j \in 1..Len(z), z[i] = z[j] PROVE i = j
    <3>1. s[i + 1] = s[j + 1]
      BY <1>1, <2>1, <2>2
    <3>2. i + 1 = j + 1
      BY <1>5, <2>1, <3>1 DEF Distinct
    <3>3. QED
      BY <2>1, <3>2
  <2>3. ASSUME Head(s) \in Within(z) PROVE FALSE
    <3>1. PICK i \in 1..Len(z) : z[i] = Head(s)
      BY <2>3 DEF Within
    <3>2. s[i + 1] = s[1] /\ 1 \in 1..Len(s)
      BY <1>1, <2>1, <3>1
    <3>3. i + 1 = 1
      BY <1>5, <2>1, <3>2 DEF Distinct
    <3>4. QED
      BY <2>1, <3>3
  <2>4. QED
    BY <2>2, <2>3 DEF Distinct
<1>6. QED
  BY <1>1, <1>2, <1>3, <1>4, <1>5 DEF z

\* Two sequences in one.
LEMMA WithinConcat ==
    ASSUME NEW S, NEW s \in Seq(S), NEW z \in Seq(S)
    PROVE  /\ Within(s \o z) = Within(s) \cup Within(z)
           /\ Distinct(s) /\ Distinct(z) /\ Within(s) \cap Within(z) = {} => Distinct(s \o z)
<1> DEFINE y == s \o z
<1>1. /\ y \in Seq(S) /\ Len(y) = Len(s) + Len(z) /\ Len(s) \in Nat /\ Len(z) \in Nat
      /\ \A x \in 1..(Len(s) + Len(z)) : y[x] = IF x =< Len(s) THEN s[x] ELSE z[x - Len(s)]
  BY ConcatFacts
<1> HIDE DEF y
<1>2. ASSUME NEW j \in 1..Len(y)
      PROVE  \/ j \in 1..Len(s) /\ y[j] = s[j]
             \/ j - Len(s) \in 1..Len(z) /\ y[j] = z[j - Len(s)] /\ ~(j =< Len(s))
  BY <1>1
<1>3. ASSUME NEW x PROVE x \in Within(y) <=> x \in Within(s) \cup Within(z)
  <2>1. ASSUME NEW j \in 1..Len(y), y[j] = x PROVE x \in Within(s) \cup Within(z)
    BY <1>2, <2>1 DEF Within
  <2>2. ASSUME NEW j \in 1..Len(s), s[j] = x PROVE x \in Within(y)
    <3>1. j \in 1..Len(y) /\ y[j] = x
      BY <1>1, <2>2
    <3>2. QED
      BY <3>1 DEF Within
  <2>3. ASSUME NEW j \in 1..Len(z), z[j] = x PROVE x \in Within(y)
    <3>1. j + Len(s) \in 1..Len(y) /\ ~(j + Len(s) =< Len(s)) /\ (j + Len(s)) - Len(s) = j
      BY <1>1
    <3>2. y[j + Len(s)] = x
      BY <1>1, <2>3, <3>1
    <3>3. QED
      BY <3>1, <3>2 DEF Within
  <2>4. QED
    BY <2>1, <2>2, <2>3 DEF Within
<1>4. ASSUME Distinct(s), Distinct(z), Within(s) \cap Within(z) = {}
      PROVE  Distinct(y)
  <2>1. \A i \in 1..Len(s) : \A j \in 1..Len(z) : s[i] # z[j]
    BY <1>4 DEF Within
  <2>2. SUFFICES ASSUME NEW i \in 1..Len(y), NEW j \in 1..Len(y), y[i] = y[j] PROVE i = j
    BY DEF Distinct
  <2>3. CASE i \in 1..Len(s) /\ y[i] = s[i] /\ j \in 1..Len(s) /\ y[j] = s[j]
    BY <1>4, <2>2, <2>3 DEF Distinct
  <2>4. CASE /\ i - Len(s) \in 1..Len(z) /\ y[i] = z[i - Len(s)]
             /\ j - Len(s) \in 1..Len(z) /\ y[j] = z[j - Len(s)]
    <3>1. i - Len(s) = j - Len(s)
      BY <1>4, <2>2, <2>4 DEF Distinct
    <3>2. QED
      BY <1>1, <3>1
  <2>5. CASE i \in 1..Len(s) /\ y[i] = s[i] /\ j - Len(s) \in 1..Len(z) /\ y[j] = z[j - Len(s)]
    BY <2>1, <2>2, <2>5
  <2>6. CASE j \in 1..Len(s) /\ y[j] = s[j] /\ i - Len(s) \in 1..Len(z) /\ y[i] = z[i - Len(s)]
    BY <2>1, <2>2, <2>6
  <2>7. QED
    BY <1>2, <2>3, <2>4, <2>5, <2>6
<1>5. QED
  BY <1>3, <1>4 DEF y

\* A walk over the tree from its root that has come to node i.
Walked(t, done, todo) ==
    /\ done \in Seq(Heap(t)) /\ todo \in Seq(Heap(t))
    /\ Distinct(done) /\ Distinct(todo) /\ Within(done) \cap Within(todo) = {}
    /\ t.root \in Within(done) \cup Within(todo)
    /\ \A n \in Within(done) : \A j \in 1..KidCount(t, n) :
        Kid(t, n, j) \in Within(done) \cup Within(todo)
    /\ \A n \in Within(done) \cup Within(todo) :
        n = t.root \/ Parent(t, n) \in Within(done)
    /\ \/ done = <<>> /\ todo = <<t.root>>
       \/ 1 =< Len(done) /\ done[1] = t.root

\* A call of btree_to_bin keeps the walk on its way.
LEMMA VisitWalked ==
    ASSUME NEW t, NEW level, NEW span, Formed(t, level, span),
           NEW done, NEW todo, Walked(t, done, todo), todo # <<>>,
           NEW h, h = Head(todo)
    PROVE  Walked(t, Append(done, h), Kids(t, h) \o Tail(todo))
<1> DEFINE H == Heap(t)
           D == Within(done)
           T == Within(todo)
           kids == Kids(t, h)
           rest == Tail(todo)
           done2 == Append(done, h)
           todo2 == kids \o rest
           R == Within(rest)
           K == Within(kids)
<1>1. /\ done \in Seq(H) /\ todo \in Seq(H)
      /\ Distinct(done) /\ Distinct(todo) /\ D \cap T = {}
      /\ t.root \in D \cup T
      /\ \A n \in D : \A j \in 1..KidCount(t, n) : Kid(t, n, j) \in D \cup T
      /\ \A n \in D \cup T : n = t.root \/ Parent(t, n) \in D
      /\ \/ done = <<>> /\ todo = <<t.root>>
         \/ 1 =< Len(done) /\ done[1] = t.root
  BY DEF Walked
<1>2. Typed(t)
  BY DEF Formed
<1> HIDE DEF H, D, T
<1>3. /\ h \in T /\ h \in H
      /\ R \subseteq T /\ T \subseteq R \cup {h}
      /\ Distinct(rest) /\ h \notin R /\ rest \in Seq(H)
  <2>1. /\ Head(todo) \in Within(todo) /\ Head(todo) \in H
        /\ Within(Tail(todo)) \subseteq Within(todo)
        /\ Within(todo) \subseteq Within(Tail(todo)) \cup {Head(todo)}
        /\ Distinct(todo) => Distinct(Tail(todo)) /\ Head(todo) \notin Within(Tail(todo))
    BY <1>1, WithinTail
  <2>2. Tail(todo) \in Seq(H)
    BY <1>1, TailFacts
  <2>3. QED
    BY <1>1, <2>1, <2>2 DEF T
<1>4. kids \in Seq(H)
  BY <1>2, <1>3, TypedFacts DEF H
<1>5. \A x : x \in K <=> \E j \in 1..KidCount(t, h) : Kid(t, h, j) = x
  BY DEF Within, KidCount, Kid
<1>6. Distinct(kids)
  <2>1. \A i \in 1..KidCount(t, h) : \A j \in 1..KidCount(t, h) :
            Kid(t, h, i) = Kid(t, h, j) => i = j
    BY <1>3, KidFacts DEF H
  <2>2. QED
    BY <2>1 DEF Distinct, KidCount, Kid
<1>7. ASSUME NEW x \in K
      PROVE  Parent(t, x) = h /\ x # t.root /\ x # h /\ x \in H
  <2>1. PICK j \in 1..KidCount(t, h) : Kid(t, h, j) = x
    BY <1>5
  <2>2. QED
    BY <1>3, <2>1, SplitPlace, KidFacts DEF H
<1>8. h \notin D
  BY <1>1, <1>3
<1>9. ASSUME NEW x \in K PROVE x \notin D \cup T
  BY <1>1, <1>7, <1>8
<1>10. /\ done2 \in Seq(H) /\ Within(done2) = D \cup {h} /\ Distinct(done2)
       /\ Len(done2) = Len(done) + 1 /\ Len(done) \in Nat
       /\ \A j \in 1..(Len(done) + 1) : done2[j] = IF j =< Len(done) THEN done[j] ELSE h
  <2>1. /\ Within(Append(done, h)) = Within(done) \cup {h}
        /\ Distinct(done) /\ h \notin Within(done) => Distinct(Append(done, h))
    BY <1>1, <1>3, WithinAppend
  <2>2. /\ Append(done, h) \in Seq(H) /\ Len(Append(done, h)) = Len(done) + 1
        /\ \A j \in 1..(Len(done) + 1) :
             Append(done, h)[j] = IF j =< Len(done) THEN done[j] ELSE h
    BY <1>1, <1>3, AppendFacts
  <2>3. Len(done) \in Nat
    BY <1>1
  <2>4. QED
    BY <1>1, <1>8, <2>1, <2>2, <2>3 DEF D
<1> HIDE DEF done2, kids, rest, R, K
<1>11. todo2 \in Seq(H) /\ Within(todo2) = K \cup R /\ Distinct(todo2)
  <2>1. kids \o rest \in Seq(H)
    BY <1>3, <1>4, ConcatFacts
  <2>2. K \cap R = {}
    BY <1>3, <1>9
  <2>3. /\ Within(kids \o rest) = Within(kids) \cup Within(rest)
        /\ Distinct(kids) /\ Distinct(rest) /\ Within(kids) \cap Within(rest) = {}
            => Distinct(kids \o rest)
    BY <1>3, <1>4, WithinConcat
  <2>4. QED
    BY <1>3, <1>6, <2>1, <2>2, <2>3 DEF K, R
<1> HIDE DEF todo2
<1>12. Within(done2) \cap Within(todo2) = {}
  BY <1>1, <1>3, <1>7, <1>9, <1>10, <1>11
<1>13. t.root \in Within(done2) \cup Within(todo2)
  BY <1>1, <1>3, <1>10, <1>11
<1>14. ASSUME NEW n \in Within(done2), NEW j \in 1..KidCount(t, n)
       PROVE  Kid(t, n, j) \in Within(done2) \cup Within(todo2)
  <2>1. CASE n = h
    BY <1>5, <1>11, <1>14, <2>1
  <2>2. CASE n \in D
    BY <1>1, <1>3, <1>10, <1>11, <1>14, <2>2
  <2>3. QED
    BY <1>10, <2>1, <2>2
<1>15. ASSUME NEW n \in Within(done2) \cup Within(todo2)
       PROVE  n = t.root \/ Parent(t, n) \in Within(done2)
  BY <1>1, <1>3, <1>7, <1>10, <1>11
<1>16. 1 =< Len(done2) /\ done2[1] = t.root
  <2>1. 1 \in 1..(Len(done) + 1) /\ 1 =< Len(done2)
    BY <1>10
  <2>2. CASE done = <<>> /\ todo = <<t.root>>
    <3>1. Len(done) = 0 /\ h = t.root
      BY <2>2
    <3>2. ~(1 =< Len(done))
      BY <3>1
    <3>3. QED
      BY <1>10, <2>1, <3>1, <3>2
  <2>3. CASE 1 =< Len(done) /\ done[1] = t.root
    BY <1>10, <2>1, <2>3
  <2>4. QED
    BY <1>1, <2>2, <2>3
<1>17. Walked(t, done2, todo2)
  BY <1>10, <1>11, <1>12, <1>13, <1>14, <1>15, <1>16 DEF Walked, H
<1>18. QED
  BY <1>17 DEF done2, todo2, kids, rest

\* A set that has the root and with a node its children has all nodes.
LEMMA AllNodes ==
    ASSUME NEW t, NEW level, NEW span, Formed(t, level, span),
           NEW S, t.root \in S,
           \A n \in S : n \in Heap(t) => \A j \in 1..KidCount(t, n) : Kid(t, n, j) \in S
    PROVE  Heap(t) \subseteq S
<1> DEFINE top == level[t.root]
           P == {i \in 0..top : \A n \in Heap(t) : level[n] = top - i => n \in S}
<1>1. top \in Nat /\ Linked(t, level) /\ Typed(t)
  BY Tall DEF Formed
<1>2. \A n \in Heap(t) : level[n] \in Nat /\ level[n] =< top
  BY <1>1 DEF Linked
<1> HIDE DEF top
<1>3. 0 \in P
  <2>1. ASSUME NEW n \in Heap(t), level[n] = top PROVE n \in S
    <3>1. CASE n # t.root
      <4>1. Parent(t, n) \in Heap(t) /\ level[Parent(t, n)] = level[n] + 1
        BY <3>1, ParentFacts
      <4>2. level[Parent(t, n)] =< top
        BY <1>2, <4>1
      <4>3. QED
        BY <1>1, <2>1, <4>1, <4>2
    <3>2. QED
      BY <3>1
  <2>2. 0 \in 0..top /\ top - 0 = top
    BY <1>1
  <2>3. QED
    BY <2>1, <2>2
<1>4. ASSUME NEW i \in 0..top, i \in P, i < top PROVE i + 1 \in P
  <2>1. i + 1 \in 0..top
    BY <1>1, <1>4
  <2>2. ASSUME NEW n \in Heap(t), level[n] = top - (i + 1) PROVE n \in S
    <3>1. level[n] # top
      BY <1>1, <2>2
    <3>2. n # t.root
      BY <3>1 DEF top
    <3>3. /\ Parent(t, n) \in Heap(t) /\ level[Parent(t, n)] = level[n] + 1
          /\ \E j \in 1..KidCount(t, Parent(t, n)) : Kid(t, Parent(t, n), j) = n
      BY <3>2, ParentFacts
    <3>4. level[Parent(t, n)] = top - i
      BY <1>1, <2>2, <3>3
    <3>5. Parent(t, n) \in S
      BY <1>4, <3>3, <3>4
    <3>6. QED
      BY <3>3, <3>5
  <2>3. QED
    BY <2>1, <2>2
<1>5. \A i \in 0..top : i \in P
  <2> HIDE DEF P
  <2>1. QED
    BY <1>1, <1>3, <1>4, Induction
<1>6. ASSUME NEW n \in Heap(t) PROVE n \in S
  <2>1. top - level[n] \in 0..top /\ level[n] = top - (top - level[n])
    BY <1>1, <1>2
  <2>2. top - level[n] \in P
    BY <1>5, <2>1
  <2>3. QED
    BY <2>1, <2>2
<1>7. QED
  BY <1>6

\* As many elements as a set has, and all different, are all of the set.
LEMMA DistinctAll ==
    ASSUME NEW H, IsFiniteSet(H), NEW s \in Seq(H), Distinct(s)
    PROVE  Len(s) = Cardinality(H) <=> H \subseteq Within(s)
<1> DEFINE S == 1..Len(s)
<1>1. s \in [S -> H] /\ Len(s) \in Nat
  OBVIOUS
<1>2. Cardinality(S) = Len(s)
  <2>1. \A n \in Nat : Cardinality(1..n) = n
    <3> TAKE n \in Nat
    <3>1. 1 \in Int /\ n \in Int
      OBVIOUS
    <3>2. Cardinality(1..n) = IF 1 > n THEN 0 ELSE n - 1 + 1
      BY <3>1, FS_Interval
    <3>3. (IF 1 > n THEN 0 ELSE n - 1 + 1) = n
      OBVIOUS
    <3>4. QED
      BY <3>2, <3>3
  <2>2. QED
    BY <1>1, <2>1
<1>3. s \in Injection(S, H)
  BY <1>1 DEF Injection, IsInjective, Distinct
<1>4. Cardinality(S) = Cardinality(H) <=> s \in Surjection(S, H)
  BY <1>3, FS_Injection
<1>5. s \in Surjection(S, H) <=> H \subseteq Within(s)
  BY <1>1 DEF Surjection, Within
<1>6. QED
  BY <1>2, <1>4, <1>5

\* Preorder is the end of the walk.
LEMMA PreorderLoop ==
    ASSUME NEW t, NEW n
    PROVE  Preorder(t, n) = VisitLoop(t, n)[Rounds(t)].done
  BY DEF Preorder, VisitLoop

\* btree_to_bin meets each node once, and the root first.
LEMMA PreorderFacts ==
    ASSUME NEW t, NEW level, NEW span, Formed(t, level, span),
           NEW order, order = Preorder(t, t.root)
    PROVE  /\ order \in Seq(Heap(t)) /\ Len(order) = Rounds(t) /\ Distinct(order)
           /\ Within(order) = Heap(t)
           /\ 1 =< Len(order) /\ order[1] = t.root
<1> DEFINE N == Rounds(t)
           loop == VisitLoop(t, t.root)
           H == Heap(t)
<1>1. N \in Nat /\ N = Cardinality(H) /\ IsFiniteSet(H) /\ t.root \in H /\ N > 0
  <2>1. IsFiniteSet(H) /\ t.root \in H
    BY DEF Formed, Typed
  <2>2. N \in Nat /\ level[t.root] \in Nat /\ level[t.root] < N
    BY Tall
  <2>3. N = Cardinality(H)
    BY DEF Rounds
  <2>4. N > 0
    <3> HIDE DEF N
    <3>1. QED
      BY <2>2
  <2>5. QED
    BY <2>1, <2>2, <2>3, <2>4
<1>2. /\ loop[0] = [done |-> <<>>, todo |-> <<t.root>>]
      /\ \A i \in 0..N : i < N => loop[i + 1] = Visit(t, loop[i])
  BY <1>1, VisitLoopFacts
<1>3. order = loop[N].done
  BY PreorderLoop
<1> HIDE DEF loop, N
<1> DEFINE P == {i \in 0..N : /\ Walked(t, loop[i].done, loop[i].todo)
                              /\ Len(loop[i].done) = i \/ loop[i].todo = <<>>}
<1>4. 0 \in P
  <2>1. loop[0].done = <<>> /\ loop[0].todo = <<t.root>>
    BY <1>2
  <2>2. Walked(t, <<>>, <<t.root>>)
    <3>1. <<>> \in Seq(H) /\ <<t.root>> \in Seq(H)
      BY <1>1
    <3>2. Within(<<>>) = {} /\ Within(<<t.root>>) = {t.root}
      <4>1. Within(<<>>) = {}
        BY DEF Within
      <4>2. \A x : x \in Within(<<t.root>>) <=> x = t.root
        BY DEF Within
      <4>3. QED
        BY <4>1, <4>2
    <3>3. Distinct(<<>>) /\ Distinct(<<t.root>>)
      BY DEF Distinct
    <3>4. QED
      BY <3>1, <3>2, <3>3 DEF Walked
  <2>3. Len(<<>>) = 0
    OBVIOUS
  <2>4. QED
    BY <1>1, <2>1, <2>2, <2>3
<1>5. ASSUME NEW i \in 0..N, i \in P, i < N PROVE i + 1 \in P
  <2> DEFINE w == loop[i]
             w2 == loop[i + 1]
  <2>1. i + 1 \in 0..N /\ i \in Nat
    BY <1>1, <1>5
  <2>2. w2 = Visit(t, w)
    BY <1>2, <1>5
  <2>3. Walked(t, w.done, w.todo) /\ (Len(w.done) = i \/ w.todo = <<>>)
    BY <1>5
  <2> HIDE DEF w, w2
  <2>4. CASE w.todo = <<>>
    <3>1. w2 = w
      BY <2>2, <2>4 DEF Visit
    <3>2. QED
      BY <2>1, <2>3, <2>4, <3>1 DEF w, w2
  <2>5. CASE w.todo # <<>>
    <3> DEFINE h == Head(w.todo)
    <3>1. w2 = [done |-> Append(w.done, h), todo |-> Kids(t, h) \o Tail(w.todo)]
      BY <2>2, <2>5 DEF Visit
    <3>2. w2.done = Append(w.done, h) /\ w2.todo = Kids(t, h) \o Tail(w.todo)
      BY <3>1
    <3>3. Walked(t, Append(w.done, h), Kids(t, h) \o Tail(w.todo))
      BY <2>3, <2>5, VisitWalked
    <3>4. Len(Append(w.done, h)) = i + 1
      <4>1. w.done \in Seq(H) /\ Len(w.done) = i
        BY <2>3, <2>5 DEF Walked
      <4>2. QED
        BY <4>1
    <3>5. Walked(t, w2.done, w2.todo) /\ Len(w2.done) = i + 1
      BY <3>2, <3>3, <3>4
    <3>6. QED
      BY <2>1, <3>5 DEF w2
  <2>6. QED
    BY <2>4, <2>5
<1>6. \A i \in 0..N : i \in P
  <2> HIDE DEF P
  <2>1. QED
    BY <1>1, <1>4, <1>5, Induction
<1> DEFINE done == loop[N].done
           todo == loop[N].todo
<1>7. Walked(t, done, todo) /\ (Len(done) = N \/ todo = <<>>)
  BY <1>1, <1>6
<1> HIDE DEF done, todo, P
<1>8. /\ done \in Seq(H) /\ Distinct(done)
      /\ t.root \in Within(done) \cup Within(todo)
      /\ \A n \in Within(done) : \A j \in 1..KidCount(t, n) :
            Kid(t, n, j) \in Within(done) \cup Within(todo)
      /\ \/ done = <<>> /\ todo = <<t.root>>
         \/ 1 =< Len(done) /\ done[1] = t.root
  BY <1>7 DEF Walked
<1>9. Len(done) = N <=> H \subseteq Within(done)
  BY <1>1, <1>8, DistinctAll
<1>10. H \subseteq Within(done)
  <2>1. CASE Len(done) = N
    BY <1>9, <2>1
  <2>2. CASE todo = <<>>
    <3>1. Within(todo) = {}
      BY <2>2 DEF Within
    <3>2. \A n \in Within(done) : n \in H => \A j \in 1..KidCount(t, n) : Kid(t, n, j) \in Within(done)
      BY <1>8, <3>1
    <3>3. t.root \in Within(done)
      BY <1>8, <3>1
    <3>4. QED
      BY <3>2, <3>3, AllNodes
  <2>3. QED
    BY <1>7, <2>1, <2>2
<1>11. Within(done) \subseteq H
  BY <1>8 DEF Within
<1>12. 1 =< Len(done) /\ done[1] = t.root
  <2>1. Len(done) = N
    BY <1>9, <1>10
  <2>2. done # <<>>
    BY <1>1, <2>1
  <2>3. QED
    BY <1>8, <2>2
<1>13. order = done
  BY <1>3 DEF done
<1>14. Len(done) = Rounds(t)
  BY <1>9, <1>10 DEF N
<1>15. QED
  BY <1>8, <1>10, <1>11, <1>12, <1>13, <1>14

(***************************************************************************)
(* The file.                                                               *)
(***************************************************************************)
LEMMA MadeSeq ==
    ASSUME NEW S, NEW n \in Nat, NEW s \in [1..n -> S]
    PROVE  s \in Seq(S) /\ Len(s) = n /\ DOMAIN s = 1..n
  OBVIOUS

\* Place finds a node among the ones written.
LEMMA PlaceFacts ==
    ASSUME NEW S, NEW order \in Seq(S), Distinct(order), NEW n \in Within(order)
    PROVE  /\ Place(order, n) \in 1..Len(order) /\ order[Place(order, n)] = n
           /\ \A i \in 1..Len(order) : order[i] = n => Place(order, n) = i
<1> DEFINE p == Place(order, n)
<1>1. DOMAIN order = 1..Len(order)
  OBVIOUS
<1>2. PICK i \in 1..Len(order) : order[i] = n
  BY WithinIs
<1>3. p = CHOOSE j \in DOMAIN order : order[j] = n
  BY DEF Place
<1> HIDE DEF p
<1>4. p \in DOMAIN order /\ order[p] = n
  BY <1>1, <1>2, <1>3, Zenon
<1>5. p \in 1..Len(order)
  BY <1>1, <1>4
<1>6. \A j \in 1..Len(order) : order[j] = n => p = j
  BY <1>4, <1>5 DEF Distinct
<1>7. QED
  BY <1>4, <1>5, <1>6 DEF p

\* What btree_to_bin writes of a node: its entries and its children, by place.
BinNode(t, order, i) ==
    [leaf |-> Leaf(t, order[i]), ents |-> Ents(t, order[i]),
     kids |-> [j \in DOMAIN Kids(t, order[i]) |-> Place(order, Kids(t, order[i])[j])]]

\* bin is what the nodes of t, in that order, look like in the file.
Filed(t, order, bin) ==
    /\ Len(order) \in Nat /\ DOMAIN bin = 1..Len(order) /\ Len(bin) = Len(order)
    /\ \A i \in 1..Len(order) :
        /\ order[i] \in Heap(t)
        /\ bin[i].leaf = Leaf(t, order[i]) /\ bin[i].ents = Ents(t, order[i])
        /\ bin[i].kids \in Seq(1..Len(order))
        /\ Len(bin[i].kids) = KidCount(t, order[i])
        /\ \A j \in 1..KidCount(t, order[i]) :
            /\ bin[i].kids[j] \in 1..Len(order)
            /\ order[bin[i].kids[j]] = Kid(t, order[i], j)

\* What btree_to_bin writes.
LEMMA BinFacts ==
    ASSUME NEW t, NEW level, NEW span, Formed(t, level, span),
           NEW order, order = Preorder(t, t.root), NEW bin, bin = ToBin(t)
    PROVE  Filed(t, order, bin)
<1> DEFINE H == Heap(t)
           N == Len(order)
<1>1. Typed(t)
  BY DEF Formed
<1>2. t.root # Null
  BY <1>1, NotWreck
<1>3. order \in Seq(H) /\ Distinct(order) /\ Within(order) = H
  BY PreorderFacts
<1>4. N \in Nat /\ DOMAIN order = 1..N
  BY <1>3
<1>5. bin = [i \in DOMAIN order |-> BinNode(t, order, i)]
  BY <1>2 DEF ToBin, BinNode
<1>6. bin = [i \in 1..N |-> BinNode(t, order, i)]
  BY <1>4, <1>5
<1>7. DOMAIN bin = 1..N /\ \A i \in 1..N : bin[i] = BinNode(t, order, i)
  BY <1>6
<1>8. Len(bin) = N
  <2> DEFINE S == {BinNode(t, order, i) : i \in 1..N}
  <2>1. bin \in [1..N -> S]
    BY <1>6
  <2> HIDE DEF S
  <2>2. QED
    BY <1>4, <2>1, MadeSeq
<1>9. ASSUME NEW i \in 1..N
      PROVE  /\ order[i] \in H
             /\ bin[i].leaf = Leaf(t, order[i]) /\ bin[i].ents = Ents(t, order[i])
             /\ bin[i].kids \in Seq(1..N)
             /\ Len(bin[i].kids) = KidCount(t, order[i])
             /\ \A j \in 1..KidCount(t, order[i]) :
                    /\ bin[i].kids[j] \in 1..N
                    /\ order[bin[i].kids[j]] = Kid(t, order[i], j)
  <2> DEFINE n == order[i]
             kids == bin[i].kids
             K == KidCount(t, n)
  <2>1. n \in H
    BY <1>3
  <2>2. bin[i].leaf = Leaf(t, n) /\ bin[i].ents = Ents(t, n)
        /\ kids = [j \in DOMAIN Kids(t, n) |-> Place(order, Kids(t, n)[j])]
    BY <1>7 DEF BinNode
  <2> HIDE DEF n, kids
  <2>3. Kids(t, n) \in Seq(H) /\ K \in Nat
        /\ \A j \in 1..K : Kid(t, n, j) \in H
    BY <1>1, <2>1, TypedFacts
  <2>4. DOMAIN Kids(t, n) = 1..K
    BY <2>3 DEF KidCount
  <2>5. kids = [j \in 1..K |-> Place(order, Kid(t, n, j))]
    BY <2>2, <2>4 DEF Kid
  <2> HIDE DEF K
  <2>6. ASSUME NEW j \in 1..K
        PROVE  kids[j] \in 1..N /\ order[kids[j]] = Kid(t, n, j)
    <3>1. kids[j] = Place(order, Kid(t, n, j))
      BY <2>5
    <3>2. Kid(t, n, j) \in Within(order)
      BY <1>3, <2>3
    <3>3. Place(order, Kid(t, n, j)) \in 1..N /\ order[Place(order, Kid(t, n, j))] = Kid(t, n, j)
      BY <1>3, <3>2, PlaceFacts
    <3>4. QED
      BY <3>1, <3>3
  <2>7. kids \in [1..K -> 1..N]
    BY <2>5, <2>6
  <2>8. kids \in Seq(1..N) /\ Len(kids) = K
    BY <2>3, <2>7, MadeSeq
  <2>9. QED
    BY <2>1, <2>2, <2>6, <2>8 DEF n, kids, K
<1>10. QED
  BY <1>4, <1>7, <1>8, <1>9 DEF Filed

\* The nodes that have node i of the file for a child: its parent, if it has one.
LEMMA ParentInFacts ==
    ASSUME NEW t, NEW level, NEW span, Formed(t, level, span),
           NEW order, order = Preorder(t, t.root), NEW bin, Filed(t, order, bin),
           NEW i \in 1..Len(order)
    PROVE  /\ i = 1 => ParentIn(bin, i) = Null
           /\ i # 1 => /\ ParentIn(bin, i) \in 1..Len(order)
                       /\ order[ParentIn(bin, i)] = Parent(t, order[i])
<1> DEFINE H == Heap(t)
           N == Len(order)
           ps == {j \in DOMAIN bin : i \in ToSet(bin[j].kids)}
           m == order[i]
<1>1. Typed(t) /\ Linked(t, level)
  BY DEF Formed
<1>2. order \in Seq(H) /\ Distinct(order) /\ Within(order) = H /\ 1 =< N /\ order[1] = t.root
  BY PreorderFacts
<1>3. /\ N \in Nat /\ DOMAIN bin = 1..N
      /\ \A j \in 1..N :
                /\ order[j] \in H
                /\ bin[j].kids \in Seq(1..N)
                /\ Len(bin[j].kids) = KidCount(t, order[j])
                /\ \A x \in 1..KidCount(t, order[j]) :
                    /\ bin[j].kids[x] \in 1..N
                    /\ order[bin[j].kids[x]] = Kid(t, order[j], x)
  BY Zenon DEF Filed
<1>4. ASSUME NEW j \in 1..N
      PROVE  j \in ps <=> \E x \in 1..KidCount(t, order[j]) : Kid(t, order[j], x) = m
  <2> DEFINE kids == bin[j].kids
  <2>1. kids \in Seq(1..N) /\ Len(kids) = KidCount(t, order[j])
    BY <1>3
  <2>2. \A x \in 1..KidCount(t, order[j]) :
                    kids[x] \in 1..N /\ order[kids[x]] = Kid(t, order[j], x)
    BY <1>3
  <2>3. j \in ps <=> i \in ToSet(kids)
    BY <1>3
  <2> HIDE DEF kids, ps
  <2>4. i \in ToSet(kids) <=> \E x \in 1..KidCount(t, order[j]) : kids[x] = i
    <3>1. DOMAIN kids = 1..KidCount(t, order[j])
      BY <2>1
    <3>2. ToSet(kids) = {kids[x] : x \in 1..KidCount(t, order[j])}
      BY <3>1 DEF ToSet
    <3>3. QED
      BY <3>2
  <2>5. \A x \in 1..KidCount(t, order[j]) : kids[x] = i <=> Kid(t, order[j], x) = m
    <3> TAKE x \in 1..KidCount(t, order[j])
    <3>1. kids[x] \in 1..N /\ order[kids[x]] = Kid(t, order[j], x)
      BY <2>2
    <3>2. kids[x] = i <=> order[kids[x]] = m
      BY <1>2, <3>1 DEF Distinct
    <3>3. QED
      BY <3>1, <3>2
  <2>6. QED
    BY <2>3, <2>4, <2>5
<1>5. ParentIn(bin, i) = IF ps = {} THEN Null ELSE Min(ps)
  BY DEF ParentIn
<1>6. ps \subseteq 1..N
  BY <1>3
<1>7. m \in H
  BY <1>3
<1> HIDE DEF ps
<1>8. ASSUME i = 1 PROVE ParentIn(bin, i) = Null
  <2>1. m = t.root /\ Parent(t, t.root) = Null /\ Null \notin H
    BY <1>1, <1>2, <1>8, NotWreck DEF Linked
  <2>2. \A j \in 1..N : j \notin ps
    <3> TAKE j \in 1..N
    <3> SUFFICES ASSUME NEW x \in 1..KidCount(t, order[j]), Kid(t, order[j], x) = m PROVE FALSE
      BY <1>4
    <3>1. order[j] \in H
      BY <1>3
    <3>2. Parent(t, Kid(t, order[j], x)) = order[j]
      BY <3>1, KidFacts
    <3>3. QED
      BY <2>1, <3>1, <3>2
  <2>3. ps = {}
    BY <1>6, <2>2
  <2>4. QED
    BY <1>5, <2>3
<1>9. ASSUME i # 1 
      PROVE  ParentIn(bin, i) \in 1..N /\ order[ParentIn(bin, i)] = Parent(t, m)
  <2>1. m # t.root
    BY <1>2, <1>9 DEF Distinct
  <2>2. Parent(t, m) \in H /\ \E x \in 1..KidCount(t, Parent(t, m)) : Kid(t, Parent(t, m), x) = m
    BY <1>1, <1>7, <2>1 DEF Linked
  <2>3. PICK q \in 1..N : order[q] = Parent(t, m)
    <3>1. Parent(t, m) \in Within(order)
      BY <1>2, <2>2
    <3>2. QED
      BY <3>1, WithinIs
  <2>4. q \in ps
    BY <1>4, <2>2, <2>3
  <2>5. \A j \in 1..N : j \in ps => order[j] = Parent(t, m)
    <3> TAKE j \in 1..N
    <3> SUFFICES ASSUME NEW x \in 1..KidCount(t, order[j]), Kid(t, order[j], x) = m
                 PROVE  order[j] = Parent(t, m)
      BY <1>4
    <3>1. order[j] \in H
      BY <1>3
    <3>2. Parent(t, Kid(t, order[j], x)) = order[j]
      BY <3>1, KidFacts
    <3>3. QED
      BY <3>2
  <2>6. ps \in SUBSET Nat /\ ps # {}
    BY <1>6, <2>4
  <2>7. Min(ps) \in ps
    BY <2>6, MinIs
  <2>8. ParentIn(bin, i) = Min(ps)
    BY <1>5, <2>6
  <2>9. Min(ps) \in 1..N
    BY <1>6, <2>7
  <2>10. QED
    BY <2>5, <2>7, <2>8, <2>9
<1>10. QED
  BY <1>8, <1>9

\* Node i of v is node order[i] of t.
RenamedNode(t, v, order, i) ==
    /\ Leaf(v, i) = Leaf(t, order[i])
    /\ Ents(v, i) = Ents(t, order[i])
    /\ Kids(v, i) \in Seq(1..Len(order))
    /\ KidCount(v, i) = KidCount(t, order[i])
    /\ \A j \in 1..KidCount(t, order[i]) :
        Kid(v, i, j) \in 1..Len(order) /\ order[Kid(v, i, j)] = Kid(t, order[i], j)
    /\ i = 1 => Parent(v, i) = Null
    /\ i # 1 => Parent(v, i) \in 1..Len(order) /\ order[Parent(v, i)] = Parent(t, order[i])

\* v is t with node order[i] at address i.
Renamed(t, v, order) ==
    /\ order \in Seq(Heap(t)) /\ Distinct(order) /\ Within(order) = Heap(t)
    /\ 1 =< Len(order) /\ order[1] = t.root
    /\ v.root = 1 /\ Heap(v) = 1..Len(order)
    /\ \A i \in 1..Len(order) : RenamedNode(t, v, order, i)

\* parse_tree reads the tree back that btree_to_bin wrote.
LEMMA ParsedRenamed ==
    ASSUME NEW t, NEW level, NEW span, Formed(t, level, span),
           NEW order, order = Preorder(t, t.root)
    PROVE  Renamed(t, ParseTree(ToBin(t)), order)
<1> DEFINE bin == ToBin(t)
           v == ParseTree(bin)
           N == Len(order)
<1>1. /\ order \in Seq(Heap(t)) /\ Distinct(order) /\ Within(order) = Heap(t)
      /\ 1 =< N /\ order[1] = t.root
  BY PreorderFacts
<1> HIDE DEF bin
<1>2. Filed(t, order, bin)
  BY BinFacts DEF bin
<1>3. /\ N \in Nat /\ DOMAIN bin = 1..N /\ Len(bin) = N
      /\ \A i \in 1..N :
        /\ order[i] \in Heap(t)
        /\ bin[i].leaf = Leaf(t, order[i]) /\ bin[i].ents = Ents(t, order[i])
        /\ bin[i].kids \in Seq(1..N)
        /\ Len(bin[i].kids) = KidCount(t, order[i])
        /\ \A j \in 1..KidCount(t, order[i]) :
            /\ bin[i].kids[j] \in 1..N
            /\ order[bin[i].kids[j]] = Kid(t, order[i], j)
  BY <1>2, Zenon DEF Filed
<1>4. bin # <<>>
  BY <1>1, <1>3
<1>5. v.root = 1 /\ v.node = [i \in 1..N |-> NewNode(bin[i].leaf, bin[i].ents, bin[i].kids, ParentIn(bin, i))]
  BY <1>3, <1>4 DEF ParseTree
<1> HIDE DEF v
<1>6. Heap(v) = 1..N
  BY <1>5 DEF Heap
<1>7. ASSUME NEW i \in 1..N
      PROVE  RenamedNode(t, v, order, i)
  <2>1. v.node[i] = NewNode(bin[i].leaf, bin[i].ents, bin[i].kids, ParentIn(bin, i))
    BY <1>5
  <2>2. /\ Leaf(v, i) = bin[i].leaf /\ Ents(v, i) = bin[i].ents
        /\ Kids(v, i) = bin[i].kids /\ Parent(v, i) = ParentIn(bin, i)
    BY <2>1, NodeFacts
  <2>3. Leaf(v, i) = Leaf(t, order[i]) /\ Ents(v, i) = Ents(t, order[i])
    BY <1>3, <2>2
  <2>4. Kids(v, i) \in Seq(1..N) /\ KidCount(v, i) = KidCount(t, order[i])
    BY <1>3, <2>2 DEF KidCount
  <2>5. \A j \in 1..KidCount(t, order[i]) :
            Kid(v, i, j) \in 1..N /\ order[Kid(v, i, j)] = Kid(t, order[i], j)
    BY <1>3, <2>2 DEF Kid
  <2>6. /\ i = 1 => ParentIn(bin, i) = Null
        /\ i # 1 => /\ ParentIn(bin, i) \in 1..Len(order)
                    /\ order[ParentIn(bin, i)] = Parent(t, order[i])
    BY <1>2, ParentInFacts
  <2>7. QED
    BY <2>2, <2>3, <2>4, <2>5, <2>6 DEF RenamedNode
<1>8. Renamed(t, v, order)
  <2>1. \A i \in 1..Len(order) : RenamedNode(t, v, order, i)
    BY <1>7
  <2>2. v.root = 1 /\ Heap(v) = 1..Len(order)
    BY <1>5, <1>6
  <2>3. QED
    BY <1>1, <2>1, <2>2, Zenon DEF Renamed
<1>9. QED
  BY <1>8 DEF v, bin

\* A tree at other addresses is as good, and holds the same.
LEMMA RenamedTyped ==
    ASSUME NEW t, NEW v, NEW order, Renamed(t, v, order), Typed(t)
    PROVE  Typed(v)
<1> DEFINE N == Len(order)
<1>1. N \in Nat /\ 1 =< N
  <2>1. order \in Seq(Heap(t)) /\ 1 =< N
    BY Zenon DEF Renamed, RenamedNode
  <2>2. QED
    BY <2>1
<1>2. IsFiniteSet(1..N)
  <2>1. 1 \in Int /\ N \in Int
    BY <1>1
  <2>2. QED
    BY <2>1, FS_Interval
<1>3. Heap(v) = 1..N /\ v.root = 1
  BY DEF Renamed
<1>4. ASSUME NEW i \in 1..N
      PROVE  /\ Leaf(v, i) \in BOOLEAN /\ Ents(v, i) \in Seq(Entry) /\ Kids(v, i) \in Seq(1..N)
             /\ Parent(v, i) \in Nat
  <2>1. order[i] \in Heap(t)
    BY DEF Renamed
  <2>2. Leaf(t, order[i]) \in BOOLEAN /\ Ents(t, order[i]) \in Seq(Entry)
    BY <2>1, TypedFacts
  <2>3. Leaf(v, i) = Leaf(t, order[i]) /\ Ents(v, i) = Ents(t, order[i]) /\ Kids(v, i) \in Seq(1..N)
    BY Zenon DEF Renamed, RenamedNode
  <2>4. (i = 1 => Parent(v, i) = Null) /\ (i # 1 => Parent(v, i) \in 1..N)
    BY Zenon DEF Renamed, RenamedNode
  <2>5. Parent(v, i) \in Nat
    BY <1>1, <2>4 DEF Null
  <2>6. Leaf(v, i) \in BOOLEAN
    BY <2>2, <2>3, Zenon
  <2>7. QED
    BY <2>2, <2>3, <2>5, <2>6
<1>5. 1..N \subseteq Nat \ {0} /\ 1 \in 1..N
  BY <1>1
<1>6. QED
  BY <1>2, <1>3, <1>4, <1>5, Zenon DEF Typed

\* The levels are the same at other addresses.
LEMMA RenamedLinked ==
    ASSUME NEW t, NEW v, NEW order, Renamed(t, v, order),
           NEW level, NEW span, Formed(t, level, span)
    PROVE  Linked(v, [i \in Heap(v) |-> level[order[i]]])
<1> DEFINE N == Len(order)
           level2 == [i \in Heap(v) |-> level[order[i]]]
<1>1. Typed(t) /\ Linked(t, level)
  BY DEF Formed
<1>2. /\ order \in Seq(Heap(t)) /\ N \in Nat /\ 1 =< N /\ order[1] = t.root
      /\ v.root = 1 /\ Heap(v) = 1..N
      /\ \A i \in 1..N : order[i] \in Heap(t)
      /\ \A i, j \in 1..N : order[i] = order[j] => i = j
  BY DEF Renamed, Distinct
<1>3. \A i \in 1..N :
        /\ Leaf(v, i) = Leaf(t, order[i])
        /\ KidCount(v, i) = KidCount(t, order[i])
        /\ \A j \in 1..KidCount(t, order[i]) :
            Kid(v, i, j) \in 1..N /\ order[Kid(v, i, j)] = Kid(t, order[i], j)
        /\ i = 1 => Parent(v, i) = Null
        /\ i # 1 => Parent(v, i) \in 1..N /\ order[Parent(v, i)] = Parent(t, order[i])
  BY Zenon DEF Renamed, RenamedNode
<1>4. \A i \in 1..N : KeyCount(v, i) = KeyCount(t, order[i])
  <2>1. \A i \in 1..N : Ents(v, i) = Ents(t, order[i])
    BY Zenon DEF Renamed, RenamedNode
  <2>2. QED
    BY <2>1, SameEnts
<1>5. level2 \in [Heap(v) -> Nat] /\ \A i \in 1..N : level2[i] = level[order[i]]
  BY <1>1, <1>2 DEF Linked
<1>6. Parent(v, v.root) = Null
  BY <1>2, <1>3
<1> HIDE DEF level2, N
<1>7. ASSUME NEW i \in 1..N
      PROVE  /\ level2[i] =< level2[v.root]
             /\ Leaf(v, i) <=> level2[i] = 0
             /\ KidCount(v, i) = IF Leaf(v, i) THEN 0 ELSE KeyCount(v, i) + 1
             /\ \A j \in 1..KidCount(v, i) :
                /\ level2[Kid(v, i, j)] = level2[i] - 1
                /\ Parent(v, Kid(v, i, j)) = i
                /\ \A l \in 1..KidCount(v, i) : Kid(v, i, j) = Kid(v, i, l) => j = l
             /\ i # v.root =>
                /\ Parent(v, i) \in Heap(v)
                /\ \E j \in 1..KidCount(v, Parent(v, i)) : Kid(v, Parent(v, i), j) = i
  <2> DEFINE n == order[i]
  <2>1. n \in Heap(t)
    BY <1>2
  <2>2. /\ level[n] =< level[t.root]
        /\ Leaf(t, n) <=> level[n] = 0
        /\ KidCount(t, n) = IF Leaf(t, n) THEN 0 ELSE KeyCount(t, n) + 1
        /\ n # t.root =>
            /\ Parent(t, n) \in Heap(t)
            /\ \E j \in 1..KidCount(t, Parent(t, n)) : Kid(t, Parent(t, n), j) = n
    BY <1>1, <2>1, Zenon DEF Linked
  <2>3. Leaf(v, i) = Leaf(t, n) /\ KidCount(v, i) = KidCount(t, n) /\ KeyCount(v, i) = KeyCount(t, n)
    BY <1>3, <1>4
  <2>4. \A j \in 1..KidCount(t, n) :
            /\ Kid(t, n, j) \in Heap(t) /\ Parent(t, Kid(t, n, j)) = n
            /\ level[Kid(t, n, j)] = level[n] - 1
            /\ \A l \in 1..KidCount(t, n) : Kid(t, n, j) = Kid(t, n, l) => j = l
    BY <2>1, KidFacts
  <2>5. level2[i] = level[n] /\ level2[v.root] = level[t.root]
    BY <1>2, <1>5
  <2>6. level2[i] =< level2[v.root]
    BY <2>2, <2>5
  <2>7. Leaf(v, i) <=> level2[i] = 0
    BY <2>2, <2>3, <2>5, Zenon
  <2>8. KidCount(v, i) = IF Leaf(v, i) THEN 0 ELSE KeyCount(v, i) + 1
    BY <2>2, <2>3, Zenon
  <2>9. \A j \in 1..KidCount(t, n) : Kid(v, i, j) \in 1..N /\ order[Kid(v, i, j)] = Kid(t, n, j)
    BY <1>3
  <2>10. ASSUME NEW j \in 1..KidCount(v, i)
         PROVE  /\ level2[Kid(v, i, j)] = level2[i] - 1
                /\ Parent(v, Kid(v, i, j)) = i
                /\ \A l \in 1..KidCount(v, i) : Kid(v, i, j) = Kid(v, i, l) => j = l
    <3> DEFINE c == Kid(v, i, j)
    <3>1. j \in 1..KidCount(t, n)
      BY <2>3
    <3>2. c \in 1..N /\ order[c] = Kid(t, n, j)
      BY <2>9, <3>1
    <3>3. /\ Parent(t, order[c]) = n /\ level[order[c]] = level[n] - 1
          /\ \A l \in 1..KidCount(t, n) : order[c] = Kid(t, n, l) => j = l
      BY <2>4, <3>1, <3>2
    <3>4. level2[c] = level2[i] - 1
      BY <1>5, <2>5, <3>2, <3>3
    <3>5. \A l \in 1..KidCount(v, i) : c = Kid(v, i, l) => j = l
      BY <2>3, <2>9, <3>3
    <3>6. Null \notin Heap(t) /\ Parent(t, t.root) = Null
      BY <1>1, NotWreck DEF Linked
    <3>7. c # 1
      <4>1. SUFFICES ASSUME c = 1 PROVE FALSE
        OBVIOUS
      <4>2. order[c] = t.root
        BY <1>2, <4>1
      <4>3. n = Null
        BY <3>3, <3>6, <4>2
      <4>4. QED
        BY <2>1, <3>6, <4>3
    <3>8. Parent(v, c) \in 1..N /\ order[Parent(v, c)] = n
      BY <1>3, <3>2, <3>3, <3>7
    <3>9. Parent(v, c) = i
      BY <1>2, <3>8
    <3>10. QED
      BY <3>4, <3>5, <3>9
  <2>11. ASSUME i # v.root
         PROVE  /\ Parent(v, i) \in Heap(v)
                /\ \E j \in 1..KidCount(v, Parent(v, i)) : Kid(v, Parent(v, i), j) = i
    <3> DEFINE q == Parent(v, i)
    <3>1. i # 1 /\ n # t.root
      BY <1>2, <2>11
    <3>2. q \in 1..N /\ order[q] = Parent(t, n)
      BY <1>3, <3>1
    <3>3. PICK j \in 1..KidCount(t, order[q]) : Kid(t, order[q], j) = n
      BY <2>2, <3>1, <3>2
    <3>4. KidCount(v, q) = KidCount(t, order[q])
          /\ Kid(v, q, j) \in 1..N /\ order[Kid(v, q, j)] = Kid(t, order[q], j)
      BY <1>3, <3>2, <3>3
    <3>5. Kid(v, q, j) = i
      BY <1>2, <3>3, <3>4
    <3>6. j \in 1..KidCount(v, q)
      BY <3>4
    <3>7. q \in Heap(v)
      BY <1>2, <3>2
    <3> HIDE DEF q
    <3>8. \E l \in 1..KidCount(v, q) : Kid(v, q, l) = i
      BY <3>5, <3>6
    <3>9. QED
      BY <3>7, <3>8 DEF q
  <2>12. QED
    BY <2>6, <2>7, <2>8, <2>10, <2>11
<1>8. Linked(v, level2)
  <2>1. \A i \in Heap(v) :
             /\ level2[i] =< level2[v.root]
             /\ Leaf(v, i) <=> level2[i] = 0
             /\ KidCount(v, i) = IF Leaf(v, i) THEN 0 ELSE KeyCount(v, i) + 1
             /\ \A j \in 1..KidCount(v, i) :
                /\ level2[Kid(v, i, j)] = level2[i] - 1
                /\ Parent(v, Kid(v, i, j)) = i
                /\ \A l \in 1..KidCount(v, i) : Kid(v, i, j) = Kid(v, i, l) => j = l
             /\ i # v.root =>
                /\ Parent(v, i) \in Heap(v)
                /\ \E j \in 1..KidCount(v, Parent(v, i)) : Kid(v, Parent(v, i), j) = i
    BY <1>2, <1>7, Zenon
  <2>2. QED
    BY <1>5, <1>6, <2>1, Zenon DEF Linked
<1>9. QED
  BY <1>8 DEF level2

\* And so are the spans.
LEMMA RenamedSpanned ==
    ASSUME NEW t, NEW v, NEW order, Renamed(t, v, order),
           NEW level, NEW span, Formed(t, level, span)
    PROVE  Spanned(v, [i \in Heap(v) |-> span[order[i]]])
<1> DEFINE N == Len(order)
           span2 == [i \in Heap(v) |-> span[order[i]]]
<1>1. Typed(t) /\ Spanned(t, span)
  BY DEF Formed
<1>2. /\ order \in Seq(Heap(t)) /\ N \in Nat /\ 1 =< N /\ order[1] = t.root
      /\ v.root = 1 /\ Heap(v) = 1..N
      /\ \A i \in 1..N : order[i] \in Heap(t)
  BY DEF Renamed
<1>3. \A i \in 1..N :
        /\ Ents(v, i) = Ents(t, order[i])
        /\ KidCount(v, i) = KidCount(t, order[i])
        /\ \A j \in 1..KidCount(t, order[i]) :
            Kid(v, i, j) \in 1..N /\ order[Kid(v, i, j)] = Kid(t, order[i], j)
  BY Zenon DEF Renamed, RenamedNode
<1>4. \A i \in 1..N :
        /\ KeyCount(v, i) = KeyCount(t, order[i])
        /\ \A j : KeyAt(v, i, j) = KeyAt(t, order[i], j)
        /\ \A j, x : Between(v, i, j, x) <=> Between(t, order[i], j, x)
  BY <1>3, SameEnts
<1>5. span2 \in [Heap(v) -> SUBSET Key] /\ \A i \in 1..N : span2[i] = span[order[i]]
  BY <1>1, <1>2 DEF Spanned
<1>6. span2[v.root] = Key
  BY <1>1, <1>2, <1>5 DEF Spanned
<1> HIDE DEF span2, N
<1>7. ASSUME NEW i \in 1..N
      PROVE  /\ \A j \in 1..KeyCount(v, i) :
                /\ KeyAt(v, i, j) \in span2[i]
                /\ \A l \in 1..KeyCount(v, i) : j < l => KeyAt(v, i, j) < KeyAt(v, i, l)
             /\ \A j \in 1..KidCount(v, i) : \A x \in Key :
                x \in span2[Kid(v, i, j)] <=> x \in span2[i] /\ Between(v, i, j, x)
  <2> DEFINE n == order[i]
  <2>1. n \in Heap(t)
    BY <1>2
  <2>2. \A j \in 1..KeyCount(t, n) :
            /\ KeyAt(t, n, j) \in span[n]
            /\ \A l \in 1..KeyCount(t, n) : j < l => KeyAt(t, n, j) < KeyAt(t, n, l)
    BY <1>1, <2>1, KeyFacts
  <2>3. \A j \in 1..KidCount(t, n) : \A x \in Key :
                x \in span[Kid(t, n, j)] <=> x \in span[n] /\ Between(t, n, j, x)
    BY <2>1, KidFacts
  <2>4. /\ KeyCount(v, i) = KeyCount(t, n)
        /\ \A j : KeyAt(v, i, j) = KeyAt(t, n, j)
        /\ \A j, x : Between(v, i, j, x) <=> Between(t, n, j, x)
        /\ KidCount(v, i) = KidCount(t, n)
        /\ span2[i] = span[n]
    BY <1>3, <1>4, <1>5
  <2>5. \A j \in 1..KeyCount(v, i) :
                /\ KeyAt(v, i, j) \in span2[i]
                /\ \A l \in 1..KeyCount(v, i) : j < l => KeyAt(v, i, j) < KeyAt(v, i, l)
    BY <2>2, <2>4
  <2>6. ASSUME NEW j \in 1..KidCount(v, i), NEW x \in Key
        PROVE  x \in span2[Kid(v, i, j)] <=> x \in span2[i] /\ Between(v, i, j, x)
    <3>1. j \in 1..KidCount(t, n)
      BY <2>4
    <3>2. Kid(v, i, j) \in 1..N /\ order[Kid(v, i, j)] = Kid(t, n, j)
      BY <1>3, <3>1
    <3>3. span2[Kid(v, i, j)] = span[Kid(t, n, j)]
      BY <1>5, <3>2
    <3>4. x \in span[Kid(t, n, j)] <=> x \in span[n] /\ Between(t, n, j, x)
      BY <2>3, <3>1
    <3>5. QED
      BY <2>4, <3>3, <3>4, Zenon
  <2>7. QED
    BY <2>5, <2>6
<1>8. Spanned(v, span2)
  <2>1. \A i \in Heap(v) :
             /\ \A j \in 1..KeyCount(v, i) :
                /\ KeyAt(v, i, j) \in span2[i]
                /\ \A l \in 1..KeyCount(v, i) : j < l => KeyAt(v, i, j) < KeyAt(v, i, l)
             /\ \A j \in 1..KidCount(v, i) : \A x \in Key :
                x \in span2[Kid(v, i, j)] <=> x \in span2[i] /\ Between(v, i, j, x)
    BY <1>2, <1>7, Zenon
  <2>2. QED
    BY <1>5, <1>6, <2>1, Zenon DEF Spanned
<1>9. QED
  BY <1>8 DEF span2

\* What a statement leaves on disk is in the next one a tree as good.
LEMMA ParseGood ==
    ASSUME NEW t, Good(t), NEW v, v = ParseTree(ToBin(t))
    PROVE  Good(v) /\ Held(v) = Held(t)
<1>1. PICK level, span : Formed(t, level, span)
  BY DEF Good
<1>2. Sized(t) /\ Typed(t)
  BY <1>1 DEF Good, Formed
<1> DEFINE order == Preorder(t, t.root)
           N == Len(order)
<1>3. Renamed(t, v, order)
  BY <1>1, ParsedRenamed
<1> HIDE DEF order
<1>4. Typed(v)
  BY <1>2, <1>3, RenamedTyped
<1>5. \E level2 : Linked(v, level2)
  BY <1>1, <1>3, RenamedLinked
<1>6. \E span2 : Spanned(v, span2)
  BY <1>1, <1>3, RenamedSpanned
<1>7. \E level2, span2 : Formed(v, level2, span2)
  BY <1>4, <1>5, <1>6 DEF Formed
<1>8. /\ order \in Seq(Heap(t)) /\ N \in Nat /\ order[1] = t.root
      /\ v.root = 1 /\ Heap(v) = 1..N
      /\ 1 =< N
      /\ \A i \in 1..N : order[i] \in Heap(t)
      /\ \A i, j \in 1..N : order[i] = order[j] => i = j
      /\ Within(order) = Heap(t)
  BY <1>3 DEF Renamed, Distinct
<1>9. \A i \in 1..N : Leaf(v, i) = Leaf(t, order[i]) /\ Ents(v, i) = Ents(t, order[i])
  BY <1>3, Zenon DEF Renamed, RenamedNode
<1>10. \A i \in 1..N :
        /\ KeyCount(v, i) = KeyCount(t, order[i])
        /\ \A j : EntAt(v, i, j) = EntAt(t, order[i], j)
  BY <1>9, SameEnts
<1>11. Sized(v)
  <2>1. ASSUME NEW i \in Heap(v)
        PROVE  /\ KeyCount(v, i) =< MaxKeys
               /\ i # v.root => MinKeys =< KeyCount(v, i)
               /\ ~Leaf(v, i) => 1 =< KeyCount(v, i)
    <3>1. i \in 1..N /\ order[i] \in Heap(t) /\ KeyCount(v, i) = KeyCount(t, order[i])
      BY <1>8, <1>10, <2>1
    <3>2. i # v.root => order[i] # t.root
      BY <1>8, <3>1
    <3>3. Leaf(v, i) = Leaf(t, order[i])
      BY <1>9, <3>1
    <3>4. /\ KeyCount(t, order[i]) =< MaxKeys
          /\ order[i] # t.root => MinKeys =< KeyCount(t, order[i])
          /\ ~Leaf(t, order[i]) => 1 =< KeyCount(t, order[i])
      BY <1>2, <3>1 DEF Sized
    <3>5. QED
      BY <3>1, <3>2, <3>3, <3>4, Zenon
  <2>2. QED
    BY <2>1 DEF Sized
<1>12. \A e : e \in Held(v) <=> e \in Held(t)
  <2> TAKE e
  <2>1. e \in Held(v) <=> \E i \in 1..N : \E j \in 1..KeyCount(v, i) : EntAt(v, i, j) = e
    BY <1>4, <1>8, HeldFacts
  <2>2. e \in Held(t) <=> \E n \in Heap(t) : \E j \in 1..KeyCount(t, n) : EntAt(t, n, j) = e
    BY <1>2, HeldFacts
  <2>3. \A i \in 1..N : (\E j \in 1..KeyCount(v, i) : EntAt(v, i, j) = e)
                        <=> \E j \in 1..KeyCount(t, order[i]) : EntAt(t, order[i], j) = e
    BY <1>10
  <2>4. \A n \in Heap(t) : \E i \in 1..N : order[i] = n
    BY <1>8, WithinIs
  <2>5. \A i \in 1..N : order[i] \in Heap(t)
    BY <1>8
  <2>6. e \in Held(v) => e \in Held(t)
    BY <2>1, <2>2, <2>3, <2>5, Zenon
  <2>7. ASSUME e \in Held(t) PROVE e \in Held(v)
    <3>1. PICK n \in Heap(t) : \E j \in 1..KeyCount(t, n) : EntAt(t, n, j) = e
      BY <2>2, <2>7
    <3>2. PICK i \in 1..N : order[i] = n
      BY <2>4
    <3>3. QED
      BY <2>1, <2>3, <3>1, <3>2
  <2>8. QED
    BY <2>6, <2>7
<1>13. Held(v) = Held(t)
  BY <1>12
<1>14. QED
  BY <1>7, <1>11, <1>13 DEF Good

(***************************************************************************)
(* The specification.                                                      *)
(***************************************************************************)
\* The inductive invariant: no tree, or one that is in order.
TreeInv == tree = EmptyTree \/ Good(tree)

\* What the steps need to know of a tree that is in order.
LEMMA GoodFacts ==
    ASSUME NEW t, Good(t)
    PROVE  /\ Typed(t) /\ t.root # Null /\ Null \notin Heap(t)
           /\ \A e \in Held(t) : e \in Entry
           /\ \A k \in Key : /\ \A e \in Held(t) : e.key = k => Search(t, k) = e.off
                             /\ (\A e \in Held(t) : e.key # k) => Search(t, k) = 0
                             /\ Search(t, k) = 0 => \A e \in Held(t) : e.key # k
                             /\ Search(t, k) > 0 => \E e \in Held(t) : e.key = k
                             /\ Search(t, k) # Lost
<1>1. PICK level, span : Formed(t, level, span)
  BY DEF Good
<1>2. Typed(t)
  BY <1>1 DEF Formed
<1>3. t.root # Null /\ Null \notin Heap(t)
  BY <1>2, NotWreck
<1>4. \A e \in Held(t) : e \in Entry
  <2> TAKE e \in Held(t)
  <2>1. PICK n \in Heap(t) : \E i \in 1..KeyCount(t, n) : EntAt(t, n, i) = e
    BY <1>2, HeldFacts
  <2>2. QED
    BY <1>2, <2>1, TypedFacts
<1>5. ASSUME NEW k \in Key
      PROVE  /\ \A e \in Held(t) : e.key = k => Search(t, k) = e.off
             /\ (\A e \in Held(t) : e.key # k) => Search(t, k) = 0
             /\ Search(t, k) = 0 => \A e \in Held(t) : e.key # k
             /\ Search(t, k) > 0 => \E e \in Held(t) : e.key = k
             /\ Search(t, k) # Lost
  <2>1. \A e \in Held(t) : e.key = k => Search(t, k) = e.off /\ Search(t, k) > 0
    BY <1>1, SearchFormed
  <2>2. (\A e \in Held(t) : e.key # k) => Search(t, k) = 0
    BY <1>1, SearchFormed
  <2> DEFINE s == Search(t, k)
  <2> HIDE DEF s
  <2>3. ASSUME NEW e \in Held(t), e.key = k PROVE s # 0 /\ s # Lost
    <3>1. s = e.off
      BY <2>1, <2>3 DEF s
    <3>2. e.off \in Nat \ {0}
      BY <1>4, BTreeAssumption DEF Entry
    <3>3. QED
      BY <3>1, <3>2 DEF Lost
  <2>4. s = 0 => ~(s > 0) /\ s # Lost
    BY DEF Lost
  <2>5. QED
    BY <2>1, <2>2, <2>3, <2>4 DEF s
<1>6. QED
  BY <1>2, <1>3, <1>4, <1>5

\* The empty tree.
LEMMA NoTree ==
    /\ EmptyTree.root = Null /\ Heap(EmptyTree) = {} /\ Held(EmptyTree) = {}
    /\ \A k : Search(EmptyTree, k) = 0
<1>1. EmptyTree.root = Null /\ Heap(EmptyTree) = {}
  BY DEF EmptyTree, Heap
<1>2. Held(EmptyTree) = {}
  BY <1>1 DEF Held
<1>3. \A k : Search(EmptyTree, k) = 0
  BY <1>1 DEF Search
<1>4. QED
  BY <1>1, <1>2, <1>3

\* The steps of the index, on a tree that is in order or empty.
LEMMA InsertTree ==
    ASSUME NEW t, t = EmptyTree \/ Good(t), NEW k \in Key, NEW o \in Offset, Search(t, k) = 0,
           NEW u, u = Inserted(t, k, o)
    PROVE  /\ Good(u) /\ Held(u) = Held(t) \cup {[key |-> k, off |-> o]}
           /\ \A e \in Held(t) : e.key # k
<1>1. CASE t = EmptyTree
  <2>1. t.root = Null /\ Held(t) = {}
    BY <1>1, NoTree
  <2>2. Good(u) /\ Held(u) = {[key |-> k, off |-> o]}
    BY <2>1, FirstGood
  <2>3. QED
    BY <2>1, <2>2
<1>2. CASE Good(t)
  <2>1. \A e \in Held(t) : e.key # k
    BY <1>2, GoodFacts
  <2>2. QED
    BY <1>2, <2>1, InsertGood
<1>3. QED
  BY <1>1, <1>2

\* btree_delete, after a search that has found the key.
LEMMA DeleteTree ==
    ASSUME NEW t, t = EmptyTree \/ Good(t), NEW k \in Key, Search(t, k) > 0,
           Descent(t, k).sound, NEW u, u = Deleted(t, k)
    PROVE  Good(u) /\ \E e \in Held(t) : e.key = k /\ Held(u) = Held(t) \ {e}
<1>1. t # EmptyTree
  <2>1. SUFFICES ASSUME t = EmptyTree PROVE FALSE
    OBVIOUS
  <2>2. Search(t, k) = 0
    BY <2>1, NoTree
  <2>3. QED
    BY <2>2
<1>2. Good(t)
  BY <1>1
<1>3. PICK e \in Held(t) : e.key = k
  BY <1>2, GoodFacts
<1>4. Good(u) /\ Held(u) = Held(t) \ {e}
  BY <1>2, <1>3, DeleteGood
<1>5. QED
  BY <1>3, <1>4

\* btree_save, and btree_load in the next statement.
LEMMA ReloadTree ==
    ASSUME NEW t, t = EmptyTree \/ Good(t), t # EmptyTree,
           NEW u, u = Reloaded(t)
    PROVE  Good(u) /\ Held(u) = Held(t)
<1>1. Good(t)
  OBVIOUS
<1>2. ~HasGap(t)
  <2>1. Typed(t) /\ Null \notin Heap(t)
    BY <1>1, GoodFacts
  <2>2. \A n \in Heap(t) : ToSet(Kids(t, n)) \subseteq Heap(t)
    <3> TAKE n \in Heap(t)
    <3>1. Kids(t, n) \in Seq(Heap(t))
      BY <2>1, TypedFacts
    <3>2. QED
      BY <3>1 DEF ToSet
  <2>3. QED
    BY <2>1, <2>2 DEF HasGap
<1>3. u = ParseTree(ToBin(t))
  BY <1>2 DEF Reloaded
<1>4. QED
  BY <1>1, <1>3, ParseGood

\* Contents, before and after a step.
LEMMA ContentsHeld == Contents = Held(tree) /\ Contents' = Held(tree')
  BY DEF Contents

\* Each step keeps the tree in order.
LEMMA TreeStep ==
    ASSUME TreeInv, SoundNext
    PROVE  TreeInv'
<1>0. tree = EmptyTree \/ Good(tree)
  BY DEF TreeInv
<1>1. ASSUME NEW k \in Key, NEW o \in Offset, Insert(k, o)
      PROVE  TreeInv'
  <2>1. Search(tree, k) = 0 /\ tree' = Inserted(tree, k, o)
    BY <1>1 DEF Insert
  <2>2. Good(tree')
    BY <1>0, <2>1, InsertTree
  <2>3. QED
    BY <2>2 DEF TreeInv
<1>2. ASSUME NEW k \in Key, SoundDelete(k)
      PROVE  TreeInv'
  <2>1. Search(tree, k) > 0 /\ Descent(tree, k).sound /\ tree' = Deleted(tree, k)
    BY <1>2 DEF SoundDelete, Delete
  <2>2. Good(tree')
    BY <1>0, <2>1, DeleteTree
  <2>3. QED
    BY <2>2 DEF TreeInv
<1>3. ASSUME Reload
      PROVE  TreeInv'
  <2>1. tree # EmptyTree /\ tree' = Reloaded(tree)
    BY <1>3 DEF Reload
  <2>2. Good(tree')
    BY <1>0, <2>1, ReloadTree
  <2>3. QED
    BY <2>2 DEF TreeInv
<1>4. QED
  BY <1>1, <1>2, <1>3 DEF SoundNext

\* Whatever is inserted, deleted and reloaded, as long as the deletions are
\* those the code gets right, the tree is in order: typed, linked, sorted, and
\* no node too full or too empty.
THEOREM TreeInductive == SoundSpec => []TreeInv
<1>1. Init => TreeInv
  BY DEF Init, TreeInv
<1>2. TreeInv /\ [SoundNext]_tree => TreeInv'
  <2> SUFFICES ASSUME TreeInv, [SoundNext]_tree PROVE TreeInv'
    OBVIOUS
  <2>1. CASE SoundNext
    BY <2>1, TreeStep
  <2>2. CASE UNCHANGED tree
    BY <2>2 DEF TreeInv
  <2>3. QED
    BY <2>1, <2>2
<1>3. QED
  BY <1>1, <1>2, PTL DEF SoundSpec

\* What a search answers, of a tree that is in order or empty.
LEMMA SearchTree ==
    ASSUME NEW t, t = EmptyTree \/ Good(t), NEW k \in Key
    PROVE  /\ \A e \in Held(t) : e.key = k => Search(t, k) > 0
           /\ (\A e \in Held(t) : e.key # k) => Search(t, k) = 0
<1>1. CASE t = EmptyTree
  BY <1>1, NoTree
<1>2. CASE Good(t)
  <2>1. ASSUME NEW e \in Held(t), e.key = k PROVE Search(t, k) > 0
    <3>1. Search(t, k) = e.off
      BY <1>2, <2>1, GoodFacts
    <3>2. e \in Entry
      BY <1>2, GoodFacts
    <3>3. e.off \in Nat \ {0}
      BY <3>2, BTreeAssumption DEF Entry
    <3>4. QED
      BY <3>1, <3>3
  <2>2. (\A e \in Held(t) : e.key # k) => Search(t, k) = 0
    BY <1>2, GoodFacts
  <2>3. QED
    BY <2>1, <2>2
<1>3. QED
  BY <1>1, <1>2

\* No key is in a tree twice.
LEMMA UniqueTree ==
    ASSUME NEW t, t = EmptyTree \/ Good(t)
    PROVE  Promise!Unique(Held(t))
<1>1. SUFFICES ASSUME NEW e \in Held(t), NEW f \in Held(t), e.key = f.key PROVE e = f
  BY DEF Promise!Unique
<1>2. Good(t)
  BY <1>1, NoTree
<1>3. e \in Entry /\ f \in Entry
  BY <1>2, GoodFacts
<1>4. e.off = f.off
  <2>1. e.key \in Key
    BY <1>3 DEF Entry
  <2>2. Search(t, e.key) = e.off /\ Search(t, e.key) = f.off
    BY <1>1, <1>2, <2>1, GoodFacts
  <2>3. QED
    BY <2>2
<1>5. QED
  BY <1>1, <1>3, <1>4 DEF Entry

\* A tree that is in order is no wreck.
LEMMA GoodMakes ==
    ASSUME NEW t, Good(t)
    PROVE  Makes(t, Held(t))
<1>1. Typed(t)
  BY GoodFacts
<1>2. QED
  BY <1>1, NotWreck DEF Makes

\* The tree is a dictionary: an insertion adds its own key, a deletion takes its own
\* key away, neither touches another or does nothing, and the file holds the same.
THEOREM TreeIsDictionary == SoundSpec => []IsDictionary
<1>1. TreeInv => IsDictionary
  <2> SUFFICES ASSUME TreeInv PROVE IsDictionary
    OBVIOUS
  <2>0. (tree = EmptyTree \/ Good(tree)) /\ Contents = Held(tree)
    BY ContentsHeld DEF TreeInv
  <2>1. Promise!Unique(Contents)
    BY <2>0, UniqueTree
  <2>2. ASSUME NEW k \in Key, Promise!Has(Contents, k), Descent(tree, k).sound
        PROVE  Makes(Rooted(Descent(tree, k).tree), Promise!Without(Contents, k))
    <3>1. Search(tree, k) > 0
      BY <2>0, <2>2, SearchTree DEF Promise!Has
    <3> DEFINE u == Deleted(tree, k)
    <3>2. Good(u) /\ \E e \in Held(tree) : e.key = k /\ Held(u) = Held(tree) \ {e}
      BY <2>0, <2>2, <3>1, DeleteTree
    <3>3. PICK e \in Contents : e.key = k /\ Held(u) = Contents \ {e}
      BY <2>0, <3>2
    <3>4. \A f \in Contents : f.key = k <=> f = e
      BY <2>1, <3>3 DEF Promise!Unique
    <3>5. Held(u) = Promise!Without(Contents, k)
      BY <3>3, <3>4 DEF Promise!Without
    <3>6. Makes(u, Held(u))
      BY <3>2, GoodMakes
    <3>7. QED
      BY <3>5, <3>6 DEF Makes, Deleted
  <2>3. ASSUME NEW k \in Key, ~Promise!Has(Contents, k), NEW o \in Offset
        PROVE  Makes(Inserted(tree, k, o), Promise!With(Contents, k, o))
    <3>1. Search(tree, k) = 0
      BY <2>0, <2>3, SearchTree DEF Promise!Has
    <3> DEFINE u == Inserted(tree, k, o)
    <3>2. Good(u) /\ Held(u) = Contents \cup {[key |-> k, off |-> o]}
      BY <2>0, <3>1, InsertTree
    <3>3. Makes(u, Held(u))
      BY <3>2, GoodMakes
    <3>4. QED
      BY <3>2, <3>3 DEF Promise!With, Makes
  <2>4. ASSUME tree # EmptyTree PROVE Makes(Reloaded(tree), Contents)
    <3> DEFINE u == Reloaded(tree)
    <3>1. Good(u) /\ Held(u) = Contents
      BY <2>0, <2>4, ReloadTree
    <3>2. QED
      BY <3>1, GoodMakes DEF Makes
  <2>5. QED
    BY <2>1, <2>2, <2>3, <2>4 DEF IsDictionary
<1>2. QED
  BY <1>1, TreeInductive, PTL

(***************************************************************************)
(* What the runs check, of a tree that is in order.                        *)
(***************************************************************************)
LEMMA SetOfSeq ==
    ASSUME NEW S, NEW s \in Seq(S)
    PROVE  ToSet(s) = Within(s)
<1>1. DOMAIN s = 1..Len(s)
  OBVIOUS
<1>2. QED
  BY <1>1 DEF ToSet, Within

\* A walk from the root meets every node.
LEMMA PreorderAll ==
    ASSUME NEW t, Good(t)
    PROVE  ToSet(Preorder(t, t.root)) = Heap(t)
<1>1. PICK level, span : Formed(t, level, span)
  BY DEF Good
<1> DEFINE order == Preorder(t, t.root)
<1>2. order \in Seq(Heap(t)) /\ Within(order) = Heap(t)
  BY <1>1, PreorderFacts
<1> HIDE DEF order
<1>3. ToSet(order) = Within(order)
  BY <1>2, SetOfSeq
<1>4. QED
  BY <1>2, <1>3 DEF order

\* What the root reaches is what is allocated.
LEMMA NodesHeap ==
    ASSUME TreeInv
    PROVE  Nodes = Heap(tree) /\ (tree.root # Null => Good(tree))
<1>1. CASE tree = EmptyTree
  BY <1>1, NoTree DEF Nodes
<1>2. CASE Good(tree)
  BY <1>2, PreorderAll, GoodFacts DEF Nodes
<1>3. QED
  BY <1>1, <1>2 DEF TreeInv

\* The children of a node, as a set.
LEMMA KidsSet ==
    ASSUME NEW t, Typed(t), NEW n \in Heap(t), NEW m
    PROVE  m \in ToSet(Kids(t, n)) <=> \E i \in 1..KidCount(t, n) : Kid(t, n, i) = m
<1>1. Kids(t, n) \in Seq(Heap(t))
  BY TypedFacts
<1>2. ToSet(Kids(t, n)) = Within(Kids(t, n))
  BY <1>1, SetOfSeq
<1>3. QED
  BY <1>2, WithinIs DEF KidCount, Kid

\* The entries of a node, as a set.
LEMMA EntsSet ==
    ASSUME NEW t, Typed(t), NEW n \in Heap(t), NEW e
    PROVE  e \in ToSet(Ents(t, n)) <=> \E i \in 1..KeyCount(t, n) : EntAt(t, n, i) = e
<1>1. Ents(t, n) \in Seq(Entry)
  BY TypedFacts
<1>2. ToSet(Ents(t, n)) = Within(Ents(t, n))
  BY <1>1, SetOfSeq
<1>3. QED
  BY <1>2, WithinIs DEF KeyCount, EntAt

\* Parents are right in a tree that is in order.
LEMMA TreeParents ==
    ASSUME TreeInv
    PROVE  ParentsRight
<1>1. Heap(tree) = Nodes
  BY NodesHeap
<1>2. CASE tree = EmptyTree
  BY <1>1, <1>2, NoTree DEF ParentsRight
<1>3. CASE Good(tree)
  <2>1. PICK level, span : Formed(tree, level, span)
    BY <1>3 DEF Good
  <2>2. Typed(tree) /\ Parent(tree, tree.root) = Null
    BY <2>1 DEF Formed, Linked
  <2>3. \A n \in Heap(tree) : \A m \in ToSet(Kids(tree, n)) : Parent(tree, m) = n
    <3> TAKE n \in Heap(tree)
    <3> TAKE m \in ToSet(Kids(tree, n))
    <3>1. PICK i \in 1..KidCount(tree, n) : Kid(tree, n, i) = m
      BY <2>2, KidsSet
    <3>2. Parent(tree, Kid(tree, n, i)) = n
      BY <2>1, KidFacts
    <3>3. QED
      BY <3>1, <3>2
  <2>4. QED
    BY <1>1, <2>2, <2>3 DEF ParentsRight
<1>4. QED
  BY <1>2, <1>3 DEF TreeInv

\* A search is exact in a tree that is in order.
LEMMA TreeSearch ==
    ASSUME TreeInv
    PROVE  SearchExact
<1> SUFFICES ASSUME NEW k \in Key
             PROVE  LET found == {e.off : e \in {f \in Contents : f.key = k}}
                    IN  IF found = {} THEN Search(tree, k) = 0 ELSE found = {Search(tree, k)}
  BY DEF SearchExact
<1> DEFINE H == Held(tree)
           found == {e.off : e \in {f \in H : f.key = k}}
           s == Search(tree, k)
<1>1. /\ \A e \in H : e.key = k => s = e.off
      /\ (\A e \in H : e.key # k) => s = 0
  <2>1. CASE tree = EmptyTree
    BY <2>1, NoTree
  <2>2. CASE Good(tree)
    BY <2>2, GoodFacts
  <2>3. QED
    BY <2>1, <2>2 DEF TreeInv
<1> HIDE DEF H, s
<1>2. found = {} => s = 0
  BY <1>1
<1>3. found # {} => found = {s}
  <2>1. \A x \in found : x = s
    BY <1>1
  <2>2. QED
    BY <2>1
<1>4. (IF found = {} THEN s = 0 ELSE found = {s})
  BY <1>2, <1>3
<1>5. H = Contents
  BY ContentsHeld DEF H
<1>6. QED
  BY <1>4, <1>5 DEF s

\* Height, for any tree.
HeightFn(t) ==
    CHOOSE height : height =
        [m \in Heap(t) |-> IF Leaf(t, m) THEN 0 ELSE height[Kids(t, m)[1]] + 1]

\* Height is that.
LEMMA HeightIs == \A n : Height(n) = HeightFn(tree)[n]
  BY DEF Height, HeightFn

\* The height of a node is its level.
LEMMA HeightLevel ==
    ASSUME NEW t, Sized(t), NEW level, NEW span, Formed(t, level, span)
    PROVE  \A n \in Heap(t) : HeightFn(t)[n] = level[n]
<1> DEFINE H == Heap(t)
           h == HeightFn(t)
           F(g) == [m \in H |-> IF Leaf(t, m) THEN 0 ELSE g[Kid(t, m, 1)] + 1]
           N == Rounds(t)
<1>1. Typed(t) /\ Linked(t, level)
  BY DEF Formed
<1>2. N \in Nat /\ level[t.root] \in Nat /\ level[t.root] < N
  BY Tall
<1>3. level \in [H -> Nat] /\ \A n \in H : level[n] =< level[t.root] /\ (Leaf(t, n) <=> level[n] = 0)
  BY <1>1 DEF Linked
<1>4. \A n \in H : ~Leaf(t, n) => Kid(t, n, 1) \in H /\ level[n] = level[Kid(t, n, 1)] + 1
  <2> SUFFICES ASSUME NEW n \in H, ~Leaf(t, n)
               PROVE  Kid(t, n, 1) \in H /\ level[n] = level[Kid(t, n, 1)] + 1
    OBVIOUS
  <2>1. KidCount(t, n) = KeyCount(t, n) + 1 /\ KeyCount(t, n) \in Nat
    BY <1>1, Counts
  <2>2. 1 \in 1..KidCount(t, n)
    BY <2>1
  <2>3. Kid(t, n, 1) \in H /\ level[Kid(t, n, 1)] = level[n] - 1
    BY <2>2, KidFacts
  <2>4. level[n] \in Nat
    BY <1>3
  <2>5. QED
    BY <2>3, <2>4
<1> HIDE DEF H
<1>5. level = F(level)
  <2>1. \A m \in H : level[m] = IF Leaf(t, m) THEN 0 ELSE level[Kid(t, m, 1)] + 1
    BY <1>3, <1>4
  <2>2. QED
    BY <1>3, <2>1
<1>6. h = CHOOSE g : g = F(g)
  BY DEF HeightFn, Kid, H
<1> HIDE DEF h, F, N
<1>7. h = F(h)
  BY <1>5, <1>6, Zenon
<1>8. \A m \in H : h[m] = IF Leaf(t, m) THEN 0 ELSE h[Kid(t, m, 1)] + 1
  BY <1>7 DEF F
<1> DEFINE P == {i \in 0..N : \A m \in H : level[m] = i => h[m] = i}
<1>9. 0 \in P
  <2>1. \A m \in H : level[m] = 0 => h[m] = 0
    BY <1>3, <1>8
  <2>2. QED
    BY <1>2, <2>1
<1>10. ASSUME NEW i \in 0..N, i \in P, i < N PROVE i + 1 \in P
  <2>1. ASSUME NEW m \in H, level[m] = i + 1 PROVE h[m] = i + 1
    <3>1. i \in Nat
      BY <1>2
    <3>2. ~Leaf(t, m)
      BY <1>3, <2>1, <3>1
    <3>3. h[m] = h[Kid(t, m, 1)] + 1
      BY <1>8, <3>2
    <3>4. Kid(t, m, 1) \in H /\ level[m] = level[Kid(t, m, 1)] + 1
      BY <1>4, <3>2
    <3>5. level[Kid(t, m, 1)] \in Nat
      BY <1>3, <3>4
    <3>6. level[Kid(t, m, 1)] = i
      BY <2>1, <3>1, <3>4, <3>5
    <3>7. h[Kid(t, m, 1)] = i
      BY <1>10, <3>4, <3>6
    <3>8. QED
      BY <3>3, <3>7
  <2>2. i + 1 \in 0..N
    BY <1>2, <1>10
  <2>3. QED
    BY <2>1, <2>2
<1>11. \A i \in 0..N : i \in P
  <2> HIDE DEF P
  <2>1. QED
    BY <1>2, <1>9, <1>10, Induction
<1>12. \A n \in H : level[n] \in 0..N
  BY <1>2, <1>3
<1>13. \A n \in H : h[n] = level[n]
  BY <1>11, <1>12
<1>14. QED
  BY <1>13 DEF h, H

\* A tree that is in order is balanced.
LEMMA TreeBalanced ==
    ASSUME TreeInv
    PROVE  Balanced
<1>1. Nodes = Heap(tree)
  BY NodesHeap
<1>2. CASE tree = EmptyTree
  BY <1>1, <1>2, NoTree DEF Balanced
<1>3. CASE Good(tree)
  <2>1. PICK level, span : Formed(tree, level, span)
    BY <1>3 DEF Good
  <2>2. Typed(tree) /\ Linked(tree, level) /\ Sized(tree)
    BY <1>3, <2>1 DEF Formed, Good
  <2>3. ASSUME NEW n \in Heap(tree)
        PROVE /\ Len(Ents(tree, n)) =< MaxKeys
              /\ n # tree.root => Len(Ents(tree, n)) >= MinKeys
              /\ ~Leaf(tree, n) =>
                    /\ Len(Kids(tree, n)) = Len(Ents(tree, n)) + 1
                    /\ Ents(tree, n) # <<>>
    <3>1. /\ KeyCount(tree, n) =< MaxKeys
          /\ n # tree.root => MinKeys =< KeyCount(tree, n)
          /\ ~Leaf(tree, n) => 1 =< KeyCount(tree, n)
      BY <2>2 DEF Sized
    <3>2. KeyCount(tree, n) \in Nat /\ MinKeys \in Nat
          /\ (~Leaf(tree, n) => KidCount(tree, n) = KeyCount(tree, n) + 1)
      BY <2>2, Counts, Sizes
    <3>3. KeyCount(tree, n) = Len(Ents(tree, n)) /\ KidCount(tree, n) = Len(Kids(tree, n))
      BY DEF KeyCount, KidCount
    <3>4. ~Leaf(tree, n) => Ents(tree, n) # <<>>
      <4>1. Ents(tree, n) = <<>> => Len(Ents(tree, n)) = 0
        OBVIOUS
      <4>2. QED
        BY <3>1, <3>2, <3>3, <4>1
    <3>5. n # tree.root => Len(Ents(tree, n)) >= MinKeys
      BY <3>1, <3>2, <3>3
    <3>6. QED
      BY <3>1, <3>2, <3>3, <3>4, <3>5
  <2>4. ASSUME NEW n \in Heap(tree), NEW m \in ToSet(Kids(tree, n))
        PROVE  Height(m) = Height(n) - 1
    <3>1. PICK i \in 1..KidCount(tree, n) : Kid(tree, n, i) = m
      BY <2>2, KidsSet
    <3>2. m \in Heap(tree) /\ level[m] = level[n] - 1
      BY <2>1, <3>1, KidFacts
    <3>3. HeightFn(tree)[m] = level[m] /\ HeightFn(tree)[n] = level[n]
      BY <2>1, <2>2, <3>2, HeightLevel
    <3>4. Height(m) = HeightFn(tree)[m] /\ Height(n) = HeightFn(tree)[n]
      BY HeightIs
    <3>5. QED
      BY <3>2, <3>3, <3>4
  <2>5. QED
    BY <1>1, <2>3, <2>4 DEF Balanced
<1>4. QED
  BY <1>2, <1>3 DEF TreeInv

\* A walk below node c keeps to its span.
Stays(t, span, c, w) ==
    /\ w.done \in Seq(Heap(t)) /\ w.todo \in Seq(Heap(t))
    /\ \A x \in Within(w.done) \cup Within(w.todo) : span[x] \subseteq span[c]

\* A call of btree_to_bin on a node below c stays below c.
LEMMA VisitStays ==
    ASSUME NEW t, NEW level, NEW span, Formed(t, level, span), NEW c \in Heap(t),
           NEW w, Stays(t, span, c, w)
    PROVE  Stays(t, span, c, Visit(t, w))
<1> DEFINE H == Heap(t)
           done == w.done
           todo == w.todo
<1>1. /\ done \in Seq(H) /\ todo \in Seq(H)
      /\ \A x \in Within(done) \cup Within(todo) : span[x] \subseteq span[c]
  BY Zenon DEF Stays
<1>2. CASE todo = <<>>
  BY <1>2 DEF Visit
<1>3. CASE todo # <<>>
  <2> DEFINE h == Head(todo)
             d2 == Append(done, h)
             t2 == Kids(t, h) \o Tail(todo)
  <2>1. h \in Within(todo) /\ h \in H /\ Within(Tail(todo)) \subseteq Within(todo)
    BY <1>1, <1>3, WithinTail
  <2>2. Typed(t)
    BY DEF Formed
  <2> DEFINE w2 == Visit(t, w)
  <2>3. w2 = [done |-> d2, todo |-> t2]
    BY <1>3 DEF Visit
  <2>4. w2.done = d2 /\ w2.todo = t2
    <3> HIDE DEF w2, d2, t2
    <3>1. QED
      BY <2>3
  <2> HIDE DEF h, done, todo
  <2>5. Kids(t, h) \in Seq(H) /\ Tail(todo) \in Seq(H)
    <3>1. Kids(t, h) \in Seq(H)
      BY <2>1, <2>2, TypedFacts
    <3>2. Tail(todo) \in Seq(H)
      BY <1>1, <1>3
    <3>3. QED
      BY <3>1, <3>2
  <2>6. Within(d2) = Within(done) \cup {h}
    BY <1>1, <2>1, WithinAppend
  <2>7. Within(t2) = Within(Kids(t, h)) \cup Within(Tail(todo))
    <3> HIDE DEF H
    <3> DEFINE kids == Kids(t, h)
               rest == Tail(todo)
    <3>1. kids \in Seq(H) /\ rest \in Seq(H)
      BY <2>5
    <3> HIDE DEF kids, rest
    <3>2. Within(kids \o rest) = Within(kids) \cup Within(rest)
      BY <3>1, WithinConcat
    <3>3. QED
      BY <3>2 DEF kids, rest
  <2>8. d2 \in Seq(H) /\ t2 \in Seq(H)
    BY <1>1, <2>1, <2>5
  <2>9. \A x \in Within(Kids(t, h)) : span[x] \subseteq span[c]
    <3> TAKE x \in Within(Kids(t, h))
    <3>1. PICK i \in 1..KidCount(t, h) : Kid(t, h, i) = x
      BY WithinIs DEF KidCount, Kid
    <3>2. x \in H /\ \A k \in Key : k \in span[x] => k \in span[h]
      BY <2>1, <3>1, KidFacts
    <3>3. span[x] \subseteq Key
      BY <3>2 DEF Formed, Spanned
    <3>4. span[h] \subseteq span[c]
      BY <1>1, <2>1
    <3>5. QED
      BY <3>2, <3>3, <3>4
  <2>10. \A x \in Within(d2) \cup Within(t2) : span[x] \subseteq span[c]
    <3> TAKE x \in Within(d2) \cup Within(t2)
    <3> HIDE DEF d2, t2
    <3>1. x \in Within(done) \cup Within(todo) \/ x \in Within(Kids(t, h))
      BY <2>1, <2>6, <2>7
    <3>2. QED
      BY <1>1, <2>9, <3>1
  <2> HIDE DEF d2, t2
  <2>11. QED
    BY <2>4, <2>8, <2>10 DEF Stays
<1>4. QED
  BY <1>2, <1>3

\* What is below a node has its keys in the span of the node.
LEMMA BelowSpan ==
    ASSUME NEW t, NEW level, NEW span, Formed(t, level, span), NEW c \in Heap(t),
           NEW m \in ToSet(Preorder(t, c))
    PROVE  m \in Heap(t) /\ span[m] \subseteq span[c]
<1> DEFINE N == Rounds(t)
           loop == VisitLoop(t, c)
           H == Heap(t)
<1>1. N \in Nat
  BY Tall
<1>2. /\ loop[0] = [done |-> <<>>, todo |-> <<c>>]
      /\ \A i \in 0..N : i < N => loop[i + 1] = Visit(t, loop[i])
  BY <1>1, VisitLoopFacts
<1>3. Preorder(t, c) = loop[N].done
  BY PreorderLoop
<1> HIDE DEF loop, N
<1> DEFINE P == {i \in 0..N : Stays(t, span, c, loop[i])}
<1>4. 0 \in P
  <2>1. loop[0].done = <<>> /\ loop[0].todo = <<c>>
    BY <1>2
  <2>2. \A x : x \in Within(<<>>) \cup Within(<<c>>) <=> x = c
    <3>1. \A x : x \notin Within(<<>>)
      BY DEF Within
    <3>2. \A x : x \in Within(<<c>>) <=> x = c
      BY DEF Within
    <3>3. QED
      BY <3>1, <3>2
  <2>3. <<>> \in Seq(H) /\ <<c>> \in Seq(H)
    OBVIOUS
  <2>4. Stays(t, span, c, loop[0])
    BY <2>1, <2>2, <2>3 DEF Stays
  <2>5. QED
    BY <1>1, <2>4
<1>5. ASSUME NEW i \in 0..N, i \in P, i < N PROVE i + 1 \in P
  <2>1. i + 1 \in 0..N
    BY <1>1, <1>5
  <2>2. Stays(t, span, c, loop[i]) /\ loop[i + 1] = Visit(t, loop[i])
    BY <1>2, <1>5
  <2>3. Stays(t, span, c, loop[i + 1])
    BY <2>2, VisitStays
  <2>4. QED
    BY <2>1, <2>3
<1>6. \A i \in 0..N : i \in P
  <2> HIDE DEF P
  <2>1. QED
    BY <1>1, <1>4, <1>5, Induction
<1>7. Stays(t, span, c, loop[N])
  BY <1>1, <1>6
<1> DEFINE done == loop[N].done
<1>8. done \in Seq(H) /\ \A x \in Within(done) : span[x] \subseteq span[c]
  BY <1>7 DEF Stays
<1>9. m \in ToSet(done)
  BY <1>3
<1> HIDE DEF done
<1>10. m \in Within(done)
  BY <1>8, <1>9, SetOfSeq
<1>11. m \in H
  BY <1>8, <1>10 DEF Within
<1>12. QED
  BY <1>8, <1>10, <1>11

\* A tree that is in order is ordered.
LEMMA TreeOrdered ==
    ASSUME TreeInv
    PROVE  Ordered
<1>1. Nodes = Heap(tree)
  BY NodesHeap
<1>2. CASE tree = EmptyTree
  BY <1>1, <1>2, NoTree DEF Ordered
<1>3. CASE Good(tree)
  <2>1. PICK level, span : Formed(tree, level, span)
    BY <1>3 DEF Good
  <2>2. Typed(tree) /\ Spanned(tree, span)
    BY <2>1 DEF Formed
  <2>3. ASSUME NEW n \in Heap(tree)
        PROVE  /\ \A i, j \in DOMAIN Ents(tree, n) : i < j => Ents(tree, n)[i].key < Ents(tree, n)[j].key
               /\ \A i \in DOMAIN Kids(tree, n) : \A m \in Below(Kids(tree, n)[i]) :
                    \A e \in ToSet(Ents(tree, m)) :
                        /\ i > 1 => Ents(tree, n)[i - 1].key < e.key
                        /\ i =< Len(Ents(tree, n)) => e.key < Ents(tree, n)[i].key
    <3>1. DOMAIN Ents(tree, n) = 1..KeyCount(tree, n) /\ DOMAIN Kids(tree, n) = 1..KidCount(tree, n)
      <4>1. Ents(tree, n) \in Seq(Entry) /\ Kids(tree, n) \in Seq(Heap(tree))
        BY <2>2, TypedFacts
      <4>2. QED
        BY <4>1 DEF KeyCount, KidCount
    <3>2. \A i, j \in 1..KeyCount(tree, n) : i < j => KeyAt(tree, n, i) < KeyAt(tree, n, j)
      BY <2>2, KeyFacts
    <3>3. \A i, j \in DOMAIN Ents(tree, n) : i < j => Ents(tree, n)[i].key < Ents(tree, n)[j].key
      BY <3>1, <3>2 DEF KeyAt
    <3>4. ASSUME NEW i \in 1..KidCount(tree, n), NEW m \in Below(Kid(tree, n, i)),
                 NEW e \in ToSet(Ents(tree, m))
          PROVE  Between(tree, n, i, e.key)
      <4> DEFINE c == Kid(tree, n, i)
      <4>1. c \in Heap(tree)
            /\ \A x \in Key : x \in span[c] <=> x \in span[n] /\ Between(tree, n, i, x)
        BY <2>1, KidFacts
      <4>2. m \in ToSet(Preorder(tree, c))
        BY DEF Below
      <4>3. m \in Heap(tree) /\ span[m] \subseteq span[c]
        BY <2>1, <4>1, <4>2, BelowSpan
      <4>4. PICK j \in 1..KeyCount(tree, m) : EntAt(tree, m, j) = e
        BY <2>2, <4>3, EntsSet
      <4>5. KeyAt(tree, m, j) = e.key
        BY <4>4, EntKey
      <4>6. KeyAt(tree, m, j) \in span[m] /\ KeyAt(tree, m, j) \in Key
        BY <2>2, <4>3, KeyFacts
      <4>7. QED
        BY <4>1, <4>3, <4>5, <4>6
    <3>5. ASSUME NEW i \in DOMAIN Kids(tree, n), NEW m \in Below(Kids(tree, n)[i]),
                 NEW e \in ToSet(Ents(tree, m))
          PROVE  /\ i > 1 => Ents(tree, n)[i - 1].key < e.key
                 /\ i =< Len(Ents(tree, n)) => e.key < Ents(tree, n)[i].key
      <4>1. Between(tree, n, i, e.key)
        BY <3>1, <3>4 DEF Kid
      <4>2. QED
        BY <4>1 DEF Between, KeyAt, KeyCount
    <3>6. QED
      BY <3>3, <3>5
  <2>4. QED
    BY <1>1, <2>3 DEF Ordered
<1>4. QED
  BY <1>2, <1>3 DEF TreeInv

\* SearchStream is the end of the loop.
LEMMA StreamIs ==
    ASSUME NEW bin, NEW k
    PROVE  SearchStream(bin, k) = Found(bin[StreamLoop(bin, k)[Len(bin)]].ents, k)
  BY DEF SearchStream, StreamLoop

\* What btree_search_stream reads is what parse_tree would make of it.
LEMMA StreamSearch ==
    ASSUME NEW bin, NEW v, v = ParseTree(bin), bin # <<>>, NEW n \in Nat, DOMAIN bin = 1..n,
           Len(bin) = n, NEW level, NEW span, Formed(v, level, span), NEW k \in Key
    PROVE  SearchStream(bin, k) = Search(v, k)
<1> DEFINE at == StreamLoop(bin, k)
           by == SeekLoop(v, k)
<1>1. v.root = 1 /\ v.node = [i \in 1..n |-> NewNode(bin[i].leaf, bin[i].ents, bin[i].kids, ParentIn(bin, i))]
  BY DEF ParseTree
<1>2. Heap(v) = 1..n
  BY <1>1 DEF Heap
<1>3. ASSUME NEW i \in 1..n
      PROVE  Leaf(v, i) = bin[i].leaf /\ Ents(v, i) = bin[i].ents /\ Kids(v, i) = bin[i].kids
  <2>1. v.node[i] = NewNode(bin[i].leaf, bin[i].ents, bin[i].kids, ParentIn(bin, i))
    BY <1>1, Zenon
  <2>2. QED
    BY <2>1, NodeFacts
<1>4. Typed(v)
  BY DEF Formed
<1>5. Rounds(v) = n
  <2>1. Rounds(v) = Cardinality(1..n)
    BY <1>2 DEF Rounds
  <2>2. 1 \in Int /\ n \in Int
    OBVIOUS
  <2>3. Cardinality(1..n) = IF 1 > n THEN 0 ELSE n - 1 + 1
    BY <2>2, FS_Interval
  <2>4. (IF 1 > n THEN 0 ELSE n - 1 + 1) = n
    OBVIOUS
  <2>5. QED
    BY <2>1, <2>3, <2>4
<1>6. at[0] = 1 /\ \A i \in 0..n : i < n => at[i + 1] = StreamSeek(bin, at[i], k)
  <2>1. Len(bin) \in Nat
    OBVIOUS
  <2>2. /\ at[0] = 1
        /\ \A i \in 0..Len(bin) : i < Len(bin) => at[i + 1] = StreamSeek(bin, at[i], k)
    BY <2>1, StreamLoopFacts
  <2>3. QED
    BY <2>2
<1>7. by[0] = 1 /\ \A i \in 0..n : i < n => by[i + 1] = Seek(v, by[i], k)
  <2>1. /\ by[0] = v.root
        /\ \A i \in 0..Rounds(v) : i < Rounds(v) => by[i + 1] = Seek(v, by[i], k)
    BY <1>5, SeekLoopFacts
  <2>2. QED
    BY <1>1, <1>5, <2>1
<1> HIDE DEF at, by
<1>8. ASSUME NEW m \in 1..n
      PROVE  StreamSeek(bin, m, k) = Seek(v, m, k)
  <2>1. m # Null
    BY DEF Null
  <2>2. Leaf(v, m) = bin[m].leaf /\ Ents(v, m) = bin[m].ents /\ Kids(v, m) = bin[m].kids
    BY <1>3
  <2>3. CASE Here(bin[m].ents, k)
    <3>1. StreamSeek(bin, m, k) = m
      BY <2>3 DEF StreamSeek
    <3>2. Seek(v, m, k) = m
      BY <2>1, <2>2, <2>3 DEF Seek
    <3>3. QED
      BY <3>1, <3>2
  <2>4. CASE ~Here(bin[m].ents, k)
    <3>1. Seek(v, m, k) = Down(v, m, k)
      BY <2>2, <2>4 DEF Seek
    <3>2. Down(v, m, k) = IF Leaf(v, m) THEN m ELSE Kids(v, m)[Slot(Ents(v, m), k)]
      BY <2>1, Zenon DEF Down
    <3>3. StreamSeek(bin, m, k) = IF bin[m].leaf THEN m ELSE bin[m].kids[Slot(bin[m].ents, k)]
      BY <2>4, Zenon DEF StreamSeek
    <3>4. QED
      BY <2>2, <3>1, <3>2, <3>3, Zenon
  <2>5. QED
    BY <2>3, <2>4
<1>9. ASSUME NEW m \in 1..n, k \in span[m]
      PROVE  Seek(v, m, k) \in 1..n /\ k \in span[Seek(v, m, k)]
  <2>1. m # Null /\ m \in Heap(v)
    BY <1>2 DEF Null
  <2>2. CASE Here(Ents(v, m), k)
    BY <1>9, <2>1, <2>2 DEF Seek
  <2>3. CASE ~Here(Ents(v, m), k) /\ Leaf(v, m)
    BY <1>9, <2>1, <2>3 DEF Seek, Down
  <2>4. CASE ~Here(Ents(v, m), k) /\ ~Leaf(v, m)
    <3> DEFINE s == Slot(Ents(v, m), k)
    <3>1. Seek(v, m, k) = Kid(v, m, s)
      BY <2>1, <2>4 DEF Seek, Down, Kid
    <3>2. Kid(v, m, s) \in Heap(v) /\ k \in span[Kid(v, m, s)]
      BY <1>9, <2>1, <2>4, StepDown
    <3>3. QED
      BY <1>2, <3>1, <3>2
  <2>5. QED
    BY <2>2, <2>3, <2>4
<1> DEFINE P == {i \in 0..n : at[i] = by[i] /\ by[i] \in 1..n /\ k \in span[by[i]]}
<1>10. 0 \in P
  <2>1. 1 \in 1..n /\ k \in span[1]
    BY <1>1, <1>2, <1>4 DEF Formed, Spanned, Typed
  <2>2. QED
    BY <1>6, <1>7, <2>1
<1>11. ASSUME NEW i \in 0..n, i \in P, i < n PROVE i + 1 \in P
  <2>1. i + 1 \in 0..n
    BY <1>11
  <2>2. at[i + 1] = StreamSeek(bin, by[i], k) /\ by[i + 1] = Seek(v, by[i], k)
    BY <1>6, <1>7, <1>11
  <2>3. by[i] \in 1..n /\ k \in span[by[i]]
    BY <1>11
  <2>4. QED
    BY <1>8, <1>9, <2>1, <2>2, <2>3
<1>12. \A i \in 0..n : i \in P
  <2> HIDE DEF P
  <2>1. QED
    BY <1>10, <1>11, Induction
<1>13. at[n] = by[n] /\ by[n] \in 1..n
  BY <1>12
<1>14. SearchStream(bin, k) = Found(bin[at[n]].ents, k)
  BY StreamIs DEF at
<1>15. Search(v, k) = Found(Ents(v, by[n]), k)
  <2>1. v.root # Null /\ by[n] # Null
    BY <1>1, <1>13 DEF Null
  <2>2. QED
    BY <1>5, <2>1, SearchLoop DEF by
<1>16. QED
  BY <1>3, <1>13, <1>14, <1>15

\* What a tree that is in order writes is searched exactly.
LEMMA TreeStream ==
    ASSUME TreeInv
    PROVE  StreamExact
<1>1. CASE tree = EmptyTree
  BY <1>1, NoTree DEF StreamExact
<1>2. CASE Good(tree)
  <2> DEFINE bin == ToBin(tree)
             v == ParseTree(bin)
  <2>1. Good(v) /\ Held(v) = Held(tree)
    BY <1>2, ParseGood
  <2>2. PICK level, span : Formed(tree, level, span)
    BY <1>2 DEF Good
  <2>3. PICK level2, span2 : Formed(v, level2, span2)
    BY <2>1 DEF Good
  <2> DEFINE order == Preorder(tree, tree.root)
             n == Len(order)
  <2>4. Filed(tree, order, bin)
    BY <2>2, BinFacts
  <2>5. 1 =< n
    BY <2>2, PreorderFacts
  <2> HIDE DEF bin, order
  <2>6. n \in Nat /\ DOMAIN bin = 1..n /\ Len(bin) = n
    BY <2>4, Zenon DEF Filed
  <2>7. bin # <<>>
    BY <2>5, <2>6
  <2>8. ASSUME NEW k \in Key
        PROVE  SearchStream(bin, k) = Search(tree, k)
    <3>1. SearchStream(bin, k) = Search(v, k)
      BY <2>3, <2>6, <2>7, StreamSearch
    <3>2. CASE \E e \in Held(tree) : e.key = k
      <4>1. PICK e \in Held(tree) : e.key = k
        BY <3>2
      <4>2. Search(tree, k) = e.off
        BY <1>2, <4>1, GoodFacts
      <4>3. Search(v, k) = e.off
        BY <2>1, <4>1, GoodFacts
      <4>4. QED
        BY <3>1, <4>2, <4>3
    <3>3. CASE \A e \in Held(tree) : e.key # k
      <4>1. Search(tree, k) = 0
        BY <1>2, <3>3, GoodFacts
      <4>2. Search(v, k) = 0
        BY <2>1, <3>3, GoodFacts
      <4>3. QED
        BY <3>1, <4>1, <4>2
    <3>4. QED
      BY <3>2, <3>3
  <2>9. QED
    BY <2>8 DEF bin, StreamExact
<1>3. QED
  BY <1>1, <1>2 DEF TreeInv

\* Balanced: every node but the root is at least half full, none is too full,
\* and the leaves are equally deep.
THEOREM TreeStaysBalanced == SoundSpec => []Balanced
<1>1. TreeInv => Balanced
  BY TreeBalanced
<1>2. QED
  BY <1>1, TreeInductive, PTL

\* Ordered: the keys below a child are between the keys beside it.
THEOREM TreeStaysOrdered == SoundSpec => []Ordered
<1>1. TreeInv => Ordered
  BY TreeOrdered
<1>2. QED
  BY <1>1, TreeInductive, PTL

\* ParentsRight: a parent pointer leads back, and no node is leaked.
THEOREM TreeKeepsParents == SoundSpec => []ParentsRight
<1>1. TreeInv => ParentsRight
  BY TreeParents
<1>2. QED
  BY <1>1, TreeInductive, PTL

\* SearchExact: btree_search finds what the tree holds, and nothing else.
THEOREM TreeSearchExact == SoundSpec => []SearchExact
<1>1. TreeInv => SearchExact
  BY TreeSearch
<1>2. QED
  BY <1>1, TreeInductive, PTL

\* StreamExact: btree_search_stream finds in the file what btree_search finds in
\* memory.
THEOREM TreeStreamExact == SoundSpec => []StreamExact
<1>1. TreeInv => StreamExact
  BY TreeStream
<1>2. QED
  BY <1>1, TreeInductive, PTL
=============================================================================

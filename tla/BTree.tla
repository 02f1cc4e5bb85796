------------------------------- MODULE BTree -------------------------------
(***************************************************************************)
(* The index's B-tree (index/btree.c): nodes on a heap with parent         *)
(* pointers, the file image btree_save writes, and the search that reads   *)
(* the file without loading it.  Slots count from 1.  Only the used slots  *)
(* of a node are kept; a child slot that the code leaves as it was, NULL   *)
(* or dangling, is Null here, and going through it is Wreck, undefined     *)
(* behaviour, from which nothing follows.                                  *)
(*                                                                         *)
(* A loop of the code is a recursive function of the number of its rounds, *)
(* with a round that changes nothing once the loop is left.  All of them   *)
(* go through the levels of a tree, or through its nodes, and end within   *)
(* as many rounds as there are nodes.                                      *)
(***************************************************************************)
EXTENDS Integers, SequencesExt

CONSTANTS
    Key,        \* keys, in the order of the comparator
    Offset,     \* offsets of rows in the data file
    MaxKeys,    \* layout.max_keys
    Least       \* bound: deletions stop when this few keys are left

ASSUME BTreeAssumption ==
    /\ Key \subseteq Int
    /\ Offset \subseteq Nat \ {0}
    /\ MaxKeys \in Nat /\ MaxKeys >= 3
    /\ Least \in Nat

VARIABLE tree   \* the Btree of the running statement: root, nodes by address

MinKeys == (MaxKeys - 1) \div 2

\* layout.mid and layout.left_count
LeftCount == (MaxKeys + 1) \div 2

Null == 0

EmptyTree == [root |-> Null, node |-> <<>>]
Wreck == [root |-> -1, node |-> <<>>]

(***************************************************************************)
(* A node and the tree it is in.                                           *)
(***************************************************************************)
Heap(t) == DOMAIN t.node

Leaf(t, n) == t.node[n].leaf
Ents(t, n) == t.node[n].ents
Kids(t, n) == t.node[n].kids
Parent(t, n) == t.node[n].parent

KeyCount(t, n) == Len(Ents(t, n))

NewNode(leaf, ents, kids, parent) ==
    [leaf |-> leaf, ents |-> ents, kids |-> kids, parent |-> parent]

\* t with a node at address n
Put(t, n, node) ==
    [root |-> t.root,
     node |-> [m \in Heap(t) \cup {n} |-> IF m = n THEN node ELSE t.node[m]]]

\* t with other entries and children in node n
Fill(t, n, ents, kids) == Put(t, n, NewNode(Leaf(t, n), ents, kids, Parent(t, n)))

Free(t, n) == [root |-> t.root, node |-> [m \in Heap(t) \ {n} |-> t.node[m]]]

\* The slot of the first key not below k, one past the last if there is none:
\* where the loops of find_leaf, insert_value, btree_search, node_key_position
\* stop.
Slot(ents, k) ==
    LET at == {i \in 1..Len(ents) : k =< ents[i].key}
    IN  IF at = {} THEN Len(ents) + 1 ELSE Min(at)

Here(ents, k) == \E i \in {Slot(ents, k)} \cap DOMAIN ents : ents[i].key = k

Rounds(t) == Cardinality(Heap(t))

\* One level down, on the way to the place of k.
Down(t, n, k) ==
    IF n = Null \/ Leaf(t, n) THEN n ELSE Kids(t, n)[Slot(Ents(t, n), k)]

(***************************************************************************)
(* btree_search: the offset of k, 0 if there is none, Lost if a child to   *)
(* follow is Null.                                                         *)
(***************************************************************************)
Lost == -1

Seek(t, n, k) == IF n # Null /\ Here(Ents(t, n), k) THEN n ELSE Down(t, n, k)

Found(ents, k) == IF Here(ents, k) THEN ents[Slot(ents, k)].off ELSE 0

Search(t, k) ==
    LET at[i \in 0..Rounds(t)] == IF i = 0 THEN t.root ELSE Seek(t, at[i - 1], k)
        n == at[Rounds(t)]
    IN  IF t.root = Null THEN 0
        ELSE IF n = Null THEN Lost
        ELSE Found(Ents(t, n), k)

(***************************************************************************)
(* btree_insert                                                            *)
(***************************************************************************)
Fresh(t) == Min({n \in 1..(Cardinality(Heap(t)) + 1) : n \notin Heap(t)})

BugForgetParent(t, parent, kids) == t

\* for each child: child->parent = parent
Adopt(t, parent, kids) ==
    IF Null \in ToSet(kids) THEN Wreck
    ELSE [root |-> t.root,
          node |-> [n \in Heap(t) |->
            IF n \in ToSet(kids)
            THEN NewNode(Leaf(t, n), Ents(t, n), Kids(t, n), parent)
            ELSE t.node[n]]]

FindLeaf(t, k) ==
    LET at[i \in 0..Rounds(t)] == IF i = 0 THEN t.root ELSE Down(t, at[i - 1], k)
    IN  at[Rounds(t)]

\* t with the root r on top
Top(t, r, node) == [root |-> r, node |-> Put(t, r, node).node]

CreateRoot(t, left, right, e) ==
    LET r == Fresh(t)
    IN  Adopt(Top(t, r, NewNode(FALSE, <<e>>, <<left, right>>, Null)), r,
              <<left, right>>)

\* The entries and the children of node n with e and incoming put in.
MoreEnts(t, n, e) == InsertAt(Ents(t, n), Slot(Ents(t, n), e.key), e)

MoreKids(t, n, e, incoming) ==
    IF Leaf(t, n) THEN <<>>
    ELSE InsertAt(Kids(t, n), Slot(Ents(t, n), e.key) + 1, incoming)

\* split_node; r is the new right sibling
SplitNode(t, n, r, e, incoming) ==
    LET ents == MoreEnts(t, n, e)
        kids == MoreKids(t, n, e, incoming)
        KidsOf(from, to) == IF Leaf(t, n) THEN <<>> ELSE SubSeq(kids, from, to)
        left == Fill(t, n, SubSeq(ents, 1, LeftCount), KidsOf(1, LeftCount + 1))
        right == KidsOf(LeftCount + 2, MaxKeys + 2)
    IN  Adopt(Put(left, r, NewNode(Leaf(t, n), SubSeq(ents, LeftCount + 2, MaxKeys + 1),
                                   right, Parent(t, n))),
              r, right)

\* insert_into_leaf, insert_into_node, and a round of the loop of
\* btree_insert_do that splits full nodes upwards: entry c.ent is to go into
\* node c.at, with c.right for the child to its right; at Null it is done.
Raise(c) ==
    LET t == c.tree
        r == Fresh(t)
        split == SplitNode(t, c.at, r, c.ent, c.right)
        mid == MoreEnts(t, c.at, c.ent)[LeftCount + 1]
        Done(u) == [tree |-> u, at |-> Null, ent |-> c.ent, right |-> c.right]
    IN  IF c.at = Null THEN c
        ELSE IF KeyCount(t, c.at) < MaxKeys
        THEN Done(Adopt(Fill(t, c.at, MoreEnts(t, c.at, c.ent),
                             MoreKids(t, c.at, c.ent, c.right)),
                        c.at, IF Leaf(t, c.at) THEN <<>> ELSE <<c.right>>))
        ELSE IF split = Wreck THEN Done(Wreck)
        ELSE IF Parent(t, c.at) = Null THEN Done(CreateRoot(split, c.at, r, mid))
        ELSE [tree |-> split, at |-> Parent(t, c.at), ent |-> mid, right |-> r]

Inserted(t, k, o) ==
    LET e == [key |-> k, off |-> o]
        leaf == FindLeaf(t, k)
        climb[i \in 0..Rounds(t)] ==
            IF i = 0 THEN [tree |-> t, at |-> leaf, ent |-> e, right |-> Null]
            ELSE Raise(climb[i - 1])
    IN  IF t.root = Null
        THEN [root |-> 1, node |-> <<NewNode(TRUE, <<e>>, <<>>, Null)>>]
        ELSE IF leaf = Null THEN Wreck
        ELSE climb[Rounds(t)].tree

(***************************************************************************)
(* btree_delete                                                            *)
(***************************************************************************)
BugLeaveSeparator(t, p, i, e) == t

\* t with another entry i in node p
Replace(t, p, i, e) == Fill(t, p, [Ents(t, p) EXCEPT ![i] = e], Kids(t, p))

BugStealFirstChild(t, p, i) ==
    LET l == Kids(t, p)[i]
        c == Kids(t, p)[i + 1]
        moved == IF Leaf(t, c) THEN <<>> ELSE <<Head(Kids(t, l))>>
        less == Fill(Replace(t, p, i, Last(Ents(t, l))), l, Front(Ents(t, l)),
                     IF Leaf(t, l) THEN Kids(t, l) ELSE Front(Kids(t, l)))
    IN  Adopt(Fill(less, c, <<Ents(t, p)[i]>> \o Ents(t, c), moved \o Kids(t, c)),
              c, moved)

\* btree_steal_left: child i + 1 takes entry i of parent p and the last child
\* of child i, the parent the last entry of child i.
StealLeft(t, p, i) ==
    LET l == Kids(t, p)[i]
        c == Kids(t, p)[i + 1]
        moved == IF Leaf(t, c) THEN <<>> ELSE <<Last(Kids(t, l))>>
        less == Fill(Replace(t, p, i, Last(Ents(t, l))), l, Front(Ents(t, l)),
                     IF Leaf(t, l) THEN Kids(t, l) ELSE Front(Kids(t, l)))
    IN  Adopt(Fill(less, c, <<Ents(t, p)[i]>> \o Ents(t, c), moved \o Kids(t, c)),
              c, moved)

BugStealWrongEnd(t, p, i) ==
    LET c == Kids(t, p)[i]
        r == Kids(t, p)[i + 1]
        moved == IF Leaf(t, c) THEN <<>> ELSE <<Head(Kids(t, r))>>
        less == Fill(Replace(t, p, i, Last(Ents(t, r))), r, Front(Ents(t, r)),
                     IF Leaf(t, r) THEN Kids(t, r) ELSE Tail(Kids(t, r)))
    IN  Adopt(Fill(less, c, Append(Ents(t, c), Ents(t, p)[i]), Kids(t, c) \o moved),
              c, moved)

\* btree_steal_right: child i takes entry i of p, p the first of child i + 1.
StealRight(t, p, i) ==
    LET c == Kids(t, p)[i]
        r == Kids(t, p)[i + 1]
        moved == IF Leaf(t, c) THEN <<>> ELSE <<Head(Kids(t, r))>>
        less == Fill(Replace(t, p, i, Head(Ents(t, r))), r, Tail(Ents(t, r)),
                     IF Leaf(t, r) THEN Kids(t, r) ELSE Tail(Kids(t, r)))
    IN  Adopt(Fill(less, c, Append(Ents(t, c), Ents(t, p)[i]), Kids(t, c) \o moved),
              c, moved)

\* btree_merge: the children of the right node land one slot too far, behind
\* a slot that nobody writes, and the last of them out of the node.
Merge(t, p, i) ==
    LET l == Kids(t, p)[i]
        r == Kids(t, p)[i + 1]
        ents == Append(Ents(t, l), Ents(t, p)[i]) \o Ents(t, r)
        kids == Kids(t, l) \o <<Null>> \o Kids(t, r)
        less == Fill(t, p, RemoveAt(Ents(t, p), i), RemoveAt(Kids(t, p), i + 1))
    IN  Adopt(Free(Fill(less, l, ents, IF Leaf(t, l) THEN <<>>
                                       ELSE SubSeq(kids, 1, Len(ents) + 1)), r),
              l, Kids(t, r))

BugMinAllowed(t, c) == KeyCount(t, c) >= MinKeys

Spare(t, c) == KeyCount(t, c) > MinKeys

\* Would ensure_min_keys follow a child slot that is Null, or is not there?
MeetsNull(t, kids, i) ==
    \/ kids[i] = Null
    \/ /\ ~Spare(t, kids[i])
       /\ \/ Len(kids) < 2
          \/ i > 1 /\ kids[i - 1] = Null
          \/ /\ i = 1 \/ ~Spare(t, kids[i - 1])
             /\ i < Len(kids) /\ kids[i + 1] = Null

EnsureMinKeys(t, p, i) ==
    LET kids == Kids(t, p)
    IN  IF MeetsNull(t, kids, i) THEN Wreck
        ELSE IF Spare(t, kids[i]) THEN t
        ELSE IF i > 1 /\ Spare(t, kids[i - 1]) THEN StealLeft(t, p, i - 1)
        ELSE IF i < Len(kids) /\ Spare(t, kids[i + 1]) THEN StealRight(t, p, i)
        ELSE Merge(t, p, IF i > 1 THEN i - 1 ELSE i)

\* delete_recursive: d.key is to be deleted below d.at; at Null it is done.
\* d.sound is history: no separator has moved away from its key or had its
\* predecessor deeper than its child, and no internal nodes were merged.
Lower(d) ==
    LET t == d.tree
        ents == Ents(t, d.at)
        s == Slot(ents, d.key)
        u == EnsureMinKeys(t, d.at, s)
        s2 == Slot(Ents(u, d.at), d.key)
        child == Kids(u, d.at)[s2]
        last == Last(Ents(u, child))
        hit == Here(ents, d.key)
        Done(v) == [tree |-> v, at |-> Null, key |-> d.key, sound |-> d.sound]
    IN  IF d.at = Null THEN d
        ELSE IF Leaf(t, d.at)
        THEN Done(IF hit THEN Fill(t, d.at, RemoveAt(ents, s), Kids(t, d.at)) ELSE Wreck)
        ELSE IF u = Wreck THEN Done(Wreck)
        ELSE IF child = Null THEN Done(Wreck)
        ELSE [tree |-> IF hit THEN Replace(u, d.at, s2, last) ELSE u,
              at |-> child,
              key |-> IF hit THEN last.key ELSE d.key,
              sound |->
                /\ d.sound
                /\ KeyCount(u, d.at) = KeyCount(t, d.at) \/ Leaf(u, child)
                /\ hit => Here(Ents(u, d.at), d.key) /\ Leaf(u, child)]

Descent(t, k) ==
    LET down[i \in 0..Rounds(t)] ==
            IF i = 0 THEN [tree |-> t, at |-> t.root, key |-> k, sound |-> TRUE]
            ELSE Lower(down[i - 1])
    IN  down[Rounds(t)]

\* A root left without keys gives way to its only child.
Rooted(u) ==
    LET r == Kids(u, u.root)[1]
    IN  IF u = Wreck THEN Wreck
        ELSE IF Ents(u, u.root) # <<>> \/ Leaf(u, u.root) THEN u
        ELSE IF r = Null THEN Wreck
        ELSE Adopt([root |-> r, node |-> Free(u, u.root).node], Null, <<r>>)

Deleted(t, k) == Rooted(Descent(t, k).tree)

(***************************************************************************)
(* The file: btree_to_bin numbers the nodes from the root, each before its *)
(* children; parse_tree reads them back; btree_search_stream searches the  *)
(* image.                                                                  *)
(***************************************************************************)
Visit(t, w) ==
    IF w.todo = <<>> THEN w
    ELSE [done |-> Append(w.done, Head(w.todo)),
          todo |-> Kids(t, Head(w.todo)) \o Tail(w.todo)]

Preorder(t, n) ==
    LET walk[i \in 0..Rounds(t)] ==
            IF i = 0 THEN [done |-> <<>>, todo |-> <<n>>] ELSE Visit(t, walk[i - 1])
    IN  walk[Rounds(t)].done

Place(order, n) == CHOOSE i \in DOMAIN order : order[i] = n

BugChildBefore(t) ==
    LET order == IF t.root = Null THEN <<>> ELSE Preorder(t, t.root)
    IN  [i \in DOMAIN order |->
            LET kids == Kids(t, order[i])
            IN  [leaf |-> Leaf(t, order[i]), ents |-> Ents(t, order[i]),
                 kids |-> [j \in DOMAIN kids |-> Place(order, kids[Max({1, j - 1})])]]]

ToBin(t) ==
    LET order == IF t.root = Null THEN <<>> ELSE Preorder(t, t.root)
    IN  [i \in DOMAIN order |->
            LET kids == Kids(t, order[i])
            IN  [leaf |-> Leaf(t, order[i]), ents |-> Ents(t, order[i]),
                 kids |-> [j \in DOMAIN kids |-> Place(order, kids[j])]]]

ParentIn(bin, i) ==
    LET ps == {j \in DOMAIN bin : i \in ToSet(bin[j].kids)}
    IN  IF ps = {} THEN Null ELSE Min(ps)

ParseTree(bin) ==
    [root |-> IF bin = <<>> THEN Null ELSE 1,
     node |-> [i \in DOMAIN bin |->
        NewNode(bin[i].leaf, bin[i].ents, bin[i].kids, ParentIn(bin, i))]]

StreamSeek(bin, i, k) ==
    IF Here(bin[i].ents, k) \/ bin[i].leaf THEN i
    ELSE bin[i].kids[Slot(bin[i].ents, k)]

SearchStream(bin, k) ==
    LET at[i \in 0..Len(bin)] == IF i = 0 THEN 1 ELSE StreamSeek(bin, at[i - 1], k)
    IN  Found(bin[at[Len(bin)]].ents, k)

HasGap(t) == \E n \in Heap(t) : Null \in ToSet(Kids(t, n))

\* what btree_load makes of what btree_save has written
Reloaded(t) == IF HasGap(t) THEN Wreck ELSE ParseTree(ToBin(t))

(***************************************************************************)
(* What the executors do to an index.  A key is inserted only after a      *)
(* search has missed it (index_set_has_duplicate, index_set_has_conflict). *)
(***************************************************************************)
\* What a tree holds; ParentsRight says that the root reaches every node.
Held(t) == UNION {ToSet(Ents(t, n)) : n \in Heap(t)}

Contents == Held(tree)

Init == tree = EmptyTree

Insert(k, o) ==
    /\ Search(tree, k) = 0
    /\ tree' = Inserted(tree, k, o)

Delete(k) ==
    /\ Cardinality(Contents) > Least
    /\ Search(tree, k) > 0
    /\ tree' = Deleted(tree, k)

\* btree_save at the end of a statement, btree_load in the next one
Reload ==
    /\ tree # EmptyTree
    /\ tree' = Reloaded(tree)

SearchLost(k) ==
    /\ Search(tree, k) = Lost
    /\ tree' = Wreck

Next ==
    /\ tree # Wreck
    /\ \/ \E k \in Key : Delete(k) \/ SearchLost(k) \/ \E o \in Offset : Insert(k, o)
       \/ Reload

Spec == Init /\ [][Next]_tree

(***************************************************************************)
(* The deletions the code gets right: no separator that moves or whose     *)
(* predecessor is deeper than its child, and no merge of internal nodes.   *)
(***************************************************************************)
SoundDelete(k) ==
    /\ Delete(k)
    /\ Descent(tree, k).sound

SoundNext ==
    \/ \E k \in Key : SoundDelete(k) \/ \E o \in Offset : Insert(k, o)
    \/ Reload

SoundSpec == Init /\ [][SoundNext]_tree

(***************************************************************************)
(* Properties.                                                             *)
(***************************************************************************)
Nodes == IF tree.root = Null THEN {} ELSE ToSet(Preorder(tree, tree.root))

Below(n) == ToSet(Preorder(tree, n))

Height(n) ==
    LET height[m \in Heap(tree)] ==
            IF Leaf(tree, m) THEN 0 ELSE height[Kids(tree, m)[1]] + 1
    IN  height[n]

\* The tree is a B-tree: every node but the root holds at least min_keys and
\* at most max_keys keys and a child more than keys, and the leaves are all
\* equally deep.
Balanced ==
    /\ \A n \in Nodes :
        /\ Len(Ents(tree, n)) =< MaxKeys
        /\ n # tree.root => Len(Ents(tree, n)) >= MinKeys
        /\ ~Leaf(tree, n) =>
            /\ Len(Kids(tree, n)) = Len(Ents(tree, n)) + 1
            /\ Ents(tree, n) # <<>>
    /\ \A n \in Nodes : \A m \in ToSet(Kids(tree, n)) : Height(m) = Height(n) - 1

\* Parent pointers, which splits climb, lead back the way the children came,
\* and no node is leaked: what is allocated is what the root reaches.
ParentsRight ==
    /\ Heap(tree) = Nodes
    /\ \A n \in Nodes : \A m \in ToSet(Kids(tree, n)) : Parent(tree, m) = n
    /\ tree.root # Null => Parent(tree, tree.root) = Null

\* The keys of a node are in order, and those below its children are between
\* them, so that no key is there twice.
Ordered ==
    \A n \in Nodes :
        LET ents == Ents(tree, n)
            kids == Kids(tree, n)
        IN  /\ \A i, j \in DOMAIN ents : i < j => ents[i].key < ents[j].key
            /\ \A i \in DOMAIN kids : \A m \in Below(kids[i]) :
                \A e \in ToSet(Ents(tree, m)) :
                    /\ i > 1 => ents[i - 1].key < e.key
                    /\ i =< Len(ents) => e.key < ents[i].key

\* btree_search finds exactly the keys in the tree, with their offsets.
SearchExact ==
    LET held == Contents
    IN  \A k \in Key :
            LET found == {e.off : e \in {f \in held : f.key = k}}
            IN  IF found = {} THEN Search(tree, k) = 0
                ELSE found = {Search(tree, k)}

\* btree_search_stream answers from the file what btree_search answers from
\* memory.
StreamExact ==
    tree.root # Null =>
        LET bin == ToBin(tree)
        IN  \A k \in Key : SearchStream(bin, k) = Search(tree, k)

\* The tree is a dictionary, call by call.  Inserting a key that is not there
\* adds it with its offset, deleting one that is there takes that one away,
\* whichever way nodes are split, filled up from their neighbours or merged on
\* the way (btree_insert_do, delete_recursive); neither touches another key
\* and neither may do nothing.  A file written and read back holds the same.
\* Of the deletions, those of SoundDelete; d.tree, Rooted, is Deleted(tree, k).
Promise == INSTANCE Dictionary

Makes(t, entries) == t # Wreck /\ Held(t) = entries

IsDictionary ==
    /\ Promise!Unique(Contents)
    /\ \A k \in Key :
        IF Promise!Has(Contents, k)
        THEN \A d \in {Descent(tree, k)} :
                d.sound => Makes(Rooted(d.tree), Promise!Without(Contents, k))
        ELSE \A o \in Offset :
                Makes(Inserted(tree, k, o), Promise!With(Contents, k, o))
    /\ tree # EmptyTree => Makes(Reloaded(tree), Contents)

\* A deletion leaves the other keys where a search finds them.
OthersStay ==
    [][\A k \in Key : Delete(k) /\ tree' # Wreck =>
        \A l \in Key \ {k} : Search(tree, l) > 0 => Search(tree, l)' > 0]_tree
=============================================================================

----------------------------- MODULE NodeLayout -----------------------------
(***************************************************************************)
(* How a B-tree node is laid out in its block, and how many keys it takes  *)
(* (btree_layout_create, index/btree.c): sixteen-bit arithmetic on the     *)
(* sizes of the block and of a key, done anew at every load of an index.   *)
(***************************************************************************)
EXTENDS Integers

\* sizeof of the flags, of key_count, of a FileOffset and of a child pointer
FlagsSize == 1
KeyCountSize == 2
OffsetSize == 8
ChildSize == 8

\* A uint16_t
W16(k) == k % 65536

MaxKeysOf(node_size, key_size) ==
    W16(W16(node_size - FlagsSize - KeyCountSize - ChildSize)
          \div (key_size + OffsetSize + ChildSize))

\* C divides -1 by 2 to 0.
MinKeysOf(max_keys) == IF max_keys = 0 THEN 0 ELSE (max_keys - 1) \div 2
LeftCountOf(max_keys) == (max_keys + 1) \div 2

Layout(node_size, key_size) ==
    LET max == MaxKeysOf(node_size, key_size)
        keys == FlagsSize + KeyCountSize
        offsets == W16(keys + W16(max * key_size))
        children == W16(offsets + W16(max * OffsetSize))
    IN  [max_keys |-> max,
         min_keys |-> MinKeysOf(max),
         left_count |-> LeftCountOf(max),
         right_count |-> W16(max - LeftCountOf(max)),
         keys_offset |-> keys,
         keys_size |-> W16(max * key_size),
         offsets_offset |-> offsets,
         offsets_size |-> W16(max * OffsetSize),
         children_offset |-> children,
         children_size |-> W16((max + 1) * ChildSize)]

(***************************************************************************)
(* What a layout must give.                                                *)
(***************************************************************************)
\* A section takes n items of a size.
Holds(section_size, n, size) == section_size = n * size

\* The sections follow one another inside the block, and each holds what the
\* node has.
SectionsFit(node_size, key_size) ==
    LET l == Layout(node_size, key_size)
    IN  /\ Holds(l.keys_size, l.max_keys, key_size)
        /\ Holds(l.offsets_size, l.max_keys, OffsetSize)
        /\ Holds(l.children_size, l.max_keys + 1, ChildSize)
        /\ l.keys_offset = FlagsSize + KeyCountSize
        /\ l.offsets_offset = l.keys_offset + l.keys_size
        /\ l.children_offset = l.offsets_offset + l.offsets_size
        /\ l.children_offset + l.children_size =< node_size

\* Three keys at least; the two halves of a split, and what two siblings and
\* their separator leave after a deletion, are nodes of a legal size.
CountsFit(node_size, key_size) ==
    LET l == Layout(node_size, key_size)
    IN  /\ l.max_keys >= 3
        /\ l.min_keys >= 1
        /\ l.left_count + l.right_count = l.max_keys
        /\ l.left_count >= l.min_keys /\ l.right_count >= l.min_keys
        /\ 2 * l.min_keys + 1 =< l.max_keys
=============================================================================

-------------------------- MODULE NodeLayoutProofs --------------------------
(***************************************************************************)
(* Every index that CREATE INDEX can make gets a sound node layout.        *)
(***************************************************************************)
EXTENDS NodeLayout, TLAPS

\* A quotient, multiplied back, comes within one divisor of the dividend.
LEMMA Quotient ==
    ASSUME NEW n \in Nat, NEW d \in Nat \ {0}
    PROVE  /\ n \div d \in Nat
           /\ (n \div d) * d =< n
           /\ n < (n \div d) * d + d
  BY Z3

LEMMA Remainder == ASSUME NEW n \in Nat, NEW m \in Nat \ {0}, n < m PROVE n % m = n
  BY Z3

\* A number that fits sixteen bits is kept.
LEMMA Fits == ASSUME NEW n \in Nat, n < 65536 PROVE W16(n) = n
<1>1. 65536 \in Nat \ {0}
  BY Z3
<1>2. n % 65536 = n
  BY <1>1, Remainder
<1> QED BY <1>2 DEF W16

\* A block that has room for three keys, whatever it has beyond that.
Room(node_size, key_size) ==
    /\ node_size \in Nat /\ node_size < 65536
    /\ key_size \in Nat \ {0}
    /\ node_size >= 11 + 3 * (key_size + 16)

\* With q keys there is room for q keys, q offsets and q + 1 children, and q
\* is the most.
LEMMA KeysFit ==
    ASSUME NEW N, NEW K, Room(N, K)
    PROVE  \E q \in Nat :
              /\ q = MaxKeysOf(N, K)
              /\ q >= 3
              /\ q * (K + 16) =< N - 11
<1> DEFINE space == N - 11
           d == K + 16
           q == space \div d
<1>1. space \in Nat /\ space < 65536 /\ d \in Nat \ {0} /\ d >= 17 /\ space >= 3 * d
  BY Z3 DEF Room
<1>2. q \in Nat /\ q * d =< space /\ space < q * d + d
  <2> HIDE DEF space, d
  <2> QED BY <1>1, Quotient
<1>3. q >= 3
  <2> HIDE DEF space, d, q
  <2>1. 3 * d < (q + 1) * d
    BY <1>1, <1>2, Z3
  <2>2. ASSUME q + 1 =< 3 PROVE FALSE
    <3>1. (q + 1) * d =< 3 * d
      BY <1>1, <1>2, <2>2, Z3
    <3> QED BY <3>1, <2>1, <1>1, <1>2, Z3
  <2> QED BY <2>2, <1>2, Z3
<1>4. q =< space
  <2> HIDE DEF space, d, q
  <2>1. q =< q * d
    BY <1>1, <1>2, Z3
  <2> QED BY <2>1, <1>1, <1>2, Z3
<1>5. MaxKeysOf(N, K) = q
  <2>1. N - FlagsSize - KeyCountSize - ChildSize = space
    BY Z3 DEF FlagsSize, KeyCountSize, ChildSize, Room
  <2>2. K + OffsetSize + ChildSize = d
    BY Z3 DEF OffsetSize, ChildSize, Room
  <2>3. W16(space) = space
    <3> HIDE DEF space
    <3> QED BY <1>1, Fits
  <2>4. W16(q) = q
    <3> HIDE DEF q, space
    <3> QED BY <1>1, <1>2, <1>4, Fits, Z3
  <2> HIDE DEF space, d
  <2> QED BY <2>1, <2>2, <2>3, <2>4 DEF MaxKeysOf
<1> HIDE DEF q
<1> QED BY <1>2, <1>3, <1>5

\* btree_layout_create puts flags, key count, keys, offsets and children one
\* behind the other into the block, without wrapping.
THEOREM SectionsAlwaysFit ==
    ASSUME NEW N, NEW K, Room(N, K)
    PROVE  SectionsFit(N, K)
<1>1. PICK q \in Nat : q = MaxKeysOf(N, K) /\ q >= 3 /\ q * (K + 16) =< N - 11
  BY KeysFit
<1>2. N \in Nat /\ N < 65536 /\ K \in Nat \ {0}
  BY DEF Room
<1> DEFINE kk == q * K
<1>3. kk \in Nat /\ kk + 16 * q + 11 =< N
  BY <1>1, <1>2, Z3
<1> HIDE DEF kk
<1>4. /\ kk < 65536 /\ 3 + kk \in Nat /\ 3 + kk < 65536
      /\ 8 * q \in Nat /\ 8 * q < 65536
      /\ 3 + kk + 8 * q \in Nat /\ 3 + kk + 8 * q < 65536
      /\ 8 * q + 8 \in Nat /\ 8 * q + 8 < 65536
  BY <1>1, <1>2, <1>3, Z3
<1>5. W16(kk) = kk /\ W16(3 + kk) = 3 + kk
  BY <1>3, <1>4, Fits
<1>6. W16(8 * q) = 8 * q /\ W16(8 * q + 8) = 8 * q + 8
  BY <1>4, Fits
<1>7. W16(3 + kk + 8 * q) = 3 + kk + 8 * q
  BY <1>4, Fits
<1>8. q * OffsetSize = 8 * q /\ (q + 1) * ChildSize = 8 * q + 8
      /\ FlagsSize + KeyCountSize = 3
  BY <1>1, Z3 DEF OffsetSize, ChildSize, FlagsSize, KeyCountSize
<1> DEFINE l == Layout(N, K)
<1>9. /\ l.max_keys = q
      /\ l.keys_offset = 3 /\ l.keys_size = kk
      /\ l.offsets_offset = 3 + kk /\ l.offsets_size = 8 * q
      /\ l.children_offset = 3 + kk + 8 * q /\ l.children_size = 8 * q + 8
  BY <1>1, <1>5, <1>6, <1>7, <1>8 DEF Layout, kk
<1> HIDE DEF l
<1>10. l.children_offset + l.children_size =< N
  BY <1>1, <1>2, <1>3, <1>9, Z3
<1> QED
  BY <1>8, <1>9, <1>10 DEF SectionsFit, Holds, l, kk

\* A node holds three keys or more, and every node a split or a merge makes
\* has a number of keys that a node may have.
THEOREM CountsAlwaysFit ==
    ASSUME NEW N, NEW K, Room(N, K)
    PROVE  CountsFit(N, K)
<1>1. PICK q \in Nat : q = MaxKeysOf(N, K) /\ q >= 3 /\ q * (K + 16) =< N - 11
  BY KeysFit
<1>2. q < 65536
  <2>1. N \in Nat /\ N < 65536 /\ K \in Nat
    BY DEF Room
  <2>2. q =< q * (K + 16)
    BY <1>1, <2>1, Z3
  <2> QED BY <1>1, <2>1, <2>2, Z3
<1> DEFINE low == (q - 1) \div 2
           left == (q + 1) \div 2
<1>3. /\ low \in Nat /\ left \in Nat /\ left =< q
      /\ low >= 1 /\ left >= low /\ q - left >= low /\ 2 * low + 1 =< q
  BY <1>1, Z3
<1>4. MinKeysOf(q) = low /\ LeftCountOf(q) = left
  BY <1>1, Z3 DEF MinKeysOf, LeftCountOf
<1> HIDE DEF low, left
<1>5. q - left \in Nat /\ q - left < 65536
  BY <1>1, <1>2, <1>3, Z3
<1>6. W16(q - left) = q - left
  BY <1>5, Fits
<1>7. left + (q - left) = q
  BY <1>1, <1>3, Z3
<1> DEFINE l == Layout(N, K)
<1>8. /\ l.max_keys = q /\ l.min_keys = low
      /\ l.left_count = left /\ l.right_count = q - left
  BY <1>1, <1>4, <1>6 DEF Layout
<1> HIDE DEF l
<1> QED BY <1>1, <1>3, <1>7, <1>8 DEF CountsFit, l

\* Four key parts of at most a byte's length (MAX_INDEX_COLUMN_COUNT, part_len):
\* every key that CREATE INDEX can make has a sound layout in a block of
\* BTREE_NODE_DEFAULT_SIZE.
THEOREM EveryKeyHasALayout ==
    ASSUME NEW K \in 1..(4 * 255)
    PROVE  SectionsFit(4096, K) /\ CountsFit(4096, K)
<1>1. Room(4096, K)
  BY Z3 DEF Room
<1> QED BY <1>1, SectionsAlwaysFit, CountsAlwaysFit
=============================================================================

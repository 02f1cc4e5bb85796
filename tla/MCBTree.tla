------------------------------ MODULE MCBTree ------------------------------
(* Instances of BTree for TLC. *)
EXTENDS BTree

CONSTANT Seed   \* keys already inserted, in this order

NoKeys == <<>>

\* Descending insertions split at the left end and make the tree deep soonest.
Nine == [i \in 1..9 |-> 10 - i]

Seeded == tree = FoldLeft(LAMBDA t, k : Inserted(t, k, Min(Offset)), EmptyTree, Seed)

SeededSpec == Seeded /\ [][SoundNext]_tree
=============================================================================

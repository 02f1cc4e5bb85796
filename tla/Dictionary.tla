----------------------------- MODULE Dictionary -----------------------------
(***************************************************************************)
(* What an index promises (index.c's vtable: insert, delete, search): a    *)
(* dictionary of unique keys, each with the offset of one row.  Its        *)
(* operations are functions of its entries, so that they can be compared   *)
(* with what the same call makes of a tree.                                *)
(***************************************************************************)

Has(dict, k) == \E e \in dict : e.key = k

Unique(dict) == \A e, f \in dict : e.key = f.key => e = f

\* insert, of a key that is not there
With(dict, k, o) == dict \cup {[key |-> k, off |-> o]}

\* delete
Without(dict, k) == {e \in dict : e.key # k}
=============================================================================

------------------------------ MODULE Registry ------------------------------
(***************************************************************************)
(* What the catalog promises: a register of tables and of their indexes    *)
(* that statements change one entry at a time and restarts leave alone     *)
(* ("the table registry in a .catalog file", README.md).                   *)
(***************************************************************************)
CONSTANTS Table, Index

VARIABLES
    registry,   \* the registered tables: name, names of its indexes
    up          \* does a process run?

register == <<registry, up>>

Named(t) == {r \in registry : r.name = t}

Create(t) ==
    /\ Named(t) = {}
    /\ registry' = registry \cup {[name |-> t, defs |-> {}]}

Drop(t) == Named(t) # {} /\ registry' = registry \ Named(t)

Redefine(t, defs) ==
    /\ Named(t) # {}
    /\ registry' = (registry \ Named(t)) \cup {[name |-> t, defs |-> defs]}

AddIndex(t, i) == \E r \in Named(t) : i \notin r.defs /\ Redefine(t, r.defs \cup {i})

RemoveIndex(t, i) == \E r \in Named(t) : i \in r.defs /\ Redefine(t, r.defs \ {i})

Change ==
    \E t \in Table :
        \/ Create(t)
        \/ Drop(t)
        \/ \E i \in Index : AddIndex(t, i) \/ RemoveIndex(t, i)

Init == registry = {} /\ up = FALSE

Next ==
    \/ up /\ Change /\ UNCHANGED up
    \/ up' = ~up /\ UNCHANGED registry
=============================================================================

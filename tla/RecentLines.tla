---------------------------- MODULE RecentLines ----------------------------
(***************************************************************************)
(* What a command history promises: the last Capacity lines, oldest first, *)
(* none recorded twice in a row; a process that dies may take the newest   *)
(* lines with it, however many, and leaves the others.                     *)
(***************************************************************************)
EXTENDS Integers, SequencesExt

CONSTANTS Line, Capacity

VARIABLES
    log,   \* the lines
    up     \* does a process run?

LastOf(s) == SubSeq(s, IF Len(s) > Capacity THEN Len(s) - Capacity + 1 ELSE 1, Len(s))

Record(l) ==
    /\ up
    /\ log # <<>> => Last(log) # l
    /\ log' = LastOf(Append(log, l))
    /\ UNCHANGED up

Stop ==
    /\ up
    /\ up' = FALSE
    /\ \E n \in 0..Len(log) : log' = SubSeq(log, 1, n)

Start == ~up /\ up' = TRUE /\ UNCHANGED log

Init == log = <<>> /\ up = FALSE

Next == Stop \/ Start \/ \E l \in Line : Record(l)

Spec == Init /\ [][Next]_<<log, up>>
=============================================================================

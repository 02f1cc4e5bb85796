----------------------------- MODULE Characters -----------------------------
(***************************************************************************)
(* What a line editor promises: the line is a sequence of characters, the  *)
(* cursor stands between two of them, and no key splits one or touches     *)
(* more than its own.  A character may arrive in several pieces.           *)
(***************************************************************************)
EXTENDS Integers, SequencesExt

CONSTANTS
    Beginning,   \* first pieces of characters
    Space,
    Grows(_, _), \* is the second the first with one more piece?
    Recalled     \* lines of the history

VARIABLES
    text,
    at      \* characters before the cursor

chars == <<text, at>>

Splice(from, to, middle) ==
    SubSeq(text, 1, from) \o middle \o SubSeq(text, to + 1, Len(text))

\* Places where a word begins.
WordStarts ==
    {w \in 0..(Len(text) - 1) :
        text[w + 1] # Space /\ (w > 0 => text[w] = Space)}

WordBefore == Max({0} \cup {w \in WordStarts : w < at})
WordAfter == Min({Len(text)} \cup {w \in WordStarts : w > at})

Insert ==
    /\ \E c \in Beginning : text' = Splice(at, at, <<c>>)
    /\ at' = at + 1

Continue ==
    /\ at \in DOMAIN text \cap DOMAIN text'
    /\ Grows(text[at], text'[at])
    /\ text' = Splice(at - 1, at, <<text'[at]>>)
    /\ UNCHANGED at

EraseBefore == at > 0 /\ text' = Splice(at - 1, at, <<>>) /\ at' = at - 1

EraseAfter == at < Len(text) /\ text' = Splice(at, at + 1, <<>>) /\ UNCHANGED at

EraseWord == text' = Splice(WordBefore, at, <<>>) /\ at' = WordBefore

Move ==
    /\ at' \in {at - 1, at + 1, 0, Len(text), WordBefore, WordAfter} \cap (0..Len(text))
    /\ UNCHANGED text

Recall == text' \in Recalled /\ at' = Len(text')

Clear == text' = <<>> /\ at' = 0

Init == text = <<>> /\ at = 0

Next ==
    \/ Insert \/ Continue
    \/ EraseBefore \/ EraseAfter \/ EraseWord
    \/ Move \/ Recall \/ Clear
=============================================================================

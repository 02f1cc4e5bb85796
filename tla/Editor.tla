------------------------------- MODULE Editor -------------------------------
(***************************************************************************)
(* The line editor of the REPL (repl_run and read_key, cli/repl.c): a      *)
(* buffer of bytes, a cursor between them, the bytes the terminal has sent *)
(* and the REPL has not read, and the column where the terminal shows the  *)
(* cursor.  A key is a sequence of bytes; one that the REPL does not know, *)
(* or meets in the wrong place, is read in part, and the rest is typed.    *)
(* Which line the history brings back is the matter of module History.     *)
(***************************************************************************)
EXTENDS Integers, SequencesExt

CONSTANTS
    Key,     \* keys the user has; a subset of DOMAIN Sent
    Size,    \* MAX_INPUT_LEN
    Past,    \* lines of the history, as bytes
    KeyAfter \* bound: keys pressed on a line that is spoilt

(***************************************************************************)
(* Bytes and keys.  "lead2" and "lead3" begin a UTF-8 character of two and *)
(* of three bytes, "cont" continues one, "rubout" is 127; any other byte   *)
(* that prints is an "a" once it is in the buffer.                         *)
(***************************************************************************)
Sent ==
    [letter |-> <<"a">>, space |-> <<" ">>,
     wide2 |-> <<"lead2", "cont">>, wide3 |-> <<"lead3", "cont", "cont">>,
     backspace |-> <<"rubout">>, enter |-> <<"nl">>, escape |-> <<"esc">>,
     up |-> <<"esc", "[", "A">>, down |-> <<"esc", "[", "B">>,
     right |-> <<"esc", "[", "C">>, left |-> <<"esc", "[", "D">>,
     delete |-> <<"esc", "[", "3", "~">>,
     ctrl_left |-> <<"esc", "[", "1", ";", "5", "D">>,
     ctrl_right |-> <<"esc", "[", "1", ";", "5", "C">>,
     f5 |-> <<"esc", "[", "1", "5", "~">>,
     ctrl_a |-> <<"^A">>, ctrl_d |-> <<"^D">>, ctrl_e |-> <<"^E">>,
     ctrl_l |-> <<"^L">>, ctrl_r |-> <<"^R">>, ctrl_w |-> <<"^W">>]

Control == {"nl", "esc", "^A", "^D", "^E", "^L", "^R", "^W"}
Stored == {"a", " ", "lead2", "lead3", "cont", "rubout"}
Width == [a |-> 1, lead2 |-> 2, lead3 |-> 3]
Store(b) == IF b \in Stored THEN b ELSE "a"
Byte == Stored \cup Control \cup {"[", "A", "B", "C", "D", "1", "3", "5", ";", "~"}

ASSUME EditorAssumption ==
    /\ KeyAfter \subseteq Key /\ Key \subseteq DOMAIN Sent
    /\ Size \in Nat \ {0}
    /\ \A l \in Past : l \in Seq(Stored) /\ Len(l) < Size

VARIABLES
    stream,  \* bytes sent and not read
    buf,     \* buf[0 .. buf_len - 1]
    cursor,  \* cursor_pos
    mode,    \* "edit", "search" (Ctrl+R) or "out"
    found,   \* the line match_idx points at, or NoLine
    column,  \* of the terminal's cursor, after the prompt
    spoilt   \* history: "swallowed", "cut" or "rubout", for this line

vars == <<stream, buf, cursor, mode, found, column, spoilt>>

NoLine == <<"nl">>

(***************************************************************************)
(* Places in the buffer.                                                   *)
(***************************************************************************)
\* A character begins after place p, or the line ends there.
Boundary(p) == p = 0 \/ p = Len(buf) \/ buf[p + 1] # "cont"

BugPreviousByte(p) == p - 1

Previous(p) == Max({q \in 0..(p - 1) : Boundary(q)})

Following(p) == Min({q \in (p + 1)..Len(buf) : Boundary(q)})

OnlySpaces(from, to) == \A k \in (from + 1)..to : buf[k] = " "
NoSpace(from, to) == \A k \in (from + 1)..to : buf[k] # " "

BugWordThenSpaces(p) ==
    LET s == Min({q \in 0..p : NoSpace(q, p)})
    IN  Min({q \in 0..s : OnlySpaces(q, s)})

WordLeft(p) ==
    LET s == Min({q \in 0..p : OnlySpaces(q, p)})
    IN  Min({q \in 0..s : NoSpace(q, s)})

WordRight(p) ==
    LET s == Max({q \in p..Len(buf) : NoSpace(p, q)})
    IN  Max({q \in s..Len(buf) : OnlySpaces(s, q)})

(***************************************************************************)
(* The screen: the terminal gives a character one column, 127 none, and    *)
(* takes a move by 0 as a move by 1.                                       *)
(***************************************************************************)
Shown(l) == Cardinality({k \in DOMAIN l : l[k] \notin {"cont", "rubout"}})

BugMoveByBytes(l, p) == Shown(l) - (Len(l) - p)

\* redraw: the prompt, the line, then back over what follows the cursor
Redrawn(l, p) ==
    LET after == Cardinality({k \in (p + 1)..Len(l) : l[k] # "cont"})
    IN  Max({0, Shown(l) - IF p < Len(l) THEN Max({1, after}) ELSE 0})

Redraw(l, p) ==
    /\ buf' = l
    /\ cursor' = p
    /\ column' = Redrawn(l, p)

Ignore == UNCHANGED <<buf, cursor, column>>

Erase(from, to) ==
    Redraw(SubSeq(buf, 1, from) \o SubSeq(buf, to + 1, Len(buf)), from)

(***************************************************************************)
(* read_key: the key the stream begins with and the bytes it takes, which  *)
(* may not all be there.                                                   *)
(***************************************************************************)
Digit == {"1", "3", "5"}

Needed ==
    IF stream[1] # "esc" THEN 1
    ELSE IF Len(stream) < 2 \/ stream[2] # "[" THEN 2
    ELSE IF Len(stream) < 3 \/ stream[3] \notin Digit THEN 3
    ELSE IF Len(stream) < 4 \/ <<stream[3], stream[4]>> # <<"1", ";">> THEN 4
    ELSE 6

Escapes ==
    [up |-> <<"[", "A">>, down |-> <<"[", "B">>, right |-> <<"[", "C">>,
     left |-> <<"[", "D">>, delete |-> <<"[", "3", "~">>,
     ctrl_left |-> <<"[", "1", ";", "5", "D">>,
     ctrl_right |-> <<"[", "1", ";", "5", "C">>]

\* A sequence that is not known is the key 27, which does nothing.
KeyRead ==
    IF Needed = 1 THEN stream[1]
    ELSE LET match == {k \in DOMAIN Escapes : Escapes[k] = SubSeq(stream, 2, Needed)}
         IN  IF match = {} THEN "esc" ELSE CHOOSE k \in match : TRUE

Readable == stream # <<>> /\ Len(stream) >= Needed

(***************************************************************************)
(* Keys of the edit loop.                                                  *)
(***************************************************************************)
\* The user types on when all is read, or after a lone Escape.
Press(k) ==
    /\ mode # "out"
    /\ spoilt = {} \/ k \in KeyAfter
    /\ stream \in {<<>>, <<"esc">>}
    /\ stream' = stream \o Sent[k]
    /\ UNCHANGED <<buf, cursor, mode, found, column, spoilt>>

Take(keys) ==
    /\ mode = "edit"
    /\ Readable
    /\ KeyRead \in keys
    /\ stream' = SubSeq(stream, Needed + 1, Len(stream))

Same == UNCHANGED <<mode, found, spoilt>>

\* The byte that a lone Escape takes with it begins a character.
Swallows == \E k \in 1..Needed : Needed > 1 /\ stream[k] \in {"lead2", "lead3"}

\* A character of which a byte is missing.
Broken(cell) == cell[1] \in DOMAIN Width /\ Len(cell) < Width[cell[1]]

Inserted(p, b) ==
    SubSeq(buf, 1, p) \o <<b>> \o SubSeq(buf, p + 1, Len(buf))

BugNoLimit ==
    /\ Take(Byte \ Control)
    /\ Redraw(Inserted(cursor, Store(KeyRead)), cursor + 1)
    /\ Same

\* Backspace comes here when there is nothing before the cursor.
InsertByte ==
    /\ Take(Byte \ Control)
    /\ KeyRead = "rubout" => cursor = 0
    /\ Len(buf) < Size - 1
    /\ Redraw(Inserted(cursor, Store(KeyRead)), cursor + 1)
    /\ spoilt' = spoilt \cup ({"rubout"} \cap {KeyRead})
    /\ UNCHANGED <<mode, found>>

BufferFull ==
    /\ Take(Byte \ Control)
    /\ KeyRead = "rubout" => cursor = 0
    /\ Len(buf) = Size - 1
    /\ Ignore
    /\ spoilt' = spoilt \cup IF /\ KeyRead = "cont" /\ cursor > 0
                                /\ Broken(SubSeq(buf, Previous(cursor) + 1, cursor))
                             THEN {"cut"} ELSE {}
    /\ UNCHANGED <<mode, found>>

Backspace ==
    /\ Take({"rubout"})
    /\ cursor > 0
    /\ Erase(Previous(cursor), cursor)
    /\ Same

Delete ==
    /\ Take({"delete"})
    /\ cursor < Len(buf)
    /\ Erase(cursor, Following(cursor))
    /\ Same

EraseWord ==
    /\ Take({"^W"})
    /\ cursor > 0
    /\ Erase(WordLeft(cursor), cursor)
    /\ Same

\* Left and Right move the terminal's cursor and do not redraw.
MoveLeft ==
    /\ Take({"left"})
    /\ cursor > 0
    /\ cursor' = Previous(cursor)
    /\ column' = Max({0, column - 1})
    /\ UNCHANGED buf
    /\ Same

MoveRight ==
    /\ Take({"right"})
    /\ cursor < Len(buf)
    /\ cursor' = Following(cursor)
    /\ column' = column + 1
    /\ UNCHANGED buf
    /\ Same

Jump ==
    /\ \/ Take({"^A"}) /\ cursor > 0 /\ Redraw(buf, 0)
       \/ Take({"^E"}) /\ cursor < Len(buf) /\ Redraw(buf, Len(buf))
       \/ Take({"ctrl_left"}) /\ cursor > 0 /\ Redraw(buf, WordLeft(cursor))
       \/ Take({"ctrl_right"}) /\ cursor < Len(buf) /\ Redraw(buf, WordRight(cursor))
       \/ Take({"^L"}) /\ Redraw(buf, cursor)
    /\ Same

\* Up and Down; History says which line.
Browse ==
    /\ Take({"up", "down"})
    /\ \E l \in Past : Redraw(l, Len(l))
    /\ Same

\* A key that has nothing to do, Escape and the unknown sequences.
Nothing ==
    /\ \/ Take({"esc", "up", "down"})
       \/ Take({"left", "ctrl_left", "^A", "^W"}) /\ cursor = 0
       \/ Take({"right", "ctrl_right", "^E", "delete"}) /\ cursor = Len(buf)
       \/ Take({"^D"}) /\ buf # <<>>
    /\ Ignore
    /\ spoilt' = spoilt \cup IF Swallows THEN {"swallowed"} ELSE {}
    /\ UNCHANGED <<mode, found>>

\* The line goes to execute_fn, unless four letters are "exit"; an empty one
\* only brings a new prompt.
Enter ==
    /\ Take({"nl"})
    /\ mode' \in {"edit"} \cup IF buf = <<"a", "a", "a", "a">> THEN {"out"} ELSE {}
    /\ buf' = <<>>
    /\ cursor' = 0
    /\ column' = 0
    /\ spoilt' = {}
    /\ UNCHANGED found

Quit ==
    /\ Take({"^D"})
    /\ buf = <<>>
    /\ mode' = "out"
    /\ UNCHANGED <<buf, cursor, found, column, spoilt>>

\* A new process; tcsetattr discards what has not been read.
Start ==
    /\ mode = "out"
    /\ mode' = "edit"
    /\ stream' = <<>>
    /\ spoilt' = {}
    /\ UNCHANGED <<buf, cursor, found, column>>

(***************************************************************************)
(* Ctrl+R: a loop of its own that reads bytes, not keys.                   *)
(***************************************************************************)
BeginSearch ==
    /\ Take({"^R"})
    /\ mode' = "search"
    /\ found' = NoLine
    /\ Ignore
    /\ UNCHANGED spoilt

SearchRead(bytes) ==
    /\ mode = "search"
    /\ stream # <<>>
    /\ Head(stream) \in bytes
    /\ stream' = Tail(stream)

Ends == {"nl", "esc"}
Unused == {"lead2", "lead3", "cont", "^A", "^D", "^E", "^L", "^W"}

\* What is typed so far may match any line, or none.
SearchOn ==
    /\ SearchRead(Byte \ (Ends \cup Unused))
    /\ found' \in Past \cup {NoLine}
    /\ Ignore
    /\ UNCHANGED <<mode, spoilt>>

SearchSkip ==
    /\ SearchRead(Unused)
    /\ Ignore
    /\ Same

\* Escape, and the first byte of any key that begins with it, ends the
\* search; the other bytes of that key are read as typed.
SearchEnd ==
    /\ SearchRead(Ends)
    /\ IF Head(stream) = "nl" /\ found # NoLine THEN Redraw(found, Len(found))
       ELSE Redraw(buf, cursor)
    /\ mode' = "edit"
    /\ found' = NoLine
    /\ UNCHANGED spoilt

Init ==
    /\ stream = <<>>
    /\ buf = <<>>
    /\ cursor = 0
    /\ mode = "edit"
    /\ found = NoLine
    /\ column = 0
    /\ spoilt = {}

Next ==
    \/ \E k \in Key : Press(k)
    \/ InsertByte \/ BufferFull
    \/ Backspace \/ Delete \/ EraseWord
    \/ MoveLeft \/ MoveRight \/ Jump
    \/ Browse \/ Nothing
    \/ Enter \/ Quit \/ Start
    \/ BeginSearch \/ SearchOn \/ SearchSkip \/ SearchEnd

Spec == Init /\ [][Next]_vars

(***************************************************************************)
(* Properties.                                                             *)
(***************************************************************************)
\* Every variable has its type, and the line fits its buffer with the final
\* zero: no key, of one byte or several, takes it past MAX_INPUT_LEN - 1.
LineFits ==
    /\ stream \in Seq(Byte)
    /\ buf \in Seq(Stored)
    /\ Len(buf) < Size
    /\ cursor \in 0..Len(buf)
    /\ mode \in {"edit", "search", "out"}
    /\ found \in Past \cup {NoLine}
    /\ column \in Nat
    /\ spoilt \subseteq {"swallowed", "cut", "rubout"}

\* The line as characters: each begins at a boundary and ends at the next.
Begins(l) == {k \in DOMAIN l : k = 1 \/ l[k] # "cont"}

Cells(l) ==
    LET First(k) == k \in Begins(l)
        b == SelectSeq([k \in DOMAIN l |-> k], First)
    IN  [n \in DOMAIN b |->
            SubSeq(l, b[n], IF n < Len(b) THEN b[n + 1] - 1 ELSE Len(l))]

CellsBefore(l, p) == Cardinality({k \in Begins(l) : k =< p})

\* The cursor never stands inside a character, whatever is moved over, erased,
\* recalled or cut off by the end of the buffer; only a lone Escape before a
\* wide character can make it (repl.c:347-381, five loops over buf).
CursorWhole == "swallowed" \notin spoilt => Boundary(cursor)

\* The terminal shows the cursor where it is, although Left and Right move it
\* by one column and all other keys by a redraw that counts what follows it.
\* Backspace at the start of a line, which stores a 127, ends that.
CursorShown ==
    mode = "edit" /\ spoilt \cap {"swallowed", "rubout"} = {} =>
        column = CellsBefore(buf, cursor)

\* Every key is one step of an editor of characters: the byte loops of
\* repl.c erase, pass and insert whole characters and whole words.
Grown(c, d) == d = Append(c, "cont") /\ Broken(c)

Whole == INSTANCE Characters WITH
    Beginning <- {<<b>> : b \in Stored \ {"cont"}},
    Space <- <<" ">>,
    Grows <- Grown,
    Recalled <- {Cells(l) : l \in Past},
    text <- Cells(buf),
    at <- CellsBefore(buf, cursor)

EditsCharacters ==
    Whole!Init /\ [][Whole!Next \/ "swallowed" \in spoilt \cup spoilt']_<<buf, cursor>>
=============================================================================

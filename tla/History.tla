------------------------------ MODULE History ------------------------------
(***************************************************************************)
(* The command history of the REPL (cli/repl.c): a ring of lines, its file *)
(* .maxql_history, which is rewritten after every new line, and the keys   *)
(* that bring lines back.  What the user types between two such keys is    *)
(* one step that leaves any line in the buffer.                            *)
(***************************************************************************)
EXTENDS Integers, Sequences

CONSTANTS
    Line,      \* lines the user may type, but for "" and "exit"
    Capacity   \* HISTORY_CAPACITY

ASSUME HistoryAssumption ==
    /\ Capacity \in Nat \ {0}
    /\ Line \cap {"", "exit"} = {}

VARIABLES
    history,   \* the ring
    count,     \* history_count
    write,     \* history_write
    file,      \* the lines of .maxql_history
    buf,       \* the line being edited
    saved,     \* saved_input
    browse,    \* browse_offset
    pc         \* "down", "edit", "save" or "run"

vars == <<history, count, write, file, buf, saved, browse, pc>>
ring == <<history, count, write>>
line == <<buf, saved, browse>>

Empty == ""
Exit == "exit"

\* The slot of the k-th newest line.
Slot(k) == (write - k + Capacity) % Capacity

\* The lines in the ring, oldest first, as history_save goes through them.
Recent == [i \in 1..count |-> history[Slot(count - i + 1)]]

Init ==
    /\ history = [i \in 0..(Capacity - 1) |-> Empty]
    /\ count = 0
    /\ write = 0
    /\ file = <<>>
    /\ buf = Empty
    /\ saved = Empty
    /\ browse = 0
    /\ pc = "down"

\* history_load, and the other buffers of a new process
Start ==
    /\ pc = "down"
    /\ LET n == IF Len(file) > Capacity THEN Capacity ELSE Len(file)
       IN  /\ history' = [i \in 0..(Capacity - 1) |->
                             IF i < n THEN file[i + 1] ELSE Empty]
           /\ count' = n
           /\ write' = n % Capacity
    /\ buf' = Empty
    /\ saved' = Empty
    /\ browse' = 0
    /\ pc' = "edit"
    /\ UNCHANGED file

Type(l) ==
    /\ pc = "edit"
    /\ buf' = l
    /\ UNCHANGED <<ring, file, saved, browse, pc>>

Up ==
    /\ pc = "edit"
    /\ browse < count
    /\ browse' = browse + 1
    /\ saved' = IF browse = 0 THEN buf ELSE saved
    /\ buf' = history[Slot(browse + 1)]
    /\ UNCHANGED <<ring, file, pc>>

Down ==
    /\ pc = "edit"
    /\ browse > 0
    /\ browse' = browse - 1
    /\ buf' = IF browse = 1 THEN saved ELSE history[Slot(browse - 1)]
    /\ UNCHANGED <<ring, file, saved, pc>>

\* Ctrl+R: typing and repeating lead to any line of the ring.
ReverseSearch ==
    /\ pc = "edit"
    /\ \E k \in 1..count : buf' = history[Slot(k)]
    /\ UNCHANGED <<ring, file, saved, browse, pc>>

(***************************************************************************)
(* The end of a line.                                                      *)
(***************************************************************************)
\* is_duplicate_record
Duplicate == count > 0 /\ history[Slot(1)] = buf

\* An empty line is a new prompt, and nothing else.
EnterEmpty ==
    /\ pc = "edit"
    /\ buf = Empty
    /\ UNCHANGED <<ring, file, buf, saved, browse, pc>>

EnterDuplicate ==
    /\ pc = "edit"
    /\ buf \notin {Empty, Exit}
    /\ Duplicate
    /\ pc' = "run"
    /\ UNCHANGED <<ring, file, line>>

BugCountOn == count + 1

CountAfter == IF count < Capacity THEN count + 1 ELSE count

\* history_save begins with fopen "w"
EnterNew ==
    /\ pc = "edit"
    /\ buf \notin {Empty, Exit}
    /\ ~Duplicate
    /\ history' = [history EXCEPT ![write] = buf]
    /\ write' = (write + 1) % Capacity
    /\ count' = CountAfter
    /\ file' = <<>>
    /\ pc' = "save"
    /\ UNCHANGED line

BugOldestFirst == history[Len(file)]

NextLine == Recent[Len(file) + 1]

SaveLine ==
    /\ pc = "save"
    /\ Len(file) < count
    /\ file' = Append(file, NextLine)
    /\ UNCHANGED <<ring, line, pc>>

SaveDone ==
    /\ pc = "save"
    /\ Len(file) = count
    /\ pc' = "run"
    /\ UNCHANGED <<ring, file, line>>

\* execute_fn comes back; the next prompt
NextPrompt ==
    /\ pc = "run"
    /\ pc' = "edit"
    /\ buf' = Empty
    /\ browse' = 0
    /\ UNCHANGED <<ring, file, saved>>

\* Ctrl+D on an empty line, "exit", SIGINT at any time, a fatal error of the
\* statement: the ring is lost, the file stays as it is.
Leave ==
    /\ pc # "down"
    /\ pc' = "down"
    /\ UNCHANGED <<ring, file, line>>

Next ==
    \/ Start
    \/ \E l \in Line \cup {Empty, Exit} : Type(l)
    \/ Up \/ Down \/ ReverseSearch
    \/ EnterEmpty \/ EnterDuplicate \/ EnterNew
    \/ SaveLine \/ SaveDone \/ NextPrompt
    \/ Leave

Spec == Init /\ [][Next]_vars

(***************************************************************************)
(* Properties.                                                             *)
(***************************************************************************)
\* While no save is under way the file holds what the ring holds, in the
\* order in which it was typed, so the next process starts with the same
\* history (history_save, history_load: three loops over one ring).
FileCurrent == pc \in {"edit", "run"} => file = Recent

\* The ring, while a process runs, and the file, while none does, are the
\* last Capacity lines: wrapping round loses the oldest only, and what a death
\* inside history_save loses are the newest (push, save and load agree on
\* count and write; FileCurrent says that no other death loses any).
Log == IF pc = "down" THEN file ELSE Recent

Promise == INSTANCE RecentLines WITH log <- Log, up <- pc # "down"
KeepsRecent == Promise!Spec
=============================================================================

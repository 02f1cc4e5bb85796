--------------------------- MODULE HistoryProofs ---------------------------
(***************************************************************************)
(* Theorems about History, for every set of lines and every capacity of    *)
(* the ring: the ring and its file are the last lines, in order.           *)
(***************************************************************************)
EXTENDS History, SequenceTheorems, TLAPS

\* The slot of the k-th newest line when w is to be written next.
SlotAt(w, k) == (w - k + Capacity) % Capacity

\* What was typed at the prompt; what is recorded is none of the two others.
Input == Line \cup {Empty, Exit}

\* Every variable has its type, the slots of the ring that count says are used
\* hold lines, and browsing stays among them.
RingInv ==
    /\ history \in [0..(Capacity - 1) -> Input]
    /\ count \in 0..Capacity
    /\ write \in 0..(Capacity - 1)
    /\ \A k \in 1..count : history[SlotAt(write, k)] \in Line
    /\ file \in Seq(Line) /\ Len(file) =< Capacity
    /\ buf \in Input /\ saved \in Input
    /\ browse \in 0..count
    /\ pc \in {"down", "edit", "save", "run"}

\* The file is the ring, and while it is written its beginning.
FileInv ==
    /\ pc \in {"edit", "run"} => file = Recent
    /\ pc = "save" =>
        /\ Len(file) =< count
        /\ \A p \in 1..Len(file) : file[p] = Recent[p]

(***************************************************************************)
(* Arithmetic of the ring.                                                 *)
(***************************************************************************)
LEMMA Wrap ==
    ASSUME NEW c \in Nat \ {0}, NEW x \in Int
    PROVE  /\ x \in 0..(c - 1) => x % c = x
           /\ x \in c..(2 * c - 1) => x % c = x - c
<1>1. ASSUME x \in 0..(c - 1) PROVE x % c = x
  BY <1>1
<1>2. ASSUME x \in c..(2 * c - 1) PROVE x % c = x - c
  BY <1>2
<1>3. QED
  BY <1>1, <1>2

LEMMA SlotIs ==
    ASSUME NEW w \in 0..(Capacity - 1), NEW k \in 1..Capacity
    PROVE  /\ SlotAt(w, k) = IF k =< w THEN w - k ELSE w - k + Capacity
           /\ SlotAt(w, k) \in 0..(Capacity - 1)
<1>1. Capacity \in Nat \ {0}
  BY HistoryAssumption
<1>2. w - k + Capacity \in Int
  BY <1>1
<1> USE DEF SlotAt
<1>3. CASE k =< w
  <2>1. w - k + Capacity \in Capacity..(2 * Capacity - 1)
    BY <1>1, <1>3
  <2>2. (w - k + Capacity) % Capacity = w - k + Capacity - Capacity
    BY <1>1, <1>2, <2>1, Wrap
  <2>3. w - k + Capacity - Capacity = w - k
    BY <1>1
  <2>4. QED
    BY <1>1, <1>3, <2>2, <2>3
<1>4. CASE k > w
  <2>1. w - k + Capacity \in 0..(Capacity - 1)
    BY <1>1, <1>4
  <2>2. QED
    BY <1>1, <1>2, <1>4, <2>1, Wrap
<1>5. QED
  BY <1>1, <1>3, <1>4

LEMMA NextWrite ==
    ASSUME NEW w \in 0..(Capacity - 1)
    PROVE  (w + 1) % Capacity = IF w = Capacity - 1 THEN 0 ELSE w + 1
<1>0. Capacity \in Nat \ {0}
  BY HistoryAssumption
<1>1. w + 1 \in Int
  BY <1>0
<1>2. w + 1 \in 0..(Capacity - 1) => (w + 1) % Capacity = w + 1
  BY <1>0, <1>1, Wrap
<1>3. w + 1 \in Capacity..(2 * Capacity - 1) => (w + 1) % Capacity = w + 1 - Capacity
  BY <1>0, <1>1, Wrap
<1>4. QED
  BY <1>0, <1>2, <1>3

\* The slot of a new line is the newest, and every other line is one older.
LEMMA SlotMoves ==
    ASSUME write \in 0..(Capacity - 1), write' = (write + 1) % Capacity
    PROVE  /\ write' \in 0..(Capacity - 1)
           /\ SlotAt(write', 1) = write
           /\ \A k \in 2..Capacity :
                /\ SlotAt(write', k) = SlotAt(write, k - 1)
                /\ SlotAt(write', k) \in 0..(Capacity - 1) \ {write}
<1>1. Capacity \in Nat \ {0}
  BY HistoryAssumption
<1>2. write' = IF write = Capacity - 1 THEN 0 ELSE write + 1
  BY NextWrite
<1>3. write' \in 0..(Capacity - 1)
  BY <1>1, <1>2
<1>4. \A k \in 1..Capacity :
        /\ SlotAt(write', k) = IF k =< write' THEN write' - k ELSE write' - k + Capacity
        /\ SlotAt(write, k) = IF k =< write THEN write - k ELSE write - k + Capacity
  BY <1>3, SlotIs
<1>5. SlotAt(write', 1) = write
  BY <1>1, <1>2, <1>4
<1>6. ASSUME NEW k \in 2..Capacity
      PROVE  /\ SlotAt(write', k) = SlotAt(write, k - 1)
             /\ SlotAt(write', k) \in 0..(Capacity - 1) \ {write}
  <2>1. k \in 1..Capacity /\ k - 1 \in 1..Capacity
    BY <1>1
  <2>2. /\ SlotAt(write', k) = IF k =< write' THEN write' - k ELSE write' - k + Capacity
        /\ SlotAt(write, k - 1) = IF k - 1 =< write THEN write - (k - 1)
                         ELSE write - (k - 1) + Capacity
    BY <1>4, <2>1
  <2>3. QED
    BY <1>1, <1>2, <2>2
<1>7. QED
  BY <1>3, <1>5, <1>6

LEMMA StartSlots ==
    ASSUME NEW n \in 0..Capacity, write' = n % Capacity
    PROVE  /\ write' \in 0..(Capacity - 1)
           /\ \A k \in 1..n : SlotAt(write', k) = n - k
<1>1. Capacity \in Nat \ {0}
  BY HistoryAssumption
<1>2. n \in Int
  BY <1>1
<1>3. write' = IF n = Capacity THEN 0 ELSE n
  <2>1. n \in 0..(Capacity - 1) => n % Capacity = n
    BY <1>1, <1>2, Wrap
  <2>2. n \in Capacity..(2 * Capacity - 1) => n % Capacity = n - Capacity
    BY <1>1, <1>2, Wrap
  <2>3. QED
    BY <1>1, <2>1, <2>2
<1>4. write' \in 0..(Capacity - 1)
  BY <1>1, <1>3
<1>5. ASSUME NEW k \in 1..n
      PROVE  SlotAt(write', k) = n - k
  <2>1. k \in 1..Capacity
    BY <1>1
  <2>2. SlotAt(write', k) = IF k =< write' THEN write' - k ELSE write' - k + Capacity
    BY <1>4, <2>1, SlotIs
  <2>3. QED
    BY <1>1, <1>3, <2>2
<1>6. QED
  BY <1>4, <1>5

\* What Recent is, in a ring that is in order.
RecentSeq ==
    /\ Recent \in Seq(Line)
    /\ Len(Recent) = count
    /\ \A p \in 1..count : Recent[p] = history[SlotAt(write, count - p + 1)]

LEMMA RecentIs == RingInv => RecentSeq
<1> SUFFICES ASSUME RingInv PROVE RecentSeq
  OBVIOUS
<1>1. Capacity \in Nat \ {0}
  BY HistoryAssumption
<1>2. count \in Nat
  BY <1>1 DEF RingInv
<1>3. \A p \in 1..count : count - p + 1 \in 1..count
  BY <1>2
<1>4. Recent \in [1..count -> Line]
  BY <1>3 DEF Recent, RingInv, Slot, SlotAt
<1>5. Recent \in Seq(Line)
  BY <1>2, <1>4, SeqDef
<1>6. Len(Recent) = count
  BY <1>2, <1>4, <1>5, LenProperties
<1>7. QED
  BY <1>2, <1>5, <1>6 DEF Recent, RecentSeq, Slot, SlotAt

LEMMA RecentIsNext == RingInv' => RecentSeq'
BY RecentIs, PTL

(***************************************************************************)
(* The ring and the file, step by step.                                    *)
(***************************************************************************)
LEMMA InitRing == Init => RingInv /\ FileInv
<1> SUFFICES ASSUME Init PROVE RingInv /\ FileInv
  OBVIOUS
<1>1. Capacity \in Nat \ {0}
  BY HistoryAssumption
<1>2. file \in Seq(Line) /\ Len(file) = 0
  BY EmptySeq DEF Init
<1>3. QED
  BY <1>1, <1>2 DEF Init, RingInv, FileInv, Input

LEMMA StartRing ==
    ASSUME RingInv, Start
    PROVE  RingInv' /\ Recent' = file
<1>1. Capacity \in Nat \ {0}
  BY HistoryAssumption
<1>a. PICK n : n = Len(file)
  OBVIOUS
<1>2. n \in 0..Capacity /\ \A p \in 1..n : file[p] \in Line
  BY <1>1, <1>a, LenProperties, ElementOfSeq DEF RingInv
<1>3. /\ history' = [i \in 0..(Capacity - 1) |-> IF i < n THEN file[i + 1] ELSE Empty]
      /\ count' = n
      /\ write' = n % Capacity
      /\ buf' = Empty /\ saved' = Empty /\ browse' = 0 /\ pc' = "edit" /\ file' = file
  <2>1. (IF Len(file) > Capacity THEN Capacity ELSE Len(file)) = n
    BY <1>1, <1>2, <1>a
  <2>2. QED
    BY <1>a, <2>1 DEF Start
<1>4. history' \in [0..(Capacity - 1) -> Input]
  BY <1>1, <1>2, <1>3 DEF Input
<1>5. write' \in 0..(Capacity - 1) /\ \A k \in 1..n : SlotAt(write', k) = n - k
  BY <1>2, <1>3, StartSlots
<1>6. ASSUME NEW k \in 1..n
      PROVE  history'[SlotAt(write', k)] = file[n - k + 1] /\ n - k + 1 \in 1..n
  <2>1. n - k \in 0..(Capacity - 1) /\ n - k < n
    BY <1>1, <1>2
  <2>2. QED
    BY <1>2, <1>3, <1>5, <2>1
<1>7. RingInv'
  <2>1. \A k \in 1..count' : history'[SlotAt(write', k)] \in Line
    BY <1>2, <1>3, <1>6
  <2>2. browse' \in 0..count' /\ count' \in 0..Capacity
    BY <1>1, <1>2, <1>3
  <2>3. QED
    BY <1>3, <1>4, <1>5, <2>1, <2>2 DEF RingInv, Input
<1>8. Recent' = file
  <2>1. /\ Recent' \in Seq(Line) /\ Len(Recent') = n
        /\ \A p \in 1..n : Recent'[p] = history'[SlotAt(write', n - p + 1)]
    BY <1>3, <1>7, RecentIsNext DEF RecentSeq
  <2>2. ASSUME NEW p \in 1..n PROVE Recent'[p] = file[p]
    <3>1. n - p + 1 \in 1..n /\ n - (n - p + 1) + 1 = p
      BY <1>2
    <3>2. QED
      BY <1>6, <2>1, <3>1
  <2>3. QED
    BY <1>a, <2>1, <2>2, SeqEqual DEF RingInv
<1>9. QED
  BY <1>7, <1>8

\* Pushing a line moves every other one place back, and the oldest out of a
\* full ring.
LEMMA PushRing ==
    ASSUME RingInv, EnterNew
    PROVE  /\ RingInv'
           /\ buf \in Line
           /\ Len(Recent') = CountAfter
           /\ Recent'[CountAfter] = buf
           /\ \A p \in 1..(CountAfter - 1) : Recent'[p] = Recent[p + count - CountAfter + 1]
<1>1. Capacity \in Nat \ {0}
  BY HistoryAssumption
<1>2. /\ history' = [history EXCEPT ![write] = buf]
      /\ write' = (write + 1) % Capacity
      /\ count' = CountAfter
      /\ file' = <<>> /\ pc' = "save"
      /\ UNCHANGED <<buf, saved, browse>>
      /\ buf \in Line
  BY DEF EnterNew, RingInv, Input, line
<1>3. count \in 0..Capacity /\ CountAfter \in 1..Capacity /\ CountAfter \in {count, count + 1}
  BY <1>1 DEF CountAfter, RingInv
<1>4. /\ write' \in 0..(Capacity - 1)
      /\ SlotAt(write', 1) = write
      /\ \A k \in 2..Capacity :
            /\ SlotAt(write', k) = SlotAt(write, k - 1)
            /\ SlotAt(write', k) \in 0..(Capacity - 1) \ {write}
  BY <1>2, SlotMoves DEF RingInv
<1>5. history'[SlotAt(write', 1)] = buf
  BY <1>2, <1>4 DEF RingInv
<1>6. ASSUME NEW k \in 2..Capacity
      PROVE  history'[SlotAt(write', k)] = history[SlotAt(write, k - 1)]
  BY <1>2, <1>4 DEF RingInv
<1>7. ASSUME NEW k \in 1..count' PROVE history'[SlotAt(write', k)] \in Line
  <2>1. CASE k = 1
    BY <1>2, <1>5, <2>1
  <2>2. CASE k # 1
    <3>1. k \in 2..Capacity /\ k - 1 \in 1..count
      BY <1>1, <1>2, <1>3, <2>2
    <3>2. QED
      BY <1>6, <3>1 DEF RingInv
  <2>3. QED
    BY <2>1, <2>2
<1>8. RingInv'
  <2>1. file' \in Seq(Line) /\ Len(file') = 0
    BY <1>2, EmptySeq
  <2>2. history' \in [0..(Capacity - 1) -> Input]
    BY <1>2 DEF RingInv, Input
  <2>3. browse' \in 0..count'
    BY <1>1, <1>2, <1>3 DEF RingInv
  <2>4. QED
    BY <1>1, <1>2, <1>3, <1>4, <1>7, <2>1, <2>2, <2>3 DEF RingInv
<1>9. /\ Len(Recent') = CountAfter
      /\ \A p \in 1..CountAfter : Recent'[p] = history'[SlotAt(write', CountAfter - p + 1)]
  BY <1>2, <1>8, RecentIsNext DEF RecentSeq
<1>10. Recent'[CountAfter] = buf
  <2>1. CountAfter \in 1..CountAfter /\ CountAfter - CountAfter + 1 = 1
    BY <1>1, <1>3
  <2>2. QED
    BY <1>5, <1>9, <2>1
<1>11. ASSUME NEW p \in 1..(CountAfter - 1)
       PROVE  Recent'[p] = Recent[p + count - CountAfter + 1]
  <2> DEFINE k == CountAfter - p + 1
             q == p + count - CountAfter + 1
  <2>1. /\ k \in 2..Capacity /\ p \in 1..CountAfter
        /\ q \in 1..count /\ count - q + 1 = k - 1
    BY <1>1, <1>3
  <2>2. Recent'[p] = history[SlotAt(write, k - 1)]
    BY <1>6, <1>9, <2>1
  <2>3. Recent[q] = history[SlotAt(write, count - q + 1)]
    BY <2>1, RecentIs DEF RecentSeq
  <2>4. QED
    BY <2>1, <2>2, <2>3
<1>12. QED
  BY <1>2, <1>8, <1>9, <1>10, <1>11

LEMMA NextRing == RingInv /\ FileInv /\ [Next]_vars => RingInv' /\ FileInv'
<1> SUFFICES ASSUME RingInv, FileInv, [Next]_vars
             PROVE  RingInv' /\ FileInv'
  OBVIOUS
<1>0. Capacity \in Nat \ {0}
  BY HistoryAssumption
<1>1. UNCHANGED ring => Recent' = Recent
  BY DEF ring, Recent, Slot
<1>2. CASE Start
  BY <1>2, StartRing DEF Start, FileInv
<1>3. ASSUME NEW l \in Input, Type(l)
      PROVE  RingInv' /\ FileInv'
  BY <1>1, <1>3 DEF Type, ring, RingInv, FileInv
<1>4. CASE Up
  <2>1. browse + 1 \in 1..count /\ browse + 1 \in 0..count
    BY <1>0, <1>4 DEF Up, RingInv
  <2>2. history[Slot(browse + 1)] \in Input
    BY <2>1 DEF RingInv, Input, Slot, SlotAt
  <2>3. RingInv'
    BY <1>4, <2>1, <2>2 DEF Up, ring, RingInv
  <2>4. QED
    BY <1>1, <1>4, <2>3 DEF Up, ring, FileInv
<1>5. CASE Down
  <2>1. browse - 1 \in 0..count /\ (browse # 1 => browse - 1 \in 1..count)
    BY <1>0, <1>5 DEF Down, RingInv
  <2>2. browse # 1 => history[Slot(browse - 1)] \in Input
    BY <2>1 DEF RingInv, Input, Slot, SlotAt
  <2>3. RingInv'
    BY <1>5, <2>1, <2>2 DEF Down, ring, RingInv
  <2>4. QED
    BY <1>1, <1>5, <2>3 DEF Down, ring, FileInv
<1>6. CASE ReverseSearch
  <2>1. \A k \in 1..count : history[Slot(k)] \in Input
    BY DEF RingInv, Input, Slot, SlotAt
  <2>2. RingInv'
    BY <1>6, <2>1 DEF ReverseSearch, ring, RingInv
  <2>3. QED
    BY <1>1, <1>6, <2>2 DEF ReverseSearch, ring, FileInv
<1>7. CASE EnterEmpty \/ UNCHANGED vars
  BY <1>1, <1>7 DEF EnterEmpty, vars, ring, RingInv, FileInv
<1>8. CASE EnterDuplicate
  BY <1>1, <1>8 DEF EnterDuplicate, ring, line, RingInv, FileInv
<1>9. CASE EnterNew
  <2>1. RingInv'
    BY <1>9, PushRing
  <2>2. file' = <<>> /\ Len(file') = 0 /\ pc' = "save" /\ count' \in Nat
    BY <1>0, <1>9, <2>1, EmptySeq DEF EnterNew, RingInv
  <2>3. QED
    BY <2>1, <2>2 DEF FileInv
<1>10. CASE SaveLine
  <2>1. /\ Len(file) \in Nat /\ count \in Nat /\ Len(file) < count /\ count =< Capacity
        /\ Len(file) + 1 \in 1..count
    BY <1>0, <1>10, LenProperties DEF SaveLine, RingInv
  <2>2. NextLine \in Line
    <3>1. Recent \in Seq(Line) /\ Len(Recent) = count
      BY RecentIs DEF RecentSeq
    <3>2. QED
      BY <2>1, <3>1, ElementOfSeq DEF NextLine
  <2>3. /\ file' \in Seq(Line) /\ Len(file') = Len(file) + 1
        /\ \A p \in 1..Len(file) : file'[p] = file[p]
        /\ file'[Len(file) + 1] = NextLine
    BY <1>10, <2>2, AppendProperties DEF SaveLine, RingInv
  <2>4. RingInv'
    BY <1>0, <1>10, <2>1, <2>3 DEF SaveLine, ring, line, RingInv
  <2>5. \A p \in 1..Len(file') : file'[p] = Recent[p]
    BY <1>10, <2>1, <2>3 DEF SaveLine, FileInv, NextLine
  <2>6. QED
    BY <1>0, <1>1, <1>10, <2>1, <2>3, <2>4, <2>5 DEF SaveLine, ring, FileInv
<1>11. CASE SaveDone
  <2>1. Recent \in Seq(Line) /\ Len(Recent) = count
    BY RecentIs DEF RecentSeq
  <2>2. file = Recent
    BY <1>11, <2>1, SeqEqual DEF SaveDone, FileInv, RingInv
  <2>3. RingInv'
    BY <1>11 DEF SaveDone, ring, line, RingInv
  <2>4. QED
    BY <1>1, <1>11, <2>2, <2>3 DEF SaveDone, ring, FileInv
<1>12. CASE NextPrompt
  <2>1. 0 \in 0..count
    BY <1>0 DEF RingInv
  <2>2. QED
    BY <1>1, <1>12, <2>1 DEF NextPrompt, ring, RingInv, FileInv, Input
<1>13. CASE Leave
  BY <1>13 DEF Leave, ring, line, RingInv, FileInv
<1>14. QED
  BY <1>2, <1>3, <1>4, <1>5, <1>6, <1>7, <1>8, <1>9, <1>10, <1>11, <1>12, <1>13
     DEF Next, Input

\* At the prompt and while a statement runs, .maxql_history is the ring, oldest
\* line first: whatever the capacity, and however often the ring has wrapped.
THEOREM FileStaysCurrent == Spec => []FileCurrent
<1>1. RingInv /\ FileInv => FileCurrent
  BY DEF FileInv, FileCurrent
<1>2. QED
  BY <1>1, InitRing, NextRing, PTL DEF Spec

(***************************************************************************)
(* The ring implements RecentLines.                                        *)
(***************************************************************************)
LEMMA PushRecords ==
    ASSUME RingInv, EnterNew
    PROVE  Recent' = Promise!LastOf(Append(Recent, buf))
<1>1. Capacity \in Nat \ {0} /\ count \in 0..Capacity
  BY HistoryAssumption DEF RingInv
<1>2. /\ RingInv' /\ buf \in Line
      /\ Len(Recent') = CountAfter
      /\ Recent'[CountAfter] = buf
      /\ \A p \in 1..(CountAfter - 1) : Recent'[p] = Recent[p + count - CountAfter + 1]
  BY PushRing
<1>3. Recent' \in Seq(Line)
  BY <1>2, RecentIsNext DEF RecentSeq
<1>4. Recent \in Seq(Line) /\ Len(Recent) = count
  BY RecentIs DEF RecentSeq
<1> DEFINE s == Append(Recent, buf)
           m == IF count + 1 > Capacity THEN count + 1 - Capacity + 1 ELSE 1
<1>5. /\ s \in Seq(Line) /\ Len(s) = count + 1
      /\ \A p \in 1..count : s[p] = Recent[p]
      /\ s[count + 1] = buf
  BY <1>2, <1>4, AppendProperties
<1> HIDE DEF s
<1>6. Promise!LastOf(s) = SubSeq(s, m, count + 1)
  <2>1. Promise!LastOf(s) =
            SubSeq(s, IF Len(s) > Capacity THEN Len(s) - Capacity + 1 ELSE 1, Len(s))
    BY DEF Promise!LastOf
  <2>2. Len(s) = count + 1
    BY <1>5
  <2>3. CASE count + 1 > Capacity
    <3>1. Promise!LastOf(s) = SubSeq(s, Len(s) - Capacity + 1, Len(s))
      BY <1>1, <2>2, <2>3 DEF Promise!LastOf
    <3>2. m = count + 1 - Capacity + 1
      BY <2>3
    <3>3. SubSeq(s, Len(s) - Capacity + 1, Len(s)) =
              SubSeq(s, count + 1 - Capacity + 1, count + 1)
      <4> HIDE DEF m
      <4>1. Len(s) - Capacity + 1 = count + 1 - Capacity + 1
        BY <1>1, <2>2
      <4>2. QED
        BY ONLY <2>2, <4>1, Zenon
    <3> HIDE DEF m
    <3>4. QED
      BY <3>1, <3>2, <3>3
  <2>4. CASE ~(count + 1 > Capacity)
    <3>1. Promise!LastOf(s) = SubSeq(s, 1, Len(s))
      BY <1>1, <2>2, <2>4 DEF Promise!LastOf
    <3>2. m = 1
      BY <2>4
    <3>3. QED
      BY <2>2, <3>1, <3>2
  <2>5. QED
    BY <2>3, <2>4
<1>7. m \in 1..2 /\ m =< count + 1 /\ count + 1 - m + 1 = CountAfter
      /\ CountAfter \in Nat /\ m = count - CountAfter + 2
  BY <1>1 DEF CountAfter
<1> HIDE DEF m
<1>8. \A p \in m..(count + 1) : s[p] \in Line
  BY <1>1, <1>5, <1>7, ElementOfSeq
<1>9. /\ SubSeq(s, m, count + 1) \in Seq(Line)
      /\ Len(SubSeq(s, m, count + 1)) = CountAfter
      /\ \A p \in 1..CountAfter : SubSeq(s, m, count + 1)[p] = s[m + p - 1]
  BY <1>1, <1>7, <1>8, SubSeqProperties
<1>10. ASSUME NEW p \in 1..CountAfter
       PROVE  Recent'[p] = SubSeq(s, m, count + 1)[p]
  <2>1. CASE p = CountAfter
    <3>1. m + p - 1 = count + 1
      BY <1>1, <1>7, <2>1
    <3>2. QED
      BY <1>2, <1>5, <1>9, <2>1, <3>1
  <2>2. CASE p # CountAfter
    <3>1. /\ p \in 1..(CountAfter - 1)
          /\ m + p - 1 = p + count - CountAfter + 1
          /\ m + p - 1 \in 1..count
      BY <1>1, <1>7, <2>2
    <3>2. QED
      BY <1>2, <1>5, <1>9, <3>1
  <2>3. QED
    BY <2>1, <2>2
<1>11. QED
  BY <1>2, <1>3, <1>6, <1>9, <1>10, SeqEqual DEF s

\* The line is not the last one recorded: is_duplicate_record has looked.
LEMMA NotTheLast ==
    ASSUME RingInv, EnterNew, Recent # <<>>
    PROVE  Promise!Last(Recent) # buf
<1>1. Recent \in Seq(Line) /\ Len(Recent) = count /\ count \in Nat \ {0}
  BY RecentIs, EmptySeq DEF RecentSeq
<1>2. count - count + 1 = 1 /\ count \in 1..count
  BY <1>1
<1>3. Promise!Last(Recent) = Recent[count]
  BY <1>1 DEF Promise!Last
<1>4. Recent[count] = history[Slot(1)]
  BY <1>2, RecentIs DEF RecentSeq, Slot, SlotAt
<1>5. QED
  BY <1>1, <1>3, <1>4 DEF EnterNew, Duplicate

\* A process that ends leaves a beginning of its lines in the file.
LEMMA LeaveStops ==
    ASSUME RingInv, FileInv, Leave
    PROVE  \E n \in 0..Len(Recent) : file = SubSeq(Recent, 1, n)
<1>1. Recent \in Seq(Line) /\ Len(Recent) = count /\ count \in Nat
  BY RecentIs, LenProperties DEF RecentSeq
<1>2. Len(file) \in Nat /\ file \in Seq(Line)
  BY LenProperties DEF RingInv
<1>3. CASE file = Recent
  <2>1. file = SubSeq(Recent, 1, Len(Recent))
    BY <1>1, <1>3, SubSeqFull
  <2>2. QED
    BY <1>1, <2>1
<1>4. CASE Len(file) =< count /\ \A p \in 1..Len(file) : file[p] = Recent[p]
  <2> DEFINE t == SubSeq(Recent, 1, Len(file))
  <2>1. \A p \in 1..Len(file) : Recent[p] \in Line
    BY <1>1, <1>2, <1>4, ElementOfSeq
  <2>2. /\ t \in Seq(Line)
        /\ Len(t) = IF 1 =< Len(file) THEN Len(file) - 1 + 1 ELSE 0
        /\ \A p \in 1..(Len(file) - 1 + 1) : t[p] = Recent[1 + p - 1]
    BY <1>2, <2>1, SubSeqProperties
  <2> HIDE DEF t
  <2>3. Len(t) = Len(file) /\ \A p \in 1..Len(file) : t[p] = Recent[p]
    BY <1>2, <2>2
  <2>4. file = t
    BY <1>2, <1>4, <2>2, <2>3, SeqEqual
  <2>5. Len(file) \in 0..Len(Recent)
    BY <1>1, <1>2, <1>4
  <2>6. QED
    BY <2>4, <2>5 DEF t
<1>5. QED
  BY <1>3, <1>4 DEF Leave, FileInv, RingInv

\* The history is the last Capacity lines that were typed, oldest first, none
\* twice in a row; a process that dies in history_save loses the newest of them,
\* and nothing else ever loses one that is not the oldest of a full ring.
THEOREM RingKeepsRecent == Spec => KeepsRecent
<1>1. Init => Promise!Init
  BY DEF Init, Promise!Init, Log
<1>2. RingInv /\ FileInv /\ [Next]_vars => [Promise!Next]_<<Log, pc # "down">>
  <2> SUFFICES ASSUME RingInv, FileInv, [Next]_vars
               PROVE  Promise!Next \/ UNCHANGED <<Log, pc # "down">>
    OBVIOUS
  <2>1. UNCHANGED ring => Recent' = Recent
    BY DEF ring, Recent, Slot
  <2>2. CASE Start
    <3>1. Log' = Log
      BY <2>2, StartRing DEF Start, Log
    <3>2. QED
      BY <2>2, <3>1 DEF Start, Promise!Start, Promise!Next
  <2>3. CASE Leave
    <3>1. Promise!Stop
      BY <2>3, LeaveStops DEF Leave, Log, Promise!Stop
    <3>2. QED
      BY <3>1 DEF Promise!Next
  <2>4. CASE EnterNew
    <3>1. Log = Recent /\ Log' = Recent' /\ pc # "down" /\ pc' # "down"
      BY <2>4 DEF EnterNew, Log
    <3>2. buf \in Line
      BY <2>4, PushRing
    <3>3. Promise!Record(buf)
      BY <2>4, <3>1, PushRecords, NotTheLast DEF Promise!Record
    <3>4. QED
      BY <3>2, <3>3 DEF Promise!Next
  <2>5. ASSUME UNCHANGED ring, pc # "down", pc' # "down"
        PROVE  UNCHANGED <<Log, pc # "down">>
    BY <2>1, <2>5 DEF Log
  <2>6. CASE UNCHANGED vars
    BY <2>1, <2>6 DEF vars, ring, Log
  <2>7. QED
    BY <2>2, <2>3, <2>4, <2>5, <2>6 DEF Next, Type, Up, Down, ReverseSearch, EnterEmpty,
       EnterDuplicate, SaveLine, SaveDone, NextPrompt
<1>3. QED
  BY <1>1, <1>2, InitRing, NextRing, PTL DEF Spec, KeepsRecent, Promise!Spec
=============================================================================

--------------------------- MODULE TerminalProofs ---------------------------
(***************************************************************************)
(* What is typed and what is shown.                                        *)
(*                                                                         *)
(* The terminal behind the keyboard: its buffers being sound is kept by    *)
(* every step but a copy of a line that has gone and a size that wraps,    *)
(* and each such step is one of TtyLine.                                   *)
(*                                                                         *)
(* The screen: a sequence has its block, the cursor stays, and a backspace *)
(* erases one cell.  Both are by induction over what is written.           *)
(*                                                                         *)
(* What is drawn: clearing, /dev/fb and the nearest colour, for every      *)
(* framebuffer.                                                            *)
(***************************************************************************)
EXTENDS Keyboard, Console, SequenceTheorems, FiniteSetTheorems, FunctionTheorems,
        WellFoundedInduction, TLAPS

-----------------------------------------------------------------------------
(***************************************************************************)
(* What waits, when the block is b and pos characters are in it.           *)
(***************************************************************************)
Waiting(b, pos) == [k \in 1..pos |-> b[k - 1]]

Cells(size, S) == [0..(size - 1) -> S]

IsBlock(b, pos, size, S) == size \in Nat /\ pos \in 0..size /\ b \in Cells(size, S)

\* w is a sequence of the first pos characters of b.
Lists(w, b, pos, S) ==
  w \in Seq(S) /\ Len(w) = pos /\ \A k \in 1..pos : w[k] = b[k - 1]

LEMMA WaitingType ==
  ASSUME NEW size \in Nat, NEW pos \in 0..size, NEW S, NEW b \in Cells(size, S)
  PROVE  Lists(Waiting(b, pos), b, pos, S)
<1>1. \A k \in 1..pos : b[k - 1] \in S
  BY DEF Cells
<1>2. Waiting(b, pos) \in [1..pos -> S]
  BY <1>1 DEF Waiting
<1>3. pos \in Nat
  OBVIOUS
<1>4. Waiting(b, pos) \in Seq(S)
  BY <1>2, <1>3
<1>5. Len(Waiting(b, pos)) = pos
  BY <1>2, <1>3, <1>4, LenProperties
<1> QED
  BY <1>4, <1>5 DEF Waiting, Lists

\* A character is stored behind them.
Stores(b, pos, c, stored, len, S) ==
  /\ stored \in Cells(len, S)
  /\ Waiting(stored, pos + 1) = Append(Waiting(b, pos), c)

LEMMA StoredIsLast ==
  ASSUME NEW S, NEW size \in Nat, NEW b \in Cells(size, S), NEW pos \in 0..size,
         NEW len \in Nat, NEW new \in Cells(len, S), pos < len,
         \A k \in 0..(pos - 1) : new[k] = b[k],
         NEW c \in S, NEW stored, stored = [new EXCEPT ![pos] = c]
  PROVE  Stores(b, pos, c, stored, len, S)
<1>1. stored \in Cells(len, S)
  BY DEF Cells
<1>2. stored[pos] = c /\ \A k \in 0..(pos - 1) : stored[k] = b[k]
  BY DEF Cells
<1>3. pos + 1 \in 0..len /\ pos \in Nat
  OBVIOUS
<1>4. PICK next : next \in 0..len /\ next = pos + 1
  BY <1>3, Zenon
<1> DEFINE w == Waiting(b, pos)
           x == Waiting(stored, next)
<1>5. Lists(w, b, pos, S)
  BY WaitingType, Zenon
<1>6. Lists(x, stored, next, S)
  BY <1>1, <1>4, WaitingType, Zenon
<1> HIDE DEF w, x
<1>7. w \in Seq(S) /\ Len(w) = pos /\ \A k \in 1..pos : w[k] = b[k - 1]
  BY <1>5, Zenon DEF Lists
<1>8. x \in Seq(S) /\ Len(x) = pos + 1 /\ \A k \in 1..(pos + 1) : x[k] = stored[k - 1]
  BY <1>4, <1>6, Zenon DEF Lists
<1>9. Append(w, c) \in Seq(S) /\ Len(Append(w, c)) = pos + 1
  BY <1>7
<1>10. \A k \in 1..(pos + 1) : Append(w, c)[k] = IF k <= pos THEN w[k] ELSE c
  BY <1>7
<1>11. \A k \in 1..(pos + 1) : x[k] = IF k <= pos THEN w[k] ELSE c
  <2>1. SUFFICES ASSUME NEW k \in 1..(pos + 1)
                 PROVE  x[k] = IF k <= pos THEN w[k] ELSE c
    OBVIOUS
  <2>2. CASE k <= pos
    <3>1. k \in 1..pos /\ k - 1 \in 0..(pos - 1)
      BY <1>3, <2>2
    <3> QED
      BY <1>2, <1>7, <1>8, <2>2, <3>1
  <2>3. CASE ~(k <= pos)
    <3>1. k - 1 = pos
      BY <1>3, <2>3
    <3> QED
      BY <1>2, <1>8, <2>3, <3>1
  <2> QED
    BY <2>2, <2>3
<1>12. x = Append(w, c)
  <2>1. \A k \in 1..Len(x) : x[k] = Append(w, c)[k]
    BY <1>8, <1>10, <1>11
  <2> QED
    BY <1>8, <1>9, <2>1, SeqEqual
<1> QED
  BY <1>1, <1>12, <1>4 DEF w, x, Stores

\* The first m of them are taken.
Taken(b, pos, m) == [k \in 1..m |-> IF k - 1 < pos THEN b[k - 1] ELSE "nl"]

AreFirst(b, pos, m) == Taken(b, pos, m) = SubSeq(Waiting(b, pos), 1, m)

LEMMA TakenIsFirst ==
  ASSUME NEW S, NEW size, NEW b, NEW pos, IsBlock(b, pos, size, S), NEW m \in 0..pos
  PROVE  AreFirst(b, pos, m)
<1> DEFINE w == Waiting(b, pos)
           x == Taken(b, pos, m)
<1>1. size \in Nat /\ pos \in 0..size /\ b \in Cells(size, S)
  BY Zenon DEF IsBlock
<1>2. Lists(w, b, pos, S)
  BY <1>1, WaitingType, Zenon
<1> HIDE DEF w
<1>3. w \in Seq(S) /\ Len(w) = pos /\ \A k \in 1..pos : w[k] = b[k - 1]
  BY <1>2, Zenon DEF Lists
<1>4. m \in Nat /\ pos \in Nat /\ m <= pos
  BY <1>1
<1>5. \A k \in 1..m : x[k] = w[k] /\ w[k] \in S
  BY <1>3, <1>4, ElementOfSeq DEF Taken
<1>6. x \in [1..m -> S]
  BY <1>5 DEF Taken
<1>7. x \in Seq(S) /\ Len(x) = m
  BY <1>4, <1>6, LenProperties
<1>8. /\ SubSeq(w, 1, m) \in Seq(S) /\ Len(SubSeq(w, 1, m)) = m
      /\ \A k \in 1..m : SubSeq(w, 1, m)[k] = w[k]
  BY <1>3, <1>4, <1>5
<1> HIDE DEF x
<1>9. x = SubSeq(w, 1, m)
  BY <1>5, <1>7, <1>8, SeqEqual
<1> QED
  BY <1>9, Zenon DEF w, x, AreFirst

\* The others move to the front.
Shifts(b, pos, m, left) ==
  left = [k \in DOMAIN b |-> IF k + m < pos THEN b[k + m] ELSE b[k]]

Leaves(b, pos, m, left, size, S) ==
  /\ left \in Cells(size, S)
  /\ Waiting(left, pos - m) = SubSeq(Waiting(b, pos), m + 1, pos)

LEMMA ShiftedIsRest ==
  ASSUME NEW S, NEW size, NEW b, NEW pos, IsBlock(b, pos, size, S), NEW m \in 0..pos,
         NEW left, Shifts(b, pos, m, left)
  PROVE  Leaves(b, pos, m, left, size, S)
<1>1. size \in Nat /\ pos \in 0..size /\ b \in Cells(size, S)
  BY Zenon DEF IsBlock
<1>2. size \in Nat /\ m \in Nat /\ pos \in Nat /\ m <= pos /\ pos <= size /\ pos - m \in 0..size
  BY <1>1
<1>3. DOMAIN b = 0..(size - 1)
  BY <1>1 DEF Cells
<1>4. \A k \in 0..(size - 1) : k + m < pos => k + m \in 0..(size - 1)
  BY <1>2
<1>5. left \in Cells(size, S)
  BY <1>1, <1>3, <1>4 DEF Cells, Shifts
<1>6. \A k \in 1..(pos - m) : left[k - 1] = b[k + m - 1]
  <2>1. SUFFICES ASSUME NEW k \in 1..(pos - m)
                 PROVE  left[k - 1] = b[k + m - 1]
    OBVIOUS
  <2>2. k - 1 \in 0..(size - 1) /\ (k - 1) + m < pos /\ (k - 1) + m = k + m - 1
    BY <1>2
  <2> QED
    BY <1>3, <2>2 DEF Shifts
<1> DEFINE w == Waiting(b, pos)
           x == Waiting(left, pos - m)
           y == SubSeq(w, m + 1, pos)
<1>7. Lists(w, b, pos, S)
  BY <1>1, WaitingType, Zenon
<1>8. Lists(x, left, pos - m, S)
  BY <1>1, <1>2, <1>5, WaitingType, Zenon
<1> HIDE DEF w, x
<1>9. w \in Seq(S) /\ Len(w) = pos /\ \A k \in 1..pos : w[k] = b[k - 1]
  BY <1>7, Zenon DEF Lists
<1>10. x \in Seq(S) /\ Len(x) = pos - m /\ \A k \in 1..(pos - m) : x[k] = left[k - 1]
  BY <1>8, Zenon DEF Lists
<1>11. y \in Seq(S) /\ Len(y) = pos - m /\ \A k \in 1..(pos - m) : y[k] = w[k + m]
  <2>1. m + 1 \in Int /\ pos \in Int
    BY <1>2
  <2>2. \A k \in (m + 1)..pos : w[k] \in S
    BY <1>2, <1>9, ElementOfSeq
  <2>3. /\ y \in Seq(S) /\ Len(y) = IF m + 1 <= pos THEN pos - (m + 1) + 1 ELSE 0
        /\ \A k \in 1..(pos - (m + 1) + 1) : y[k] = w[m + 1 + k - 1]
    BY <2>1, <2>2, SubSeqProperties
  <2> HIDE DEF y
  <2>4. \A k \in 1..(pos - m) : m + 1 + k - 1 = k + m
    BY <1>2
  <2>5. pos - (m + 1) + 1 = pos - m
    BY <1>2
  <2>6. (IF m + 1 <= pos THEN pos - (m + 1) + 1 ELSE 0) = pos - m
    BY <1>2
  <2>7. y \in Seq(S) /\ Len(y) = pos - m
    <3> DEFINE rest == IF m + 1 <= pos THEN pos - (m + 1) + 1 ELSE 0
    <3>1. y \in Seq(S) /\ Len(y) = rest
      BY <2>3
    <3>2. rest = pos - m
      BY <2>6
    <3> HIDE DEF rest
    <3> QED
      BY <3>1, <3>2, Zenon
  <2>8. ASSUME NEW k \in 1..(pos - m)
        PROVE  y[k] = w[k + m]
    <3>1. k \in 1..(pos - (m + 1) + 1)
      BY <2>5, Zenon
    <3> QED
      BY <2>3, <2>4, <3>1, Zenon
  <2> QED
    BY <2>7, <2>8, Zenon
<1> HIDE DEF y
<1>12. \A k \in 1..(pos - m) : x[k] = y[k]
  <2>1. SUFFICES ASSUME NEW k \in 1..(pos - m)
                 PROVE  x[k] = y[k]
    OBVIOUS
  <2>2. k + m \in 1..pos
    BY <1>2
  <2>3. x[k] = b[k + m - 1]
    BY <1>6, <1>10, Zenon
  <2>4. y[k] = b[k + m - 1]
    BY <1>9, <1>11, <2>2
  <2> QED
    BY <2>3, <2>4
<1>13. x = y
  BY <1>10, <1>11, <1>12, SeqEqual
<1> QED
  BY <1>5, <1>13 DEF w, x, y, Leaves

LEMMA NoWrap ==
  ASSUME NEW u \in Nat \ {0}, NEW x \in 0..(u - 1)
  PROVE  x % u = x
OBVIOUS

LEMMA LeastOf ==
  ASSUME NEW S, S \subseteq Nat, S # {}
  PROVE  \E k \in S : \A j \in S : k <= j
<1>1. \E k \in S : \A j \in S : ~(<<j, k>> \in OpToRel(<, Nat))
  BY NatLessThanWellFounded, WFMin
<1>2. OpToRel(<, Nat) = {ss \in Nat \X Nat : ss[1] < ss[2]}
  BY Zenon DEF OpToRel
<1>3. \A j, k \in Nat : <<j, k>> \in {ss \in Nat \X Nat : ss[1] < ss[2]} <=> j < k
  OBVIOUS
<1>4. \E k \in S : \A j \in S : ~(j < k)
  BY <1>1, <1>2, <1>3, Zenon
<1> QED
  BY <1>4

\* The first line ends somewhere, when there is a newline.
LEMMA FirstNewline ==
  ASSUME NEW w, NEW len \in Nat, \E k \in 1..len : w[k] = "nl"
  PROVE  \E k \in 1..len : w[k] = "nl" /\ \A j \in 1..(k - 1) : w[j] # "nl"
<1> DEFINE ends == {k \in 1..len : w[k] = "nl"}
<1>1. ends \subseteq Nat /\ ends # {}
  OBVIOUS
<1> HIDE DEF ends
<1>2. PICK k \in ends : \A j \in ends : k <= j
  BY <1>1, LeastOf
<1>3. \A j \in 1..(k - 1) : j \in 1..len /\ ~(k <= j)
  BY <1>2 DEF ends
<1> QED
  BY <1>2, <1>3 DEF ends

-----------------------------------------------------------------------------
(***************************************************************************)
(* What it is that the buffers are sound.                                  *)
(***************************************************************************)
BufferInv ==
  /\ buffer_size \in 1..(UINT16 - 1)
  /\ buffer \in Cells(buffer_size, Cell)
  /\ buffer_pos \in 0..buffer_size
  /\ termios \in [icanon : BOOLEAN, icrnl : BOOLEAN]
  /\ stray = FALSE

ReadersInv ==
  /\ at \in [Reader -> {"user", "test", "found"}]
  /\ index \in [Reader -> Nat] /\ want \in [Reader -> Nat]
  /\ \A p \in Reader : index[p] <= buffer_size
  /\ \A p \in Reader : at[p] # "user" => want[p] \in Request
  /\ result.count \in Nat /\ result.count <= buffer_size

TtyInv == BufferInv /\ ReadersInv

KeysInv ==
  /\ shift \in BOOLEAN /\ caps \in BOOLEAN /\ held \subseteq ShiftKey
  /\ keypress_buffer \in Seq(Key) /\ Len(keypress_buffer) < UINT8
  /\ typing \in Seq(Key)
  /\ stuck \in BOOLEAN

LEMMA BufferFacts ==
  ASSUME BufferInv
  PROVE  /\ buffer_size \in Nat /\ buffer_pos \in Nat /\ buffer_pos <= buffer_size
         /\ DOMAIN buffer = 0..(buffer_size - 1)
         /\ Sound
         /\ Pending = Waiting(buffer, buffer_pos)
         /\ Pending \in Seq(Cell) /\ Len(Pending) = buffer_pos
         /\ \A k \in 1..buffer_pos : Pending[k] = buffer[k - 1]
<1> USE TtyAssumption
<1>1. /\ buffer_size \in Nat /\ buffer_pos \in Nat /\ buffer_pos <= buffer_size
      /\ DOMAIN buffer = 0..(buffer_size - 1)
  BY DEF BufferInv, Cells
<1>2. Sound
  BY <1>1 DEF Sound
<1>3. Pending = Waiting(buffer, buffer_pos)
  BY <1>2 DEF Pending, Waiting
<1>4. buffer \in Cells(buffer_size, Cell) /\ buffer_pos \in 0..buffer_size
  BY DEF BufferInv
<1>5. Lists(Waiting(buffer, buffer_pos), buffer, buffer_pos, Cell)
  BY <1>1, <1>4, WaitingType, Zenon
<1> QED
  BY <1>1, <1>2, <1>3, <1>5, Zenon DEF Lists

LEMMA BufferFactsNext ==
  ASSUME BufferInv'
  PROVE  Pending' = Waiting(buffer', buffer_pos')
<1> USE TtyAssumption
<1>1. /\ buffer_size' \in Nat /\ buffer_pos' \in Nat /\ buffer_pos' <= buffer_size'
      /\ DOMAIN buffer' = 0..(buffer_size' - 1)
  BY DEF BufferInv, Cells
<1>2. Sound'
  <2>1. \A m, n \in Nat : m <= n => m = 0 \/ m - 1 \in 0..(n - 1)
    OBVIOUS
  <2> QED
    BY <1>1, <2>1, Zenon DEF Sound
<1> QED
  BY <1>2 DEF Pending, Waiting

-----------------------------------------------------------------------------
(***************************************************************************)
(* Reads.                                                                  *)
(***************************************************************************)
\* What a read of at most n that finds a newline does.
Reads(n) ==
  /\ BufferInv'
  /\ UNCHANGED <<buffer_size, termios, stray>>
  /\ result'.count \in Nat /\ result'.count <= buffer_size
  /\ buffer_pos' <= buffer_pos
  /\ Line!Read(n)

LEMMA TakeSplits ==
  ASSUME BufferInv, NEW n, NEW m \in 0..buffer_pos, TakeLine(n, m)
  PROVE  /\ BufferInv' /\ UNCHANGED <<buffer_size, termios, stray>>
         /\ buffer_pos' <= buffer_pos /\ m \in Nat /\ m <= buffer_size
         /\ Pending' = SubSeq(Pending, m + 1, Len(Pending))
         /\ result' = Line!Got("line", n, SubSeq(Pending, 1, m), m)
<1> USE TtyAssumption
<1>1. /\ buffer_pos \in 0..buffer_size /\ buffer_size < UINT16 /\ buffer_size \in Int
      /\ 1 <= buffer_size
      /\ buffer \in Cells(buffer_size, Cell)
  BY DEF BufferInv
<1>2. /\ buffer_size \in Nat /\ buffer_pos \in Nat /\ buffer_pos <= buffer_size
      /\ buffer_pos \in 0..buffer_size /\ buffer_size < UINT16
      /\ buffer \in Cells(buffer_size, Cell)
      /\ Pending = Waiting(buffer, buffer_pos) /\ Len(Pending) = buffer_pos
  BY <1>1, BufferFacts, Zenon
<1>3. IsBlock(buffer, buffer_pos, buffer_size, Cell)
  BY <1>2, Zenon DEF IsBlock
<1>4. m \in Nat /\ m <= buffer_pos
  BY <1>2
<1>5. buffer_pos' = buffer_pos - m
  <2>1. buffer_pos - m \in 0..(UINT16 - 1)
    BY <1>2, <1>4
  <2>2. (buffer_pos - m) % UINT16 = buffer_pos - m
    BY <2>1, NoWrap
  <2> QED
    BY <2>2, Zenon DEF TakeLine
<1>6. Shifts(buffer, buffer_pos, m, buffer')
  BY Zenon DEF TakeLine, Shifted, Shifts
<1>7. /\ buffer' \in Cells(buffer_size, Cell)
      /\ Waiting(buffer', buffer_pos - m) = SubSeq(Waiting(buffer, buffer_pos), m + 1, buffer_pos)
  <2>1. Leaves(buffer, buffer_pos, m, buffer', buffer_size, Cell)
    BY <1>3, <1>6, ShiftedIsRest, Zenon
  <2> QED
    BY <2>1, Zenon DEF Leaves
<1>8. UNCHANGED <<buffer_size, termios, stray>>
  <2>1. (m > buffer_pos) = FALSE
    BY <1>2, <1>4
  <2>2. stray' = (m > buffer_pos) /\ UNCHANGED <<buffer_size, termios>>
    BY Zenon DEF TakeLine
  <2>3. stray = FALSE
    BY DEF BufferInv
  <2>4. stray' = FALSE
    BY <2>1, <2>2, Zenon
  <2> QED
    BY <2>2, <2>3, <2>4
<1>9. BufferInv'
  BY <1>1, <1>2, <1>4, <1>5, <1>7, <1>8 DEF BufferInv
<1>10. Pending' = SubSeq(Pending, m + 1, Len(Pending))
  BY <1>2, <1>5, <1>7, <1>9, BufferFactsNext, Zenon
<1>11. Taken(buffer, buffer_pos, m) = SubSeq(Pending, 1, m)
  <2>1. AreFirst(buffer, buffer_pos, m)
    BY <1>3, TakenIsFirst, Zenon
  <2> QED
    BY <1>2, <2>1, Zenon DEF AreFirst
<1>12. result' = Line!Got("line", n, SubSeq(Pending, 1, m), m)
  BY <1>11, Zenon DEF TakeLine, Taken
<1>13. buffer_pos' <= buffer_pos /\ m <= buffer_size
  BY <1>2, <1>4, <1>5
<1> QED
  BY <1>4, <1>8, <1>9, <1>10, <1>12, <1>13

LEMMA TakeReads ==
  ASSUME BufferInv, NEW n \in Request, NEW m \in 0..buffer_pos, TakeLine(n, m),
         NEW k \in 1..buffer_pos, Pending[k] = "nl",
         \A j \in 1..(k - 1) : Pending[j] # "nl",
         m = IF n < k THEN n ELSE k
  PROVE  Reads(n)
<1>1. k \in 1..Len(Pending)
  BY BufferFacts
<1>2. /\ BufferInv' /\ UNCHANGED <<buffer_size, termios, stray>>
      /\ buffer_pos' <= buffer_pos /\ m \in Nat /\ m <= buffer_size
      /\ Pending' = SubSeq(Pending, m + 1, Len(Pending))
      /\ result' = Line!Got("line", n, SubSeq(Pending, 1, m), m)
  BY TakeSplits
<1>3. Line!Read(n)
  BY <1>1, <1>2 DEF Line!Read
<1>4. result'.count = m
  BY <1>2 DEF Line!Got
<1> QED
  BY <1>2, <1>3, <1>4 DEF Reads

LEMMA CopyReads ==
  ASSUME BufferInv, NEW n \in Request, \E k \in 1..buffer_pos : Pending[k] = "nl",
         CopyLine(n)
  PROVE  Reads(n)
<1> USE TtyAssumption
<1>1. /\ buffer_size \in Nat /\ buffer_pos \in Nat /\ buffer_pos <= buffer_size
      /\ DOMAIN buffer = 0..(buffer_size - 1)
      /\ \A k \in 1..buffer_pos : Pending[k] = buffer[k - 1]
      /\ n \in Nat
  BY BufferFacts
<1>2. PICK k \in 1..buffer_pos : Pending[k] = "nl" /\ \A j \in 1..(k - 1) : Pending[j] # "nl"
  BY <1>1, FirstNewline, Zenon
<1>3. PICK i \in 0..UpTo(n) :
        /\ Stops(n, i)
        /\ \/ i < n /\ NewlineAt(i) /\ TakeLine(n, i + 1)
           \/ i < n /\ MayEndWithout(i) /\ TakeLine(n, i)
           \/ i = n /\ TakeLine(n, i)
  BY DEF CopyLine
<1>4. i \in Nat /\ i <= n /\ i <= buffer_pos
  BY <1>1 DEF UpTo
<1>5. buffer[k - 1] = "nl" /\ k - 1 \in Nat
  BY <1>1, <1>2
<1>6. i < k
  <2>1. SUFFICES ASSUME ~(i < k) PROVE FALSE
    OBVIOUS
  <2>2. k - 1 \in 0..(i - 1)
    BY <1>4, <1>5, <2>1
  <2> QED
    BY <1>3, <1>5, <2>2 DEF Stops
<1>7. CASE i < n
  <2>1. i < buffer_pos /\ i \in DOMAIN buffer
    BY <1>1, <1>4, <1>6
  <2>2. buffer[i] = "nl"
    BY <1>3, <1>7, <2>1 DEF Stops
  <2>3. i + 1 = k
    <3>1. i + 1 \in 1..buffer_pos
      BY <1>1, <1>4, <2>1
    <3>2. Pending[i + 1] = buffer[(i + 1) - 1] /\ (i + 1) - 1 = i
      BY <1>1, <1>4, <3>1
    <3>3. i + 1 \notin 1..(k - 1)
      BY <1>2, <2>2, <3>2
    <3> QED
      BY <1>4, <1>6, <3>3
  <2>4. TakeLine(n, i + 1)
    BY <1>3, <1>7, <2>1, <2>2 DEF MayEndWithout
  <2>5. i + 1 \in 0..buffer_pos /\ i + 1 = IF n < k THEN n ELSE k
    BY <1>1, <1>4, <1>7, <2>1, <2>3
  <2> QED
    BY <1>2, <2>4, <2>5, TakeReads
<1>8. CASE i = n
  <2>1. TakeLine(n, i)
    BY <1>3, <1>8
  <2>2. i \in 0..buffer_pos /\ i = IF n < k THEN n ELSE k
    BY <1>1, <1>4, <1>6, <1>8
  <2> QED
    BY <1>2, <2>1, <2>2, TakeReads
<1> QED
  BY <1>1, <1>4, <1>7, <1>8

LEMMA EmptiedFacts ==
  ASSUME BufferInv', buffer_pos' = 0
  PROVE  Pending' \in Seq(Cell) /\ Len(Pending') = 0
<1>1. Pending' = Waiting(buffer', 0)
  BY BufferFactsNext
<1>2. Waiting(buffer', 0) \in [1..0 -> Cell]
  BY DEF Waiting
<1>3. 0 \in Nat
  OBVIOUS
<1>4. Waiting(buffer', 0) \in Seq(Cell)
  BY <1>2, <1>3
<1> QED
  BY <1>1, <1>2, <1>4, LenProperties

\* In raw mode.
LEMMA CopyRawTakesAll ==
  ASSUME BufferInv, NEW n \in Request, CopyRaw(n)
  PROVE  /\ BufferInv'
         /\ result'.count \in Nat /\ result'.count <= buffer_size'
         /\ buffer_size' = buffer_size
         /\ Line!ReadRaw(n)
<1>1. /\ buffer_pos \in Nat /\ buffer_pos <= buffer_size /\ buffer_size \in Nat
      /\ Len(Pending) = buffer_pos
  BY BufferFacts
<1>2. result'.count = buffer_pos
  BY DEF CopyRaw, Line!Got
<1>3. UNCHANGED <<buffer, buffer_size, termios, stray>> /\ buffer_pos' = 0
  BY DEF CopyRaw
<1>4. BufferInv'
  BY <1>1, <1>3 DEF BufferInv
<1>5. Pending' = <<>>
  <2>1. Pending' \in Seq(Cell) /\ Len(Pending') = 0
    BY <1>3, <1>4, EmptiedFacts
  <2> QED
    BY <2>1
<1>6. Line!ReadRaw(n)
  BY <1>1, <1>5 DEF CopyRaw, UpTo, Line!ReadRaw
<1> QED
  BY <1>1, <1>2, <1>3, <1>4, <1>6

-----------------------------------------------------------------------------
(***************************************************************************)
(* Characters.                                                             *)
(***************************************************************************)
Promised == [Line!LineNext]_<<Pending, result>>

\* What no step of the terminal touches stays as it was.
LEMMA Untouched ==
  ASSUME UNCHANGED <<ttyVars, result>>
  PROVE  Promised /\ (BufferInv => BufferInv') /\ UNCHANGED Pending
<1>1. UNCHANGED Pending
  BY DEF ttyVars, Pending, Sound
<1>2. BufferInv => BufferInv'
  BY DEF ttyVars, BufferInv
<1> QED
  BY <1>1, <1>2 DEF Promised

\* A character more.
Adds(x) ==
  /\ BufferInv'
  /\ buffer_size <= buffer_size'
  /\ buffer_pos' = buffer_pos + 1
  /\ Pending' = Append(Pending, x)

LEMMA StoreAdds ==
  ASSUME BufferInv, NEW x \in Cell, NEW len \in Nat, NEW new \in Cells(len, Cell),
         buffer_pos < len, len < UINT16, buffer_size <= len, buffer_size' = len,
         \A k \in 0..(buffer_pos - 1) : new[k] = buffer[k],
         UNCHANGED termios, Store(new, x)
  PROVE  Adds(x)
<1> USE TtyAssumption
<1>1. /\ buffer_size \in Nat /\ buffer_pos \in Nat /\ buffer_pos <= buffer_size
      /\ Pending = Waiting(buffer, buffer_pos)
  BY BufferFacts
<1>2. /\ buffer_pos \in 0..buffer_size /\ buffer \in Cells(buffer_size, Cell)
      /\ 1 <= buffer_size
      /\ termios \in [icanon : BOOLEAN, icrnl : BOOLEAN] /\ stray = FALSE
  BY DEF BufferInv
<1>3. DOMAIN new = 0..(len - 1)
  BY DEF Cells
<1>4. buffer_pos \in DOMAIN new
  BY <1>1, <1>3
<1>5. /\ buffer' = [new EXCEPT ![buffer_pos] = x]
      /\ buffer_pos' = (buffer_pos + 1) % UINT16
      /\ stray' = stray
  BY <1>4 DEF Store
<1>6. buffer_pos' = buffer_pos + 1
  <2>1. buffer_pos + 1 \in 0..(UINT16 - 1)
    BY <1>1
  <2>2. (buffer_pos + 1) % UINT16 = buffer_pos + 1
    BY <2>1, NoWrap
  <2> QED
    BY <1>5, <2>2, Zenon
<1> DEFINE stored == buffer'
<1>7. stored = [new EXCEPT ![buffer_pos] = x]
  BY <1>5
<1> HIDE DEF stored
<1>8. /\ stored \in Cells(len, Cell)
      /\ Waiting(stored, buffer_pos + 1) = Append(Waiting(buffer, buffer_pos), x)
  <2>1. Stores(buffer, buffer_pos, x, stored, len, Cell)
    BY <1>1, <1>2, <1>7, StoredIsLast, Zenon
  <2> QED
    BY <2>1, Zenon DEF Stores
<1>9. BufferInv'
  <2>1. len \in 1..(UINT16 - 1) /\ buffer_pos + 1 \in 0..len
    BY <1>1, <1>2
  <2>2. buffer_size' \in 1..(UINT16 - 1) /\ buffer_pos' \in 0..buffer_size'
    BY <1>6, <2>1, Zenon
  <2>3. buffer' \in Cells(buffer_size', Cell)
    BY <1>8, Zenon DEF stored
  <2> QED
    BY <1>2, <1>5, <2>2, <2>3, Zenon DEF BufferInv
<1>10. Pending' = Append(Pending, x)
  BY <1>1, <1>6, <1>8, <1>9, BufferFactsNext, Zenon DEF stored
<1> QED
  BY <1>6, <1>9, <1>10 DEF Adds

\* The size that is twice as large, when it has no room.
LEMMA WrappedSize ==
  ASSUME NEW u \in Nat, NEW x \in 1..(u - 1), 2 * x >= u
  PROVE  (2 * x) % u # x
<1>1. 2 * x - u \in 0..(u - 1) /\ 2 * x = u * 1 + (2 * x - u)
  OBVIOUS
<1>2. (2 * x) % u = 2 * x - u
  BY <1>1
<1> QED
  BY <1>2

LEMMA PushAdds ==
  ASSUME BufferInv, ~SizeWraps, NEW c \in Key, ~Erases(Translated(c)), tty_push(c)
  PROVE  /\ Translated(c) \in Cell /\ Adds(Translated(c))
         /\ UNCHANGED <<termios, readVars, result>>
<1> USE TtyAssumption
<1> DEFINE x == Translated(c)
<1>1. x \in Cell
  BY DEF Translated, Cell
<1> HIDE DEF x
<1>2. /\ buffer_size \in Nat /\ buffer_pos \in Nat /\ buffer_pos <= buffer_size
      /\ DOMAIN buffer = 0..(buffer_size - 1) /\ Sound
      /\ buffer \in Cells(buffer_size, Cell) /\ 1 <= buffer_size /\ buffer_size < UINT16
  <2>1. buffer \in Cells(buffer_size, Cell) /\ 1 <= buffer_size /\ buffer_size < UINT16
    BY DEF BufferInv
  <2> QED
    BY <2>1, BufferFacts, Zenon
<1>3. ~Erases(x)
  BY DEF x
<1>4. /\ \/ ~Full /\ Store(buffer, x) /\ UNCHANGED buffer_size
         \/ /\ Full /\ ~NoSize /\ (\E new \in Grown : Store(new, x))
            /\ buffer_size' = 2 * buffer_size
         \/ Full /\ NoSize /\ buffer_size' = (2 * buffer_size) % UINT16
      /\ UNCHANGED <<termios, readVars, result>>
  BY <1>3 DEF tty_push, x
<1>5. CASE ~Full
  <2>1. buffer_pos < buffer_size
    BY <1>2, <1>5 DEF Full
  <2>2. Store(buffer, x) /\ UNCHANGED buffer_size /\ UNCHANGED termios
    BY <1>4, <1>5
  <2>3. Adds(x)
    BY <1>1, <1>2, <2>1, <2>2, StoreAdds
  <2> QED
    BY <1>1, <1>4, <2>3 DEF x
<1>6. CASE Full
  <2>1. buffer_pos = buffer_size
    BY <1>2, <1>6 DEF Full
  <2>2. ~NoSize
    <3>1. SUFFICES ASSUME NoSize PROVE FALSE
      OBVIOUS
    <3>2. (2 * buffer_size) % UINT16 # buffer_size
      BY <1>2, <3>1, WrappedSize DEF NoSize
    <3> QED
      BY <1>4, <1>6, <3>1, <3>2 DEF SizeWraps
  <2>3. buffer_size' = 2 * buffer_size /\ 2 * buffer_size < UINT16 /\ 2 * buffer_size \in Nat
    BY <1>2, <1>4, <1>6, <2>2 DEF NoSize
  <2>4. PICK new \in Grown : Store(new, x)
    BY <1>4, <1>6, <2>2
  <2>5. PICK rest \in [buffer_size..(2 * buffer_size - 1) -> Cell] :
          new = [k \in 0..(2 * buffer_size - 1) |->
                   IF k \in buffer_size..(2 * buffer_size - 1) THEN rest[k] ELSE buffer[k]]
    BY <2>4 DEF Grown
  <2>6. \A k \in 0..(2 * buffer_size - 1) :
          k \notin buffer_size..(2 * buffer_size - 1) => k \in 0..(buffer_size - 1)
    BY <1>2
  <2>7. new \in Cells(2 * buffer_size, Cell)
    BY <1>2, <2>5, <2>6 DEF Cells
  <2>8. \A k \in 0..(buffer_pos - 1) : new[k] = buffer[k]
    BY <1>2, <2>1, <2>5
  <2>9. buffer_pos < 2 * buffer_size /\ buffer_size <= 2 * buffer_size
    BY <1>2, <2>1
  <2>10. UNCHANGED termios
    BY <1>4
  <2>11. Adds(x)
    BY <1>1, <2>2, <2>3, <2>4, <2>7, <2>8, <2>9, <2>10, StoreAdds
  <2> QED
    BY <1>1, <1>4, <2>11 DEF x
<1> QED
  BY <1>5, <1>6

\* The last character is taken back.
LEMMA ErasedIsShorter ==
  ASSUME NEW S, NEW size, NEW b, NEW pos, IsBlock(b, pos, size, S), pos > 0
  PROVE  Waiting(b, pos - 1) = SubSeq(Waiting(b, pos), 1, pos - 1)
<1> DEFINE w == Waiting(b, pos)
           x == Waiting(b, pos - 1)
           y == SubSeq(w, 1, pos - 1)
<1>1. size \in Nat /\ pos \in 0..size /\ b \in Cells(size, S) /\ pos - 1 \in 0..size
  BY DEF IsBlock
<1>2. Lists(w, b, pos, S) /\ Lists(x, b, pos - 1, S)
  BY <1>1, WaitingType, Zenon
<1> HIDE DEF w, x
<1>3. /\ w \in Seq(S) /\ Len(w) = pos /\ \A k \in 1..pos : w[k] = b[k - 1]
      /\ x \in Seq(S) /\ Len(x) = pos - 1 /\ \A k \in 1..(pos - 1) : x[k] = b[k - 1]
  BY <1>2, Zenon DEF Lists
<1>4. pos \in Nat /\ \A k \in 1..(pos - 1) : k \in 1..pos /\ w[k] \in S
  BY <1>1, <1>3, ElementOfSeq
<1>5. y \in Seq(S) /\ Len(y) = pos - 1 /\ \A k \in 1..(pos - 1) : y[k] = w[k]
  BY <1>3, <1>4
<1> HIDE DEF y
<1>6. \A k \in 1..(pos - 1) : x[k] = y[k]
  BY <1>3, <1>4, <1>5
<1>7. x = y
  BY <1>3, <1>5, <1>6, SeqEqual
<1> QED
  BY <1>7, Zenon DEF w, x, y

\* What a step of the keyboard does to the terminal.
Pushed ==
  /\ BufferInv' /\ Promised
  /\ buffer_size <= buffer_size'
  /\ UNCHANGED <<readVars, result>>

LEMMA ErasePushes ==
  ASSUME BufferInv, NEW c \in Key, Erases(Translated(c)), tty_push(c)
  PROVE  Pushed
<1>1. /\ buffer_pos' = IF buffer_pos > 0 THEN buffer_pos - 1 ELSE 0
      /\ UNCHANGED <<buffer, buffer_size, stray, termios, readVars, result>>
  BY DEF tty_push
<1>2. /\ buffer_size \in Nat /\ buffer_pos \in 0..buffer_size
      /\ buffer \in Cells(buffer_size, Cell)
      /\ Pending = Waiting(buffer, buffer_pos) /\ Len(Pending) = buffer_pos
  BY BufferFacts DEF BufferInv
<1>3. BufferInv'
  BY <1>1, <1>2 DEF BufferInv
<1>4. CASE buffer_pos > 0
  <2>1. Pending' = SubSeq(Pending, 1, Len(Pending) - 1)
    <3>1. IsBlock(buffer, buffer_pos, buffer_size, Cell)
      BY <1>2 DEF IsBlock
    <3>2. Waiting(buffer, buffer_pos - 1) = SubSeq(Waiting(buffer, buffer_pos), 1, buffer_pos - 1)
      BY <1>4, <3>1, ErasedIsShorter
    <3>3. Pending' = Waiting(buffer, buffer_pos - 1)
      BY <1>1, <1>3, <1>4, BufferFactsNext
    <3> QED
      BY <1>2, <3>2, <3>3
  <2>2. Pending # <<>>
    BY <1>2, <1>4
  <2>3. Line!Erase
    BY <1>1, <2>1, <2>2 DEF Line!Erase
  <2> QED
    BY <1>1, <1>2, <1>3, <2>3 DEF Pushed, Promised, Line!LineNext
<1>5. CASE ~(buffer_pos > 0)
  <2>1. UNCHANGED <<ttyVars, result>>
    BY <1>1, <1>2, <1>5 DEF ttyVars
  <2> QED
    BY <1>1, <1>2, <1>3, <2>1, Untouched DEF Pushed
<1> QED
  BY <1>4, <1>5

LEMMA AddPushes ==
  ASSUME BufferInv, ~SizeWraps, NEW c \in Key, ~Erases(Translated(c)), tty_push(c)
  PROVE  Pushed
<1> DEFINE x == Translated(c)
<1>1. x \in Cell /\ Adds(x) /\ UNCHANGED <<termios, readVars, result>>
  BY PushAdds
<1> HIDE DEF x
<1>2. Line!Type
  BY <1>1 DEF Adds, Line!Type
<1> QED
  BY <1>1, <1>2 DEF Adds, Pushed, Promised, Line!LineNext

LEMMA PushStep ==
  ASSUME TtyInv, ~SizeWraps, NEW c \in Key, tty_push(c)
  PROVE  TtyInv' /\ Promised
<1>1. Pushed
  BY ErasePushes, AddPushes DEF TtyInv
<1>2. /\ BufferInv' /\ Promised /\ buffer_size <= buffer_size'
      /\ UNCHANGED <<at, index, want, result>>
  BY <1>1 DEF Pushed, readVars
<1>3. buffer_size \in Nat /\ buffer_size' \in Nat
  BY <1>2, TtyAssumption DEF TtyInv, BufferInv
<1>4. ReadersInv
  BY DEF TtyInv
<1>5. \A p \in Reader : index'[p] <= buffer_size'
  <2>1. SUFFICES ASSUME NEW p \in Reader PROVE index[p] <= buffer_size'
    BY <1>2
  <2>2. index[p] \in Nat /\ index[p] <= buffer_size
    BY <1>4 DEF ReadersInv
  <2> QED
    BY <1>2, <1>3, <2>2
<1>6. result'.count \in Nat /\ result'.count <= buffer_size'
  <2>1. result.count \in Nat /\ result.count <= buffer_size
    BY <1>4 DEF ReadersInv
  <2> QED
    BY <1>2, <1>3, <2>1
<1>7. ReadersInv'
  BY <1>2, <1>4, <1>5, <1>6 DEF ReadersInv
<1> QED
  BY <1>2, <1>7 DEF TtyInv

-----------------------------------------------------------------------------
(***************************************************************************)
(* Readers and settings.                                                   *)
(***************************************************************************)
\* A reader that has a line, or all there is, is in its program again; the
\* others are where they were.
LEMMA ReadersBack ==
  ASSUME ReadersInv, NEW p \in Reader, NEW i \in Nat, i <= buffer_size,
         at' = [at EXCEPT ![p] = "user"] \/ UNCHANGED at,
         index' = [index EXCEPT ![p] = i] \/ UNCHANGED index,
         UNCHANGED <<want, buffer_size>>,
         result'.count \in Nat, result'.count <= buffer_size
  PROVE  ReadersInv'
<1>1. at' \in [Reader -> {"user", "test", "found"}] /\ index' \in [Reader -> Nat]
  BY DEF ReadersInv
<1>2. \A q \in Reader : at'[q] # "user" => at[q] # "user"
  BY DEF ReadersInv
<1>3. \A q \in Reader : index'[q] <= buffer_size
  BY DEF ReadersInv
<1> QED
  BY <1>1, <1>2, <1>3 DEF ReadersInv

LEMMA ReadStep ==
  ASSUME TtyInv, NEW p \in Reader, NEW n \in Request, tty_read(p, n)
  PROVE  TtyInv' /\ Promised
<1>1. BufferInv /\ ReadersInv
  BY DEF TtyInv
<1>2. 0 \in Nat /\ 0 <= buffer_size
  BY <1>1, BufferFacts
<1>3. CASE termios.icanon /\ HasLine /\ CopyLine(n) /\ UNCHANGED readVars
  <2>1. \E k \in 1..buffer_pos : Pending[k] = "nl"
    BY <1>1, <1>3, BufferFacts DEF HasLine
  <2>2. Reads(n)
    BY <1>1, <1>3, <2>1, CopyReads
  <2>3. UNCHANGED <<at, index, want>>
    BY <1>3 DEF readVars
  <2>4. ReadersInv'
    BY <1>1, <1>2, <2>2, <2>3, ReadersBack DEF Reads
  <2> QED
    BY <2>2, <2>4 DEF Reads, TtyInv, Promised, Line!LineNext
<1>4. CASE /\ at' = [at EXCEPT ![p] = "test"]
           /\ index' = [index EXCEPT ![p] = 0]
           /\ want' = [want EXCEPT ![p] = n]
           /\ UNCHANGED <<ttyVars, result>>
  <2>1. Promised /\ BufferInv'
    BY <1>1, <1>4, Untouched
  <2>2. UNCHANGED <<buffer_size, result>>
    BY <1>4 DEF ttyVars
  <2>3. n \in Nat
    BY TtyAssumption
  <2>4. /\ at' \in [Reader -> {"user", "test", "found"}]
        /\ index' \in [Reader -> Nat] /\ want' \in [Reader -> Nat]
    BY <1>1, <1>4, <2>3 DEF ReadersInv
  <2>5. /\ \A q \in Reader : index'[q] <= buffer_size
        /\ \A q \in Reader : at'[q] # "user" => want'[q] \in Request
    BY <1>1, <1>2, <1>4 DEF ReadersInv
  <2>6. ReadersInv'
    BY <1>1, <2>2, <2>4, <2>5 DEF ReadersInv
  <2> QED
    BY <2>1, <2>6 DEF TtyInv
<1>5. CASE ~termios.icanon /\ CopyRaw(n) /\ UNCHANGED readVars
  <2>1. /\ BufferInv' /\ buffer_size' = buffer_size
        /\ result'.count \in Nat /\ result'.count <= buffer_size
        /\ Line!ReadRaw(n)
    BY <1>1, <1>5, CopyRawTakesAll
  <2>2. UNCHANGED <<at, index, want>>
    BY <1>5 DEF readVars
  <2>3. ReadersInv'
    BY <1>1, <1>2, <2>1, <2>2, ReadersBack
  <2> QED
    BY <2>1, <2>3 DEF TtyInv, Promised, Line!LineNext
<1> QED
  BY <1>3, <1>4, <1>5 DEF tty_read

LEMMA TestStep ==
  ASSUME TtyInv, NEW p \in Reader, Test(p)
  PROVE  TtyInv' /\ Promised
<1>1. BufferInv /\ ReadersInv
  BY DEF TtyInv
<1>2. at[p] = "test" /\ UNCHANGED <<ttyVars, want, result>>
  BY DEF Test
<1>3. Promised /\ BufferInv' /\ UNCHANGED buffer_size
  BY <1>1, <1>2, Untouched DEF ttyVars
<1>4. buffer_size \in Nat /\ buffer_pos \in Nat /\ buffer_pos <= buffer_size
  BY <1>1, BufferFacts
<1>5. index[p] \in Nat /\ index[p] <= buffer_size /\ want[p] \in Request
  BY <1>1, <1>2 DEF ReadersInv
<1>6. CASE at' = [at EXCEPT ![p] = "found"] /\ UNCHANGED index
  <2>1. /\ at' \in [Reader -> {"user", "test", "found"}]
        /\ \A q \in Reader : at'[q] # "user" => at[q] # "user"
    BY <1>1, <1>2, <1>6 DEF ReadersInv
  <2>2. ReadersInv'
    BY <1>1, <1>2, <1>3, <1>6, <2>1 DEF ReadersInv
  <2> QED
    BY <1>3, <2>2 DEF TtyInv
<1>7. ASSUME UNCHANGED at, NEW i \in Nat, i <= buffer_size, index' = [index EXCEPT ![p] = i]
      PROVE  TtyInv' /\ Promised
  <2>1. index' \in [Reader -> Nat] /\ \A q \in Reader : index'[q] <= buffer_size
    BY <1>1, <1>7 DEF ReadersInv
  <2>2. ReadersInv'
    BY <1>1, <1>2, <1>3, <1>7, <2>1 DEF ReadersInv
  <2> QED
    BY <1>3, <2>2 DEF TtyInv
<1>8. CASE InReach(p) /\ index' = [index EXCEPT ![p] = @ + 1] /\ UNCHANGED at
  <2>1. index[p] + 1 \in Nat /\ index[p] + 1 <= buffer_size
    BY <1>4, <1>5, <1>8 DEF InReach
  <2>2. index' = [index EXCEPT ![p] = index[p] + 1]
    BY <1>8, Zenon
  <2> QED
    BY <1>7, <1>8, <2>1, <2>2
<1>9. CASE index' = [index EXCEPT ![p] = 0] /\ UNCHANGED at
  <2>1. 0 \in Nat /\ 0 <= buffer_size
    BY <1>4
  <2> QED
    BY <1>7, <1>9, <2>1, Zenon
<1> QED
  BY <1>3, <1>6, <1>8, <1>9, Zenon DEF Test

LEMMA CopyStep ==
  ASSUME TtyInv, ~CopyGone, NEW p \in Reader, Copy(p)
  PROVE  TtyInv' /\ Promised
<1>1. BufferInv /\ ReadersInv
  BY DEF TtyInv
<1>2. /\ at[p] = "found" /\ CopyLine(want[p])
      /\ at' = [at EXCEPT ![p] = "user"]
      /\ index' = [index EXCEPT ![p] = 0]
      /\ UNCHANGED want
  BY DEF Copy
<1>3. want[p] \in Request
  BY <1>1, <1>2 DEF ReadersInv
<1>4. \E k \in 1..buffer_pos : Pending[k] = "nl"
  <2>1. HasLine
    BY DEF CopyGone
  <2> QED
    BY <1>1, <2>1, BufferFacts DEF HasLine
<1>5. Reads(want[p])
  BY <1>1, <1>2, <1>3, <1>4, CopyReads
<1>6. 0 \in Nat /\ 0 <= buffer_size
  BY <1>1, BufferFacts
<1>7. ReadersInv'
  BY <1>1, <1>2, <1>5, <1>6, ReadersBack DEF Reads
<1> QED
  BY <1>3, <1>5, <1>7 DEF Reads, TtyInv, Promised, Line!LineNext

LEMMA IoctlStep ==
  ASSUME TtyInv, NEW t \in Termios, tty_ioctl(t)
  PROVE  TtyInv' /\ Promised
<1>1. UNCHANGED <<buffer, buffer_size, buffer_pos, stray, readVars, result>> /\ termios' = t
  BY DEF tty_ioctl
<1>2. UNCHANGED Pending
  BY <1>1 DEF Pending, Sound
<1>3. BufferInv'
  BY <1>1, TtyAssumption DEF TtyInv, BufferInv
<1>4. ReadersInv'
  BY <1>1 DEF TtyInv, ReadersInv, readVars
<1> QED
  BY <1>1, <1>2, <1>3, <1>4 DEF TtyInv, Promised

-----------------------------------------------------------------------------
(***************************************************************************)
(* The keyboard.                                                           *)
(***************************************************************************)
KInv == TtyInv /\ KeysInv

\* What every step keeps, and what it does to the lines.
Keeps == KInv' /\ Promised

LEMMA TypedType ==
  ASSUME NEW s \in Scancode
  PROVE  Typed(s) \in Seq(Key)
<1>1. {kbdcodes[s], kbdcodes_shifted[s]} \subseteq Key \cup {"none"} /\ Special(s) \in Seq(Key)
  BY CharacterAssumption
<1>2. scancode_to_char(s) \in {kbdcodes[s], kbdcodes_shifted[s]}
  BY DEF scancode_to_char
<1> QED
  BY <1>1, <1>2 DEF Typed

\* Steps that leave the terminal alone.
LEMMA KeysStep ==
  ASSUME KInv, KeysInv', UNCHANGED vars
  PROVE  Keeps
<1>1. UNCHANGED <<ttyVars, result>> /\ UNCHANGED <<at, index, want>>
  BY DEF vars, readVars
<1>2. Promised /\ BufferInv'
  BY <1>1, Untouched DEF KInv, TtyInv
<1>3. ReadersInv'
  BY <1>1 DEF KInv, TtyInv, ReadersInv, ttyVars
<1> QED
  BY <1>1, <1>2, <1>3 DEF Keeps, KInv, TtyInv, ttyVars

LEMMA PressStep ==
  ASSUME KInv, NEW k \in ShiftKey, Press(k) \/ Release(k)
  PROVE  Keeps
<1>1. KeysInv' /\ UNCHANGED vars
  BY DEF KInv, KeysInv, Press, Release, ShiftedAfter
<1> QED
  BY <1>1, KeysStep

LEMMA CapsStep ==
  ASSUME KInv, CapsLock
  PROVE  Keeps
<1>1. KeysInv' /\ UNCHANGED vars
  BY DEF KInv, KeysInv, CapsLock
<1> QED
  BY <1>1, KeysStep

LEMMA CodeStep ==
  ASSUME KInv, NEW s \in Scancode, keyboard_addcode(s)
  PROVE  Keeps
<1>1. Typed(s) \in Seq(Key)
  BY TypedType
<1>2. typing' = Typed(s) /\ UNCHANGED <<vars, keyVars, keypress_buffer, stuck>>
  BY DEF keyboard_addcode
<1>3. KeysInv'
  BY <1>1, <1>2 DEF KInv, KeysInv, keyVars
<1> QED
  BY <1>2, <1>3, KeysStep

LEMMA CharStep ==
  ASSUME KInv, ~SizeWraps, keyboard_addchar
  PROVE  Keeps
<1> DEFINE c == Head(typing)
<1>1. typing \in Seq(Key) /\ typing # <<>>
  BY DEF KInv, KeysInv, keyboard_addchar
<1>2. c \in Key /\ Tail(typing) \in Seq(Key)
  BY <1>1
<1> HIDE DEF c
<1>3. /\ tty_push(c) /\ keypress_buffer' = Added(c) /\ typing' = Tail(typing)
      /\ UNCHANGED <<keyVars, stuck>>
  BY DEF keyboard_addchar, c
<1>4. TtyInv' /\ Promised
  BY <1>2, <1>3, PushStep DEF KInv
<1>5. keypress_buffer \in Seq(Key) /\ Len(keypress_buffer) < UINT8
  BY DEF KInv, KeysInv
<1>6. Added(c) \in Seq(Key) /\ Len(Added(c)) < UINT8
  <2>1. UINT8 \in Nat \ {0} /\ c \in Key
    BY <1>2, KeyboardAssumption
  <2>2. CASE Len(keypress_buffer) + 1 = UINT8
    BY <2>1, <2>2 DEF Added
  <2>3. CASE Len(keypress_buffer) + 1 # UINT8
    <3>1. /\ Append(keypress_buffer, c) \in Seq(Key)
          /\ Len(Append(keypress_buffer, c)) = Len(keypress_buffer) + 1
          /\ Len(keypress_buffer) \in Nat
      BY <1>5, <2>1
    <3>2. Len(keypress_buffer) + 1 < UINT8
      BY <1>5, <2>1, <2>3, <3>1
    <3> QED
      BY <2>3, <3>1, <3>2 DEF Added
  <2> QED
    BY <2>2, <2>3
<1>7. KeysInv'
  BY <1>2, <1>3, <1>6 DEF KInv, KeysInv, keyVars
<1> QED
  BY <1>4, <1>7 DEF Keeps, KInv

LEMMA KbdReadStep ==
  ASSUME KInv, NEW n \in KbdRequest, kbd_device_read(n)
  PROVE  Keeps
<1> DEFINE ends == {i \in 1..Len(keypress_buffer) : Returns(n, i)}
           first == CHOOSE j \in ends : \A k \in ends : j <= k
<1>1. keypress_buffer \in Seq(Key) /\ Len(keypress_buffer) < UINT8 /\ UINT8 \in Nat
  BY KeyboardAssumption DEF KInv, KeysInv
<1>2. Len(keypress_buffer) \in Nat
  BY <1>1
<1>3. UNCHANGED <<vars, keyVars, typing>>
  BY DEF kbd_device_read
<1>4. CASE /\ ends # {} /\ UNCHANGED stuck
           /\ keypress_buffer' = SubSeq(keypress_buffer, first + 1, Len(keypress_buffer))
  <2>1. ends \subseteq Nat /\ ends \subseteq 1..Len(keypress_buffer)
    BY <1>2
  <2> HIDE DEF ends
  <2>2. first \in ends
    <3>1. \E k \in ends : \A j \in ends : k <= j
      BY <1>4, <2>1, LeastOf
    <3> QED
      BY <3>1, Zenon
  <2> HIDE DEF first
  <2>3. first \in 1..Len(keypress_buffer)
    BY <2>1, <2>2
  <2>4. \A i \in (first + 1)..Len(keypress_buffer) : keypress_buffer[i] \in Key
    BY <1>1, <1>2, <2>3, ElementOfSeq
  <2>5. /\ keypress_buffer' \in Seq(Key)
        /\ Len(keypress_buffer') =
             IF first + 1 <= Len(keypress_buffer)
             THEN Len(keypress_buffer) - (first + 1) + 1 ELSE 0
    <3>1. first + 1 \in Int /\ Len(keypress_buffer) \in Int
      BY <1>2, <2>3
    <3> QED
      BY <1>4, <2>4, <3>1, SubSeqProperties
  <2>6. Len(keypress_buffer') < UINT8
    BY <1>1, <1>2, <2>3, <2>5
  <2>7. KeysInv'
    BY <1>3, <1>4, <2>5, <2>6 DEF KInv, KeysInv, keyVars
  <2> QED
    BY <1>3, <2>7, KeysStep
<1>5. CASE stuck' = TRUE /\ UNCHANGED keypress_buffer
  <2>1. KeysInv'
    BY <1>3, <1>5 DEF KInv, KeysInv, keyVars
  <2> QED
    BY <1>3, <2>1, KeysStep
<1> QED
  BY <1>4, <1>5, Zenon DEF kbd_device_read

\* Steps that leave the keyboard alone.
LEMMA TtyKeeps ==
  ASSUME KInv, UNCHANGED kbVars, TtyInv', Promised
  PROVE  Keeps
BY DEF KInv, KeysInv, Keeps, kbVars, keyVars

LEMMA KeyboardStep ==
  ASSUME KInv, ~CopyGone, ~SizeWraps, [KNext]_kVars
  PROVE  Keeps
<1>1. TtyInv
  BY DEF KInv
<1>2. CASE \E k \in ShiftKey : Press(k) \/ Release(k)
  BY <1>2, PressStep
<1>3. CASE CapsLock
  BY <1>3, CapsStep
<1>4. CASE \E s \in Scancode : keyboard_addcode(s)
  BY <1>4, CodeStep
<1>5. CASE keyboard_addchar
  BY <1>5, CharStep
<1>6. CASE \E n \in KbdRequest : kbd_device_read(n)
  BY <1>6, KbdReadStep
<1>7. CASE TtyStep
  <2>1. UNCHANGED kbVars
    BY <1>7 DEF TtyStep
  <2>2. CASE \E t \in Termios : tty_ioctl(t)
    BY <1>1, <2>1, <2>2, IoctlStep, TtyKeeps
  <2>3. CASE \E p \in Reader : \E n \in Request : tty_read(p, n)
    BY <1>1, <2>1, <2>3, ReadStep, TtyKeeps
  <2> QED
    BY <1>7, <2>2, <2>3 DEF TtyStep
<1>8. CASE \E p \in Reader : KTest(p)
  BY <1>1, <1>8, TestStep, TtyKeeps DEF KTest
<1>9. CASE \E p \in Reader : KCopy(p)
  BY <1>1, <1>9, CopyStep, TtyKeeps DEF KCopy
<1>10. CASE UNCHANGED kVars
  BY <1>10, KeysStep DEF kVars, kbVars, keyVars, KInv, KeysInv
<1> QED
  BY <1>2, <1>3, <1>4, <1>5, <1>6, <1>7, <1>8, <1>9, <1>10 DEF KNext

LEMMA KeyboardStart ==
  ASSUME KInit
  PROVE  KInv /\ Line!LineInit
<1> USE TtyAssumption
<1>1. Init
  BY DEF KInit
<1>2. BufferInv
  BY <1>1 DEF Init, BufferInv, Cells, Cell
<1>3. ReadersInv
  <2>1. result.count = 0
    BY <1>1 DEF Init, Line!Got
  <2> QED
    BY <1>1, <2>1 DEF Init, ReadersInv
<1>4. KeysInv
  <2>1. Len(<<>>) = 0 /\ <<>> \in Seq(Key) /\ 0 < UINT8
    BY KeyboardAssumption
  <2>2. /\ shift \in BOOLEAN /\ caps \in BOOLEAN /\ held \subseteq ShiftKey /\ stuck \in BOOLEAN
        /\ keypress_buffer = <<>> /\ typing = <<>>
    BY DEF KInit
  <2> QED
    BY <2>1, <2>2, Zenon DEF KeysInv
<1>5. Pending = <<>>
  <2>1. Pending \in Seq(Cell) /\ Len(Pending) = 0
    BY <1>1, <1>2, BufferFacts DEF Init
  <2> QED
    BY <2>1
<1>6. Line!LineInit
  BY <1>1, <1>5 DEF Init, Line!LineInit
<1> QED
  BY <1>2, <1>3, <1>4, <1>6 DEF KInv, TtyInv

-----------------------------------------------------------------------------
LEMMA SoundIsKInv == BuffersSound <=> KInv
<1>1. ASSUME BuffersSound
      PROVE  KInv
  <2>1. TypeOK /\ Sound /\ buffer_size > 0 /\ stray = FALSE /\ UINT16 \in Nat
    BY <1>1, TtyAssumption DEF BuffersSound, TypeOK, Goes
  <2>2. buffer_size \in 1..(UINT16 - 1) /\ buffer_pos \in Nat
    BY <2>1 DEF TypeOK, Block
  <2>3. buffer \in Cells(buffer_size, Cell) /\ DOMAIN buffer = 0..(buffer_size - 1)
    BY <2>1, <2>2 DEF TypeOK, Cells
  <2>4. buffer_pos \in 0..buffer_size
    BY <2>1, <2>2, <2>3 DEF Sound
  <2>5. BufferInv
    BY <2>1, <2>2, <2>3, <2>4 DEF BufferInv, TypeOK
  <2>6. ReadersInv
    BY <2>1 DEF ReadersInv, TypeOK
  <2>7. KeysInv
    BY <1>1 DEF BuffersSound, KeysInv
  <2> QED
    BY <2>5, <2>6, <2>7 DEF KInv, TtyInv
<1>2. ASSUME KInv
      PROVE  BuffersSound
  <2>1. BufferInv /\ ReadersInv /\ KeysInv
    BY <1>2 DEF KInv, TtyInv
  <2>2. /\ buffer_size \in 1..(UINT16 - 1) /\ buffer_pos \in 0..buffer_size
        /\ stray = FALSE /\ UINT16 \in Nat
    BY <2>1, TtyAssumption, Zenon DEF BufferInv
  <2>3. buffer_size \in Block /\ buffer_pos \in Block /\ buffer_size > 0
    BY <2>2 DEF Block
  <2>4. TypeOK
    BY <2>1, <2>2, <2>3, Zenon DEF TypeOK, BufferInv, ReadersInv, Cells
  <2>5. Sound
    BY <2>1, BufferFacts
  <2> QED
    BY <2>1, <2>2, <2>3, <2>4, <2>5, Zenon DEF BuffersSound, KeysInv, Goes
<1> QED
  BY <1>1, <1>2

-----------------------------------------------------------------------------
(***************************************************************************)
(* The buffers stay sound (tty.c:178-241, keyboard.c:135-152), in line     *)
(* mode or in raw mode, for any keys and any number of readers, but for a  *)
(* copy of a line that has gone and a size that wraps.                     *)
(***************************************************************************)
THEOREM BuffersStaySound == KSpec => BuffersKept
<1>1. KInit => BuffersSound
  BY KeyboardStart, SoundIsKInv
<1>2. [KNext]_kVars => [BuffersSound /\ ~BuffersSound' => CopyGone \/ SizeWraps]_kVars
  <2>1. SUFFICES ASSUME BuffersSound, ~CopyGone, ~SizeWraps, [KNext]_kVars
                 PROVE  BuffersSound'
    OBVIOUS
  <2>2. KInv'
    BY <2>1, KeyboardStep, SoundIsKInv DEF Keeps
  <2> QED
    BY <2>2, SoundIsKInv, PTL
<1> QED
  BY <1>1, <1>2, PTL DEF KSpec, BuffersKept

(***************************************************************************)
(* As long as they are, and but for these two steps, every step is one of  *)
(* TtyLine: a key, a backspace, or a read of the first line or, in raw     *)
(* mode, of all there is, by any of the readers (tty.c:122-241).           *)
(***************************************************************************)
THEOREM ReadsAreLines == KSpec => IsTtyLine
<1>1. KInit => Line!LineInit
  BY KeyboardStart
<1>2. [KNext]_kVars
        => [BuffersSound /\ ~CopyGone /\ ~SizeWraps
              => [Line!LineNext]_<<Pending, result>>]_kVars
  BY KeyboardStep, SoundIsKInv DEF Keeps, Promised
<1> QED
  BY <1>1, <1>2, PTL DEF KSpec, IsTtyLine

-----------------------------------------------------------------------------
(* What is shown.  First the numbers.                                      *)

\* Every multi-digit value of the cursor is one of uint32_t.
Pos == 0..(UINT32 - 1)

LEMMA Remainder ==
  ASSUME NEW x \in Int
  PROVE  x % UINT32 \in Pos
BY ConsoleAssumption DEF Pos

LEMMA Small ==
  ASSUME NEW x \in Nat, x < UINT32
  PROVE  x % UINT32 = x
<1>1. UINT32 \in Nat \ {0} /\ x \in 0..(UINT32 - 1)
  BY ConsoleAssumption
<1> QED
  BY <1>1, NoWrap

LEMMA Quotient ==
  ASSUME NEW n \in Nat, NEW d \in Nat \ {0}
  PROVE  n \div d \in Nat /\ n \div d <= n
<1>1. n \div d \in Nat /\ (n \div d) * d <= n
  BY SMTT(30)
<1>2. PICK q \in Nat : q = n \div d
  BY <1>1
<1>3. q <= q * d
  BY SMTT(30)
<1>4. q * d <= n
  BY <1>1, <1>2
<1>5. q * d \in Nat
  BY SMTT(30)
<1> DEFINE m == q * d
<1> HIDE DEF m
<1>6. q <= n
  <2>1. m \in Nat /\ q <= m /\ m <= n
    BY <1>3, <1>4, <1>5 DEF m
  <2> QED
    BY <2>1
<1> QED
  BY <1>2, <1>6

IsFormat(f) ==
  /\ f \in [width : Nat, height : Nat, pitch : Nat, bytes : 1..4, type : Type]
  /\ f.width < UINT32 /\ f.height < UINT32

LEMMA Formats ==
  ASSUME NEW f \in Format
  PROVE  IsFormat(f)
BY VideoAssumption, ConsoleAssumption DEF IsFormat

\* A screen has fewer columns and rows than the cursor has coordinates.
LEMMA GridSizes ==
  ASSUME NEW f, IsFormat(f)
  PROVE  /\ Columns(f) \in Nat /\ Columns(f) < UINT32
         /\ Rows(f) \in Nat /\ Rows(f) < UINT32
<1>1. f.width \in Nat /\ f.height \in Nat /\ f.width < UINT32 /\ f.height < UINT32
  BY DEF IsFormat
<1>2. FONT_WIDTH \in Nat \ {0} /\ fontheight \in Nat \ {0} /\ UINT32 \in Nat
  BY VideoAssumption, ConsoleAssumption
<1>3. /\ f.width \div FONT_WIDTH \in Nat /\ f.width \div FONT_WIDTH <= f.width
      /\ f.height \div fontheight \in Nat /\ f.height \div fontheight <= f.height
  BY <1>1, <1>2, Quotient
<1> DEFINE c == f.width \div FONT_WIDTH
           r == f.height \div fontheight
           w == f.width
           h == f.height
<1> HIDE DEF c, r, w, h
<1>4. c \in Nat /\ c <= w /\ r \in Nat /\ r <= h /\ w \in Nat /\ h \in Nat
      /\ w < UINT32 /\ h < UINT32
  BY <1>1, <1>3 DEF c, r, w, h
<1>5. c < UINT32 /\ r < UINT32
  BY <1>2, <1>4
<1>6. (Columns(f) = w \/ Columns(f) = c) /\ (Rows(f) = h \/ Rows(f) = r)
  BY DEF Columns, Rows, c, r, w, h
<1> QED
  BY <1>4, <1>5, <1>6

-----------------------------------------------------------------------------
(* The display.  Its colours are of no concern here.                       *)

IsDisplay(d) ==
  d \in [x : Pos, y : Pos, ink : {d.ink}, outside : BOOLEAN, fg : {d.fg}, bg : {d.bg}]

LEMMA Positions ==
  ASSUME NEW d, IsDisplay(d)
  PROVE  d.x \in Pos /\ d.y \in Pos /\ d.x \in Nat /\ d.y \in Nat
<1>1. d.x \in Pos /\ d.y \in Pos
  BY DEF IsDisplay
<1> QED
  BY <1>1, ConsoleAssumption DEF Pos

LEMMA DrawnAt ==
  ASSUME NEW d, IsDisplay(d), NEW c
  PROVE  /\ IsDisplay(Drawn(d, c))
         /\ Drawn(d, c).x = (d.x + 1) % UINT32 /\ Drawn(d, c).y = d.y
<1>1. d.x + 1 \in Int
  BY Positions
<1>2. (d.x + 1) % UINT32 \in Pos
  BY <1>1, Remainder
<1> QED
  BY <1>2 DEF Drawn, IsDisplay

LEMMA BlankedAt ==
  ASSUME NEW d, IsDisplay(d)
  PROVE  IsDisplay(Blanked(d)) /\ Blanked(d).x = d.x /\ Blanked(d).y = d.y
BY DEF Blanked, IsDisplay

LEMMA BackAt ==
  ASSUME fb \in Format, NEW d, IsDisplay(d)
  PROVE  /\ IsDisplay(Back(d))
         /\ d.x = 0 => /\ Back(d).x = (Columns(fb) - 1) % UINT32
                       /\ Back(d).y = (d.y - 1) % UINT32
         /\ d.x # 0 => Back(d).x = d.x - 1 /\ Back(d).y = d.y
         /\ Back(d).ink = d.ink /\ Back(d).outside = d.outside
<1>1. d.x \in Pos /\ d.x \in Nat /\ d.y \in Nat /\ Columns(fb) \in Nat
  BY Positions, Formats, GridSizes
<1>2. (Columns(fb) - 1) % UINT32 \in Pos /\ (d.y - 1) % UINT32 \in Pos
  BY <1>1, Remainder
<1>3. d.x # 0 => d.x - 1 \in Pos
  <2>1. \A x \in Pos : x # 0 => x - 1 \in Pos
    BY ConsoleAssumption DEF Pos
  <2> QED
    BY <1>1, <2>1, Zenon
<1>4. CASE d.x = 0
  BY <1>2, <1>4 DEF Back, IsDisplay
<1>5. CASE d.x # 0
  BY <1>3, <1>5 DEF Back, IsDisplay
<1> QED
  BY <1>4, <1>5

LEMMA WrappedAt ==
  ASSUME NEW d, IsDisplay(d)
  PROVE  /\ IsDisplay(Wrapped(d))
         /\ d.x >= Columns(fb) => Wrapped(d).x = 0 /\ Wrapped(d).y = (d.y + 1) % UINT32
         /\ ~(d.x >= Columns(fb)) => Wrapped(d) = d
<1>1. d.y + 1 \in Int /\ 0 \in Pos
  BY Positions, ConsoleAssumption DEF Pos
<1>2. (d.y + 1) % UINT32 \in Pos
  BY <1>1, Remainder
<1> QED
  BY <1>1, <1>2 DEF Wrapped, IsDisplay

LEMMA ScrolledAt ==
  ASSUME NEW d, IsDisplay(d)
  PROVE  /\ IsDisplay(Scrolled(d))
         /\ Scrolled(d).x = d.x
         /\ d.y >= Rows(fb) => Scrolled(d).y = (d.y - 1) % UINT32
         /\ ~(d.y >= Rows(fb)) => Scrolled(d) = d
<1>1. d.y - 1 \in Int
  BY Positions
<1>2. (d.y - 1) % UINT32 \in Pos
  BY <1>1, Remainder
<1> QED
  BY <1>2 DEF Scrolled, IsDisplay

LEMMA WrittenType ==
  ASSUME fb \in Format, NEW d, IsDisplay(d), NEW c
  PROVE  IsDisplay(Written(d, c))
<1>1. d.x \in Nat /\ d.y \in Nat /\ 0 \in Pos
  BY Positions, ConsoleAssumption DEF Pos
<1>2. (d.y + 1) % UINT32 \in Pos /\ (d.x + 4) % UINT32 \in Pos
  BY <1>1, Remainder
<1>3. IsDisplay([d EXCEPT !.x = 0, !.y = (@ + 1) % UINT32])
  BY <1>1, <1>2 DEF IsDisplay
<1>4. IsDisplay([d EXCEPT !.x = 0])
  BY <1>1 DEF IsDisplay
<1>5. IsDisplay([d EXCEPT !.x = (@ + 4) % UINT32])
  BY <1>2 DEF IsDisplay
<1>6. IsDisplay(Blanked(Back(d)))
  BY BackAt, BlankedAt
<1>7. IsDisplay(Drawn(d, c))
  BY DrawnAt
<1> QED
  BY <1>3, <1>4, <1>5, <1>6, <1>7, Zenon DEF Written

LEMMA PutType ==
  ASSUME fb \in Format, NEW d, IsDisplay(d), NEW c
  PROVE  IsDisplay(Put(d, c))
<1>1. IsDisplay(Written(d, c))
  BY WrittenType
<1>2. IsDisplay(Wrapped(Written(d, c)))
  BY <1>1, WrappedAt
<1> QED
  BY <1>2, ScrolledAt DEF Put

-----------------------------------------------------------------------------
(* Characters, one after the other.                                        *)

LEMMA Upwards ==
  ASSUME NEW n \in Nat, NEW T, 0 \in T,
         \A i \in 1..n : i - 1 \in T => i \in T
  PROVE  0..n \subseteq T
<1> DEFINE missing == {i \in 0..n : i \notin T}
<1>1. SUFFICES ASSUME missing # {} PROVE FALSE
  BY DEF missing
<1>2. missing \subseteq Nat
  BY DEF missing
<1> HIDE DEF missing
<1>3. PICK k \in missing : \A j \in missing : k <= j
  BY <1>1, <1>2, LeastOf
<1>4. k \in 0..n /\ k \notin T
  BY <1>3 DEF missing
<1>5. k \in 1..n
  BY <1>4
<1>6. k - 1 \notin missing
  BY <1>3, <1>5
<1>7. k - 1 \in T
  BY <1>5, <1>6 DEF missing
<1> QED
  BY <1>4, <1>5, <1>7

\* The displays that the first n characters of s lead to from d.
Leads(d, s, n, g) ==
  g = [i \in 0..n |-> IF i = 0 THEN d ELSE Put(g[i - 1], s[i])]

LeadsTo(d, s, n, g) ==
  DOMAIN g = 0..n /\ g[0] = d /\ \A i \in 1..n : g[i] = Put(g[i - 1], s[i])

LEMMA LeadsBoth ==
  ASSUME NEW d, NEW s, NEW n \in Nat, NEW g, Leads(d, s, n, g)
  PROVE  LeadsTo(d, s, n, g)
BY DEF Leads, LeadsTo

LEMMA LeadsExists ==
  ASSUME NEW d, NEW s, NEW m \in Nat
  PROVE  \E g : Leads(d, s, m, g)
<1> DEFINE T == {n \in 0..m : \E g : Leads(d, s, n, g)}
<1>1. 0 \in T
  <2> DEFINE g == [i \in 0..0 |-> d]
  <2>1. Leads(d, s, 0, g)
    BY DEF Leads
  <2> QED
    BY <2>1
<1>2. ASSUME NEW n \in 1..m, n - 1 \in T
      PROVE  n \in T
  <2>1. PICK g : Leads(d, s, n - 1, g)
    BY <1>2
  <2>2. n - 1 \in Nat
    OBVIOUS
  <2>3. LeadsTo(d, s, n - 1, g)
    BY <2>1, <2>2, LeadsBoth
  <2> DEFINE h == [i \in 0..n |-> IF i = n THEN Put(g[n - 1], s[n]) ELSE g[i]]
  <2>4. h[0] = d
    BY <2>3 DEF LeadsTo
  <2>5. ASSUME NEW i \in 1..n
        PROVE  h[i] = Put(h[i - 1], s[i])
    <3>1. h[i - 1] = g[i - 1]
      OBVIOUS
    <3>2. CASE i = n
      <4>1. h[i] = Put(g[i - 1], s[i])
        BY <3>2
      <4> QED
        BY <3>1, <4>1, Zenon
    <3>3. CASE i # n
      <4>1. h[i] = g[i] /\ i \in 1..(n - 1)
        BY <3>3
      <4>2. g[i] = Put(g[i - 1], s[i])
        BY <2>3, <4>1, Zenon DEF LeadsTo
      <4> QED
        BY <3>1, <4>1, <4>2, Zenon
    <3> QED
      BY <3>2, <3>3
  <2> HIDE DEF h
  <2>6. h = [i \in 0..n |-> h[i]]
    BY DEF h
  <2>7. ASSUME NEW i \in 0..n
        PROVE  h[i] = IF i = 0 THEN d ELSE Put(h[i - 1], s[i])
    <3>1. CASE i = 0
      BY <2>4, <3>1, Zenon
    <3>2. CASE i # 0
      <4>1. i \in 1..n
        BY <3>2
      <4> QED
        BY <2>5, <3>2, <4>1, Zenon
    <3> QED
      BY <3>1, <3>2, Zenon
  <2>8. [i \in 0..n |-> h[i]] = [i \in 0..n |-> IF i = 0 THEN d ELSE Put(h[i - 1], s[i])]
    BY <2>7, Zenon
  <2>9. h = [i \in 0..n |-> IF i = 0 THEN d ELSE Put(h[i - 1], s[i])]
    BY <2>6, <2>8, Zenon
  <2>10. Leads(d, s, n, h)
    BY <2>9, Zenon DEF Leads
  <2> QED
    BY <2>10
<1> HIDE DEF T
<1>3. 0..m \subseteq T
  BY <1>1, <1>2, Upwards
<1> QED
  BY <1>3 DEF T

LEMMA LeadsUnique ==
  ASSUME NEW d, NEW s, NEW t, NEW n \in Nat, NEW m \in Nat, n <= m, NEW g, NEW h,
         Leads(d, s, n, g), Leads(d, t, m, h), \A i \in 1..n : s[i] = t[i]
  PROVE  g[n] = h[n]
<1> DEFINE same == {i \in 0..n : g[i] = h[i]}
<1>1. LeadsTo(d, s, n, g) /\ LeadsTo(d, t, m, h)
  BY LeadsBoth
<1>2. 0 \in same
  BY <1>1 DEF LeadsTo
<1>3. ASSUME NEW i \in 1..n, i - 1 \in same
      PROVE  i \in same
  <2>1. g[i] = Put(g[i - 1], s[i]) /\ h[i] = Put(h[i - 1], t[i])
    BY <1>1 DEF LeadsTo
  <2>2. g[i - 1] = h[i - 1] /\ s[i] = t[i]
    BY <1>3
  <2>3. g[i] = h[i]
    BY <2>1, <2>2, Zenon
  <2> QED
    BY <2>3
<1> HIDE DEF same
<1>4. 0..n \subseteq same
  BY <1>2, <1>3, Upwards
<1> QED
  BY <1>4 DEF same

LEMMA PutAllIs ==
  ASSUME NEW d, NEW s \in Seq(Char)
  PROVE  \E g : Leads(d, s, Len(s), g) /\ PutAll(d, s) = g[Len(s)]
<1> DEFINE u == CHOOSE g : Leads(d, s, Len(s), g)
<1>1. Len(s) \in Nat
  OBVIOUS
<1>2. Leads(d, s, Len(s), u)
  BY <1>1, LeadsExists, Zenon
<1>3. PutAll(d, s) = u[Len(s)]
  BY Zenon DEF PutAll, Leads
<1> QED
  BY <1>2, <1>3, Zenon

LEMMA PutAllNone ==
  ASSUME NEW d
  PROVE  PutAll(d, <<>>) = d
<1> DEFINE none == <<>>
<1>1. none \in Seq(Char) /\ Len(none) = 0
  OBVIOUS
<1> HIDE DEF none
<1>2. PICK g : Leads(d, none, Len(none), g) /\ PutAll(d, none) = g[Len(none)]
  BY <1>1, PutAllIs, Zenon
<1>3. Leads(d, none, 0, g) /\ PutAll(d, none) = g[0]
  BY <1>1, <1>2, Zenon
<1>4. g[0] = d
  BY <1>3, LeadsBoth, Zenon DEF LeadsTo
<1> QED
  BY <1>3, <1>4, Zenon DEF none

LEMMA PutAllMore ==
  ASSUME NEW d, NEW s \in Seq(Char), NEW c \in Char
  PROVE  PutAll(d, Append(s, c)) = Put(PutAll(d, s), c)
<1> DEFINE n == Len(s)
           t == Append(s, c)
<1>1. n \in Nat /\ t \in Seq(Char) /\ Len(t) = n + 1 /\ t[n + 1] = c
      /\ \A i \in 1..n : s[i] = t[i]
  OBVIOUS
<1> HIDE DEF t
<1>2. PICK g : Leads(d, s, n, g) /\ PutAll(d, s) = g[n]
  BY PutAllIs
<1>3. PICK h : Leads(d, t, Len(t), h) /\ PutAll(d, t) = h[Len(t)]
  BY <1>1, PutAllIs
<1>4. Leads(d, t, n + 1, h) /\ PutAll(d, t) = h[n + 1] /\ n + 1 \in Nat /\ n <= n + 1
  BY <1>1, <1>3
<1>5. g[n] = h[n]
  BY <1>1, <1>2, <1>4, LeadsUnique
<1>6. LeadsTo(d, t, n + 1, h)
  BY <1>4, LeadsBoth
<1>7. h[n + 1] = Put(h[n], t[n + 1])
  <2>1. n + 1 \in 1..(n + 1) /\ (n + 1) - 1 = n
    BY <1>1
  <2> QED
    BY <1>6, <2>1, Zenon DEF LeadsTo
<1> QED
  BY <1>1, <1>2, <1>4, <1>5, <1>7, Zenon DEF t

\* Induction over what is written, over a set instead of a formula.
LEMMA CharByChar ==
  ASSUME NEW S, NEW T, <<>> \in T,
         \A s \in Seq(S), c \in S : s \in T => Append(s, c) \in T
  PROVE  Seq(S) \subseteq T
<1> SUFFICES ASSUME NEW s \in Seq(S) PROVE s \in T
  OBVIOUS
<1> DEFINE ok == {i \in 0..Len(s) : SubSeq(s, 1, i) \in T}
<1>1. Len(s) \in Nat
  OBVIOUS
<1>2. 0 \in ok
  <2>1. SubSeq(s, 1, 0) = <<>>
    BY SubSeqEmpty
  <2>2. 0 \in 0..Len(s)
    BY <1>1
  <2> QED
    BY <2>1, <2>2, Zenon
<1>3. ASSUME NEW i \in 1..Len(s), i - 1 \in ok
      PROVE  i \in ok
  <2>1. /\ SubSeq(s, 1, i - 1) \in Seq(S) /\ SubSeq(s, 1, i - 1) \in T
        /\ s[i] \in S
    BY <1>3
  <2>2. SubSeq(s, 1, i) = Append(SubSeq(s, 1, i - 1), s[i])
    BY <1>1
  <2>3. Append(SubSeq(s, 1, i - 1), s[i]) \in T
    BY <2>1
  <2>4. i \in 0..Len(s)
    BY <1>1
  <2> QED
    BY <2>2, <2>3, <2>4, Zenon
<1> HIDE DEF ok
<1>4. 0..Len(s) \subseteq ok
  BY <1>1, <1>2, <1>3, Upwards
<1>5. SubSeq(s, 1, Len(s)) \in T
  BY <1>1, <1>4 DEF ok
<1>6. SubSeq(s, 1, Len(s)) = s
  BY SubSeqFull
<1> QED
  BY <1>5, <1>6, Zenon

LEMMA PutAllType ==
  ASSUME fb \in Format, NEW d, IsDisplay(d), NEW s \in Seq(Char)
  PROVE  IsDisplay(PutAll(d, s))
<1> DEFINE T == {t \in Seq(Char) : IsDisplay(PutAll(d, t))}
<1>1. <<>> \in T
  BY PutAllNone
<1>2. ASSUME NEW t \in Seq(Char), NEW c \in Char, t \in T
      PROVE  Append(t, c) \in T
  <2>1. IsDisplay(PutAll(d, t)) /\ Append(t, c) \in Seq(Char)
    BY <1>2
  <2>2. IsDisplay(Put(PutAll(d, t), c))
    BY <2>1, PutType
  <2>3. IsDisplay(PutAll(d, Append(t, c)))
    BY <2>2, PutAllMore
  <2> QED
    BY <2>1, <2>3
<1> HIDE DEF T
<1>3. Seq(Char) \subseteq T
  BY <1>1, <1>2, CharByChar
<1> QED
  BY <1>3 DEF T

-----------------------------------------------------------------------------
(* The numbers of a sequence.                                              *)

LEMMA ValueType ==
  ASSUME NEW c \in Digit
  PROVE  Value[c] \in Nat
BY ConsoleAssumption DEF Value

Counts(s, n, g) ==
  g = [i \in 0..n |->
         IF i = 0 THEN 0
         ELSE IF s[i] \in Digit THEN (10 * g[i - 1] + Value[s[i]]) % UINT32
         ELSE g[i - 1]]

\* The number a character leads to from the one before it.
Counted(v, c) == IF c \in Digit THEN (10 * v + Value[c]) % UINT32 ELSE v

CountsTo(s, n, g) ==
  /\ DOMAIN g = 0..n /\ g = [i \in 0..n |-> g[i]]
  /\ g[0] = 0 /\ \A i \in 1..n : g[i] = Counted(g[i - 1], s[i])

LEMMA CountsBoth ==
  ASSUME NEW s, NEW n \in Nat, NEW g, Counts(s, n, g)
  PROVE  CountsTo(s, n, g)
<1>1. DOMAIN g = 0..n /\ g = [i \in 0..n |-> g[i]]
  BY DEF Counts
<1>2. g[0] = 0
  BY DEF Counts
<1>3. ASSUME NEW i \in 1..n
      PROVE  g[i] = Counted(g[i - 1], s[i])
  <2>1. i \in 0..n /\ i # 0
    OBVIOUS
  <2>2. g[i] = IF i = 0 THEN 0
               ELSE IF s[i] \in Digit THEN (10 * g[i - 1] + Value[s[i]]) % UINT32
               ELSE g[i - 1]
    BY <2>1, Zenon DEF Counts
  <2> QED
    BY <2>1, <2>2, Zenon DEF Counted
<1> QED
  BY <1>1, <1>2, <1>3, Zenon DEF CountsTo

LEMMA CountsBack ==
  ASSUME NEW s, NEW n \in Nat, NEW g, CountsTo(s, n, g)
  PROVE  Counts(s, n, g)
<1>1. ASSUME NEW i \in 0..n
      PROVE  g[i] = IF i = 0 THEN 0
                    ELSE IF s[i] \in Digit THEN (10 * g[i - 1] + Value[s[i]]) % UINT32
                    ELSE g[i - 1]
  <2>1. CASE i = 0
    BY <2>1, Zenon DEF CountsTo
  <2>2. CASE i # 0
    <3>1. i \in 1..n
      BY <2>2
    <3>2. g[i] = Counted(g[i - 1], s[i])
      BY <3>1, Zenon DEF CountsTo
    <3> QED
      BY <2>2, <3>2, Zenon DEF Counted
  <2> QED
    BY <2>1, <2>2
<1> QED
  BY <1>1, Zenon DEF Counts, CountsTo

LEMMA CountsExists ==
  ASSUME NEW s, NEW m \in Nat
  PROVE  \E g : Counts(s, m, g)
<1> DEFINE T == {n \in 0..m : \E g : CountsTo(s, n, g)}
<1>1. 0 \in T
  <2> DEFINE g == [i \in 0..0 |-> 0]
  <2>1. CountsTo(s, 0, g)
    BY DEF CountsTo
  <2> QED
    BY <2>1
<1>2. ASSUME NEW n \in 1..m, n - 1 \in T
      PROVE  n \in T
  <2>1. PICK g : CountsTo(s, n - 1, g)
    BY <1>2
  <2> DEFINE h == [i \in 0..n |-> IF i = n THEN Counted(g[n - 1], s[n]) ELSE g[i]]
  <2>2. h[0] = 0
    BY <2>1 DEF CountsTo
  <2>3. ASSUME NEW i \in 1..n
        PROVE  h[i] = Counted(h[i - 1], s[i])
    <3>1. h[i - 1] = g[i - 1]
      OBVIOUS
    <3>2. CASE i = n
      <4>1. h[i] = Counted(g[i - 1], s[i])
        BY <3>2
      <4> QED
        BY <3>1, <4>1, Zenon
    <3>3. CASE i # n
      <4>1. h[i] = g[i] /\ i \in 1..(n - 1)
        BY <3>3
      <4>2. g[i] = Counted(g[i - 1], s[i])
        BY <2>1, <4>1, Zenon DEF CountsTo
      <4> QED
        BY <3>1, <4>1, <4>2, Zenon
    <3> QED
      BY <3>2, <3>3
  <2>4. DOMAIN h = 0..n /\ h = [i \in 0..n |-> h[i]]
    OBVIOUS
  <2> HIDE DEF h
  <2>5. CountsTo(s, n, h)
    BY <2>2, <2>3, <2>4, Zenon DEF CountsTo
  <2> QED
    BY <2>5
<1> HIDE DEF T
<1>3. 0..m \subseteq T
  BY <1>1, <1>2, Upwards
<1>4. PICK g : CountsTo(s, m, g)
  BY <1>3 DEF T
<1> QED
  BY <1>4, CountsBack

LEMMA NumberType ==
  ASSUME NEW s \in Seq(Char)
  PROVE  Number(s) \in Nat
<1> DEFINE u == CHOOSE g : Counts(s, Len(s), g)
           T == {i \in 0..Len(s) : u[i] \in Nat}
<1>1. Len(s) \in Nat
  OBVIOUS
<1>2. Counts(s, Len(s), u)
  BY <1>1, CountsExists, Zenon
<1>3. Number(s) = u[Len(s)]
  BY Zenon DEF Number, Counts
<1> HIDE DEF u
<1>4. CountsTo(s, Len(s), u)
  BY <1>1, <1>2, CountsBoth
<1>5. 0 \in T
  BY <1>1, <1>4 DEF CountsTo
<1>6. ASSUME NEW i \in 1..Len(s), i - 1 \in T
      PROVE  i \in T
  <2>1. u[i] = Counted(u[i - 1], s[i]) /\ i \in 0..Len(s)
    BY <1>1, <1>4 DEF CountsTo
  <2>2. PICK v \in Nat : v = u[i - 1]
    BY <1>6
  <2>3. CASE s[i] \in Digit
    <3>1. PICK w \in Nat : w = Value[s[i]]
      BY <2>3, ValueType
    <3>2. (10 * v + w) % UINT32 \in Nat
      <4>1. 10 * v + w \in Int
        OBVIOUS
      <4>2. (10 * v + w) % UINT32 \in Pos
        BY <4>1, Remainder
      <4> QED
        BY <4>2, ConsoleAssumption DEF Pos
    <3>3. Counted(u[i - 1], s[i]) = (10 * v + w) % UINT32
      BY <2>2, <2>3, <3>1, Zenon DEF Counted
    <3> QED
      BY <2>1, <3>2, <3>3
  <2>4. CASE s[i] \notin Digit
    <3>1. Counted(u[i - 1], s[i]) = v
      BY <2>2, <2>4, Zenon DEF Counted
    <3> QED
      BY <2>1, <3>1
  <2> QED
    BY <2>3, <2>4
<1> HIDE DEF T
<1>7. 0..Len(s) \subseteq T
  BY <1>1, <1>5, <1>6, Upwards
<1>8. u[Len(s)] \in Nat
  BY <1>1, <1>7 DEF T
<1> QED
  BY <1>3, <1>8

LEMMA HomeType ==
  ASSUME NEW s \in Seq(Char)
  PROVE  handleHome(s).x \in Pos /\ handleHome(s).y \in Pos
<1> DEFINE semi == {i \in 1..Len(s) : s[i] = ";"}
           first == IF semi = {} THEN Len(s) ELSE CHOOSE i \in semi : \A j \in semi : i <= j
<1>1. Len(s) \in Nat /\ 0 \in Pos
  BY ConsoleAssumption DEF Pos
<1>2. semi \subseteq Nat /\ semi \subseteq 1..Len(s)
  <2> HIDE DEF first
  <2>1. semi \subseteq 1..Len(s)
    BY Zenon
  <2>2. 1..Len(s) \subseteq Nat
    BY <1>1
  <2> QED
    BY <2>1, <2>2, Zenon
<1>3. first \in 0..Len(s)
  <2> HIDE DEF semi
  <2>1. CASE semi = {}
    <3>1. first = Len(s)
      BY <2>1, Zenon
    <3>2. Len(s) \in 0..Len(s)
      BY <1>1
    <3> QED
      BY <3>1, <3>2, Zenon
  <2>2. CASE semi # {}
    <3>1. \E i \in semi : \A j \in semi : i <= j
      BY <1>2, <2>2, LeastOf
    <3>2. first \in semi
      BY <2>2, <3>1, Zenon
    <3>3. first \in 1..Len(s)
      BY <1>2, <3>2, Zenon
    <3>4. 1..Len(s) \subseteq 0..Len(s)
      OBVIOUS
    <3> QED
      BY <3>3, <3>4, Zenon
  <2> QED
    BY <2>1, <2>2, Zenon
<1> HIDE DEF first, semi
<1>4. SubSeq(s, first + 1, Len(s)) \in Seq(Char) /\ SubSeq(s, 1, first) \in Seq(Char)
  BY <1>1, <1>3
<1>5. /\ Number(SubSeq(s, first + 1, Len(s))) - 1 \in Int
      /\ Number(SubSeq(s, 1, first)) - 1 \in Int
  <2>1. \A v \in Nat : v - 1 \in Int
    OBVIOUS
  <2> QED
    BY <1>4, <2>1, NumberType, Zenon
<1>6. /\ (Number(SubSeq(s, first + 1, Len(s))) - 1) % UINT32 \in Pos
      /\ (Number(SubSeq(s, 1, first)) - 1) % UINT32 \in Pos
  BY <1>5, Remainder, Zenon
<1>7. handleHome(s) =
        IF Len(s) = 2 THEN [x |-> 0, y |-> 0]
        ELSE [x |-> (Number(SubSeq(s, 1, first)) - 1) % UINT32,
              y |-> (Number(SubSeq(s, first + 1, Len(s))) - 1) % UINT32]
  BY Zenon DEF handleHome, first, semi
<1> QED
  BY <1>1, <1>6, <1>7

-----------------------------------------------------------------------------
(* A sequence and its block.                                               *)

\* Inductive: what is shown is typed as well.
EscapeInv == EscapeSound /\ IsDisplay(display)

LEMMA CursorTyped ==
  ASSUME NEW d, IsDisplay(d)
  PROVE  d.x \in 0..(UINT32 - 1) /\ d.y \in 0..(UINT32 - 1) /\ d.outside \in BOOLEAN
BY DEF IsDisplay, Pos

LEMMA SettledType ==
  ASSUME fb \in Format, NEW d, IsDisplay(d)
  PROVE  IsDisplay(Scrolled(Wrapped(d)))
<1>1. IsDisplay(Wrapped(d))
  BY WrappedAt
<1> QED
  BY <1>1, ScrolledAt

LEMMA OneMore ==
  ASSUME NEW s \in Seq(Char), NEW c \in Char
  PROVE  Append(s, c) \in Seq(Char) /\ Len(Append(s, c)) = Len(s) + 1
OBVIOUS

\* The echo of a backspace, character by character.
LEMMA EchoIs ==
  /\ <<>> \in Seq(Char) /\ <<"bs">> \in Seq(Char) /\ <<"bs", " ">> \in Seq(Char)
  /\ <<"bs", " ", "bs">> \in Seq(Char)
  /\ <<"bs">> = Append(<<>>, "bs") /\ <<"bs", " ">> = Append(<<"bs">>, " ")
  /\ <<"bs", " ", "bs">> = Append(<<"bs", " ">>, "bs")
<1> DEFINE b == "bs"
           e == " "
<1>1. b \in Char /\ e \in Char
  BY DEF Char
<1> HIDE DEF b, e
<1>2. /\ <<b>> = Append(<<>>, b) /\ <<b, e>> = Append(<<b>>, e)
      /\ <<b, e, b>> = Append(<<b, e>>, b)
  OBVIOUS
<1>3. <<>> \in Seq(Char) /\ <<b>> \in Seq(Char) /\ <<b, e>> \in Seq(Char)
  BY <1>1
<1>4. <<b, e, b>> \in Seq(Char)
  BY <1>1, <1>2, <1>3
<1> QED
  BY <1>2, <1>3, <1>4, Zenon DEF b, e

LEMMA BlockInit ==
  ASSUME ScreenInit
  PROVE  EscapeInv
<1>1. 0 \in Pos
  BY ConsoleAssumption DEF Pos
<1>2. IsDisplay(display)
  BY <1>1 DEF ScreenInit, Empty, IsDisplay
<1>3. display.x \in 0..(UINT32 - 1) /\ display.y \in 0..(UINT32 - 1)
      /\ display.outside \in BOOLEAN
  BY <1>2, CursorTyped
<1>4. escape_sequence \in Seq(Char) /\ Len(escape_sequence) <= sequence_buffer_size
  BY DEF ScreenInit
<1> QED
  BY <1>2, <1>3, <1>4 DEF ScreenInit, EscapeInv, EscapeSound, ScreenTyped

\* What a step that leaves the sequence alone has to show.
LEMMA BlockKept ==
  ASSUME EscapeInv, UNCHANGED <<fb, sequenceVars, reentered>>, IsDisplay(display)'
  PROVE  EscapeInv'
<1>1. /\ display'.x \in 0..(UINT32 - 1) /\ display'.y \in 0..(UINT32 - 1)
      /\ display'.outside \in BOOLEAN
  BY DEF IsDisplay, Pos
<1> QED
  BY <1>1 DEF EscapeInv, EscapeSound, ScreenTyped, sequenceVars

\* What a step that ends the sequence has to show.
LEMMA BlockFreed ==
  ASSUME EscapeInv, NEW c \in Char, Ends(c), IsDisplay(display)'
  PROVE  EscapeInv'
<1>1. /\ display'.x \in 0..(UINT32 - 1) /\ display'.y \in 0..(UINT32 - 1)
      /\ display'.outside \in BOOLEAN
  BY DEF IsDisplay, Pos
<1>2. /\ escape_sequence' \in Seq(Char) /\ sequence_buffer_size' \in Nat
      /\ Len(escape_sequence') <= sequence_buffer_size'
  <2>1. escape_sequence' = <<>> /\ sequence_buffer_size' = 0
    BY Zenon DEF Ends
  <2> QED
    BY <2>1
<1>3. fb' \in Format /\ in_escape_sequence' = FALSE /\ block' = "none"
  BY DEF EscapeInv, EscapeSound, ScreenTyped, Ends
<1> QED
  BY <1>1, <1>2, <1>3 DEF EscapeInv, EscapeSound, ScreenTyped

LEMMA BlockStep ==
  ASSUME EscapeInv, [Next]_screenVars
  PROVE  EscapeInv'
<1>1. /\ fb \in Format /\ IsDisplay(display) /\ escape_sequence \in Seq(Char)
      /\ Len(escape_sequence) <= sequence_buffer_size /\ sequence_buffer_size \in Nat
  BY DEF EscapeInv, EscapeSound, ScreenTyped
<1>2. SEQUENCE \in Nat \ {0}
  BY ConsoleAssumption
<1>3. /\ "[" \in Char /\ " " \in Char /\ "bs" \in Char
      /\ "m" \in Char /\ "J" \in Char /\ "H" \in Char
  BY DEF Char
<1>4. ASSUME NEW c \in Char, Plain(c)
      PROVE  EscapeInv'
  <2>1. IsDisplay(display)'
    BY <1>1, <1>4, PutType DEF Plain
  <2> QED
    BY <1>4, <2>1, BlockKept DEF Plain
<1>5. ASSUME NEW c \in Char, Collect(c)
      PROVE  EscapeInv'
  <2>1. IsDisplay(display)'
    BY <1>1, <1>5 DEF Collect
  <2>2. /\ display'.x \in 0..(UINT32 - 1) /\ display'.y \in 0..(UINT32 - 1)
        /\ display'.outside \in BOOLEAN
    BY <2>1 DEF IsDisplay, Pos
  <2>3. /\ escape_sequence' \in Seq(Char)
        /\ Len(escape_sequence') = Len(escape_sequence) + 1
        /\ Len(escape_sequence) \in Nat
    <3>1. escape_sequence' = Append(escape_sequence, c)
      BY <1>5 DEF Collect
    <3>2. Len(escape_sequence) \in Nat
      BY <1>1
    <3> QED
      BY <1>1, <3>1, <3>2, OneMore, Zenon
  <2>4. sequence_buffer_size' \in Nat /\ Len(escape_sequence') <= sequence_buffer_size'
    <3> DEFINE long == Len(escape_sequence)
               longer == Len(escape_sequence')
               size == sequence_buffer_size
               bigger == sequence_buffer_size'
    <3>1. /\ long \in Nat /\ longer = long + 1 /\ size \in Nat /\ long <= size
          /\ SEQUENCE \in Nat \ {0}
      BY <1>1, <1>2, <2>3
    <3>2. bigger = size + (IF long >= size THEN SEQUENCE ELSE 0)
      BY <1>5 DEF Collect, TooLong
    <3> HIDE DEF long, longer, size, bigger
    <3>3. bigger \in Nat /\ longer <= bigger
      BY <3>1, <3>2
    <3> QED
      BY <3>3 DEF longer, bigger
  <2> QED
    BY <1>5, <2>1, <2>2, <2>3, <2>4 DEF EscapeInv, EscapeSound, ScreenTyped, Collect
<1>6. ASSUME NEW c \in Char, NoSequence(c)
      PROVE  EscapeInv'
  <2>1. IsDisplay(display)'
    BY <1>1, <1>6, PutType DEF NoSequence
  <2>2. /\ display'.x \in 0..(UINT32 - 1) /\ display'.y \in 0..(UINT32 - 1)
        /\ display'.outside \in BOOLEAN
    BY <2>1 DEF IsDisplay, Pos
  <2>3. Len(escape_sequence') <= sequence_buffer_size'
    BY <1>6 DEF NoSequence
  <2> QED
    BY <1>1, <1>6, <2>1, <2>2, <2>3 DEF EscapeInv, EscapeSound, ScreenTyped, NoSequence
<1>7. ASSUME NEW c \in Char, Unknown(c)
      PROVE  EscapeInv'
  <2>1. Append(escape_sequence, c) \in Seq(Char)
    BY <1>1
  <2>2. IsDisplay(display)'
    BY <1>1, <1>7, <2>1, PutAllType DEF Unknown
  <2> QED
    BY <1>7, <2>2, BlockFreed DEF Unknown
<1>8. CASE Erase
  <2>1. <<"bs", " ", "bs">> \in Seq(Char)
    BY EchoIs
  <2>2. IsDisplay(PutAll(display, <<"bs", " ", "bs">>))
    BY <1>1, <2>1, PutAllType, Zenon
  <2>3. IsDisplay(display)'
    BY <1>8, <2>2, Zenon DEF Erase, Erased
  <2> QED
    BY <1>8, <2>3, BlockKept DEF Erase
<1>9. CASE begin_escape_sequence
  <2>1. IsDisplay(display)'
    BY <1>1, <1>9, SettledType DEF begin_escape_sequence
  <2>2. /\ display'.x \in 0..(UINT32 - 1) /\ display'.y \in 0..(UINT32 - 1)
        /\ display'.outside \in BOOLEAN
    BY <2>1 DEF IsDisplay, Pos
  <2>3. Len(escape_sequence') <= sequence_buffer_size'
    BY <1>2, <1>9 DEF begin_escape_sequence
  <2> QED
    BY <1>1, <1>2, <1>9, <2>1, <2>2, <2>3
       DEF EscapeInv, EscapeSound, ScreenTyped, begin_escape_sequence
<1>10. CASE SetColours
  <2>1. IsDisplay(display)'
    BY <1>1, <1>10 DEF SetColours, IsDisplay
  <2> QED
    BY <1>3, <1>10, <2>1, BlockFreed DEF SetColours
<1>11. CASE Clear
  <2>1. IsDisplay(display)'
    BY <1>1, <1>11 DEF Clear, IsDisplay
  <2> QED
    BY <1>3, <1>11, <2>1, BlockFreed DEF Clear
<1>12. CASE Home
  <2> DEFINE s == Append(escape_sequence, "H")
  <2>1. s \in Seq(Char)
    BY <1>1, <1>3, OneMore, Zenon
  <2> HIDE DEF s
  <2>2. handleHome(s).x \in Pos /\ handleHome(s).y \in Pos
    BY <2>1, HomeType
  <2>3. display' = [display EXCEPT !.x = handleHome(s).x, !.y = handleHome(s).y]
    BY <1>12 DEF Home, s
  <2>4. IsDisplay(display)'
    BY <1>1, <2>2, <2>3 DEF IsDisplay
  <2> QED
    BY <1>3, <1>12, <2>4, BlockFreed DEF Home
<1>13. CASE Reenter
  <2>1. IsDisplay(PutAll(display, escape_sequence))
    BY <1>1, PutAllType
  <2>2. IsDisplay(display)'
    BY <1>1, <1>13, <2>1, SettledType DEF Reenter
  <2>3. /\ display'.x \in 0..(UINT32 - 1) /\ display'.y \in 0..(UINT32 - 1)
        /\ display'.outside \in BOOLEAN
    BY <2>2 DEF IsDisplay, Pos
  <2>4. Len(escape_sequence') <= sequence_buffer_size'
    BY <1>2, <1>13 DEF Reenter
  <2> QED
    BY <1>1, <1>2, <1>13, <2>2, <2>3, <2>4
       DEF EscapeInv, EscapeSound, ScreenTyped, Reenter
<1>14. CASE UNCHANGED screenVars
  BY <1>14 DEF screenVars, sequenceVars, EscapeInv, EscapeSound, ScreenTyped, IsDisplay
<1> QED
  BY <1>4, <1>5, <1>6, <1>7, <1>8, <1>9, <1>10, <1>11, <1>12, <1>13, <1>14, Zenon DEF Next

(***************************************************************************)
(* For every framebuffer, character and size of the block: a sequence that *)
(* is collected has a block that is not freed, unless one has been ended   *)
(* by an escape, the block is freed with it, and it never holds more than  *)
(* it has room for; the cursor is two numbers of 32 bits.                  *)
(***************************************************************************)
THEOREM SequenceHeld == Spec => []EscapeSound
<1>1. ScreenInit => EscapeInv
  BY BlockInit
<1>2. EscapeInv /\ [Next]_screenVars => EscapeInv'
  BY BlockStep
<1>3. EscapeInv => EscapeSound
  BY DEF EscapeInv
<1> QED
  BY <1>1, <1>2, <1>3, PTL DEF Spec

-----------------------------------------------------------------------------
(* Where the cursor is.                                                    *)

\* There are two lines to write to, as the code takes for granted: in the only
\* line there were, a character would scroll its cursor into the corner.
TwoRows == \A f \in Screen : Rows(f) >= 2

Sits(d) == IsDisplay(d) /\ Inside(fb, d.x, d.y)
Away(d) == Sits(d) /\ (d.x > 0 \/ d.y > 0)

\* Columns and rows, as numbers.
Sized(C, R) ==
  /\ C = Columns(fb) /\ R = Rows(fb)
  /\ C \in Nat /\ R \in Nat /\ UINT32 \in Nat /\ C < UINT32 /\ R < UINT32

LEMMA Sizes ==
  ASSUME fb \in Format
  PROVE  Sized(Columns(fb), Rows(fb))
<1>1. IsFormat(fb)
  BY Formats
<1> QED
  BY <1>1, GridSizes, ConsoleAssumption DEF Sized

\* What follows every character.
LEMMA StaysThere ==
  ASSUME NEW C, NEW R, Sized(C, R), NEW w, IsDisplay(w), w.x < C, w.y < R
  PROVE  Scrolled(Wrapped(w)) = w
<1>1. w.x \in Nat /\ w.y \in Nat
  BY Positions
<1>2. ~(w.x >= C) /\ ~(w.y >= R)
  BY <1>1 DEF Sized
<1>3. Wrapped(w) = w
  BY <1>2, WrappedAt DEF Sized
<1> QED
  BY <1>2, <1>3, ScrolledAt DEF Sized

LEMMA OneLineUp ==
  ASSUME NEW C, NEW R, Sized(C, R), NEW w, IsDisplay(w), w.x < C, w.y = R
  PROVE  /\ IsDisplay(Scrolled(Wrapped(w)))
         /\ R > 0 => Scrolled(Wrapped(w)).x = w.x /\ Scrolled(Wrapped(w)).y = R - 1
<1>1. w.x \in Nat /\ w.y \in Nat
  BY Positions
<1>2. ~(w.x >= C) /\ w.y >= R
  BY <1>1 DEF Sized
<1>3. Wrapped(w) = w
  BY <1>2, WrappedAt DEF Sized
<1>4. /\ IsDisplay(Scrolled(w)) /\ Scrolled(w).x = w.x
      /\ Scrolled(w).y = (w.y - 1) % UINT32
  BY <1>2, ScrolledAt DEF Sized
<1>5. ASSUME R > 0
      PROVE  (w.y - 1) % UINT32 = R - 1
  <2>1. R - 1 \in Nat /\ R - 1 < UINT32
    BY <1>5 DEF Sized
  <2> QED
    BY <2>1, Small
<1> QED
  BY <1>3, <1>4, <1>5, Zenon

LEMMA NextLine ==
  ASSUME NEW C, NEW R, Sized(C, R), NEW w, IsDisplay(w), w.x >= C, C > 0, w.y + 1 < R
  PROVE  /\ Scrolled(Wrapped(w)) = [w EXCEPT !.x = 0, !.y = w.y + 1]
         /\ IsDisplay(Scrolled(Wrapped(w)))
<1>1. w.x \in Nat /\ w.y \in Nat
  BY Positions
<1>2. w.y + 1 \in Nat /\ w.y + 1 < UINT32 /\ ~(w.y + 1 >= R)
  BY <1>1 DEF Sized
<1>3. (w.y + 1) % UINT32 = w.y + 1
  BY <1>2, Small
<1>4. IsDisplay(Wrapped(w)) /\ Wrapped(w).y = w.y + 1
  BY <1>3, WrappedAt DEF Sized
<1>5. Wrapped(w) = [w EXCEPT !.x = 0, !.y = w.y + 1]
  BY <1>3 DEF Sized, Wrapped
<1>6. Scrolled(Wrapped(w)) = Wrapped(w)
  BY <1>2, <1>4, ScrolledAt DEF Sized
<1> QED
  BY <1>4, <1>5, <1>6, Zenon

LEMMA LastLine ==
  ASSUME NEW C, NEW R, Sized(C, R), NEW w, IsDisplay(w), w.x >= C, C > 0, w.y + 1 = R
  PROVE  /\ IsDisplay(Scrolled(Wrapped(w)))
         /\ Scrolled(Wrapped(w)).x = 0 /\ Scrolled(Wrapped(w)).y = R - 1
<1>1. w.x \in Nat /\ w.y \in Nat
  BY Positions
<1>2. w.y + 1 \in Nat /\ w.y + 1 < UINT32 /\ w.y + 1 >= R /\ w.y < UINT32
      /\ (w.y + 1) - 1 = w.y /\ w.y = R - 1
  BY <1>1 DEF Sized
<1>3. (w.y + 1) % UINT32 = w.y + 1
  BY <1>2, Small
<1>4. IsDisplay(Wrapped(w)) /\ Wrapped(w).x = 0 /\ Wrapped(w).y = w.y + 1
  BY <1>3, WrappedAt DEF Sized
<1>5. /\ IsDisplay(Scrolled(Wrapped(w))) /\ Scrolled(Wrapped(w)).x = 0
      /\ Scrolled(Wrapped(w)).y = ((w.y + 1) - 1) % UINT32
  BY <1>2, <1>4, ScrolledAt DEF Sized
<1>6. w.y % UINT32 = w.y
  BY <1>1, <1>2, Small
<1> QED
  BY <1>2, <1>5, <1>6, Zenon

\* What a character has written, one line further at most, is brought back.
LEMMA SettledInside ==
  ASSUME NEW C, NEW R, Sized(C, R), 0 < C, 0 < R, NEW w, IsDisplay(w),
         w.y < R \/ (w.y = R /\ w.x < C)
  PROVE  Sits(Scrolled(Wrapped(w)))
<1> DEFINE e == Scrolled(Wrapped(w))
<1>1. w.x \in Nat /\ w.y \in Nat
  BY Positions
<1>2. CASE w.x < C /\ w.y < R
  BY <1>2, StaysThere DEF Sits, Sized, Inside
<1>3. CASE w.x < C /\ w.y = R
  <2>1. IsDisplay(e) /\ e.x = w.x /\ e.y = R - 1
    BY <1>3, OneLineUp
  <2> QED
    BY <1>3, <2>1 DEF Sits, Sized, Inside
<1>4. CASE w.x >= C /\ w.y + 1 < R
  <2>1. IsDisplay(e) /\ e = [w EXCEPT !.x = 0, !.y = w.y + 1]
    BY <1>4, NextLine
  <2>2. e.x = 0 /\ e.y = w.y + 1
    BY <2>1 DEF IsDisplay
  <2> QED
    BY <1>4, <2>1, <2>2 DEF Sits, Sized, Inside
<1>5. CASE w.x >= C /\ w.y + 1 = R
  <2>1. IsDisplay(e) /\ e.x = 0 /\ e.y = R - 1
    BY <1>5, LastLine
  <2> QED
    BY <2>1 DEF Sits, Sized, Inside
<1>6. \/ w.x < C /\ w.y < R
      \/ w.x < C /\ w.y = R
      \/ w.x >= C /\ w.y + 1 < R
      \/ w.x >= C /\ w.y + 1 = R
  BY <1>1 DEF Sized
<1> QED
  BY <1>2, <1>3, <1>4, <1>5, <1>6

\* A character that is drawn takes the cursor away from the corner.
LEMMA DrawnAway ==
  ASSUME NEW C, NEW R, Sized(C, R), 2 <= R, NEW d, Sits(d), NEW c
  PROVE  Away(Scrolled(Wrapped(Drawn(d, c))))
<1> DEFINE w == Drawn(d, c)
           e == Scrolled(Wrapped(w))
<1>1. d.x \in Nat /\ d.y \in Nat /\ d.x < C /\ d.y < R /\ IsDisplay(d)
  BY Positions DEF Sits, Inside, Sized
<1>2. d.x + 1 \in Nat /\ d.x + 1 < UINT32 /\ d.x + 1 <= C /\ 0 < C /\ 0 < R
  BY <1>1 DEF Sized
<1>3. IsDisplay(w) /\ w.x = d.x + 1 /\ w.y = d.y
  <2>1. (d.x + 1) % UINT32 = d.x + 1
    BY <1>2, Small
  <2> QED
    BY <1>1, <2>1, DrawnAt
<1> HIDE DEF w
<1>4. Sits(e)
  BY <1>1, <1>2, <1>3, SettledInside
<1>5. e.x > 0 \/ e.y > 0
  <2>1. CASE w.x < C
    <3>1. e = w
      BY <1>1, <1>3, <2>1, StaysThere
    <3> QED
      BY <1>1, <1>3, <3>1
  <2>2. CASE w.x >= C /\ w.y + 1 < R
    <3>1. IsDisplay(w) /\ e = [w EXCEPT !.x = 0, !.y = w.y + 1]
      BY <1>2, <1>3, <2>2, NextLine
    <3>2. e.y = w.y + 1
      BY <3>1 DEF IsDisplay
    <3> QED
      BY <1>1, <1>3, <3>2
  <2>3. CASE w.x >= C /\ w.y + 1 = R
    <3>1. e.y = R - 1
      BY <1>2, <1>3, <2>3, LastLine
    <3> QED
      BY <3>1 DEF Sized
  <2>4. w.x < C \/ (w.x >= C /\ w.y + 1 < R) \/ (w.x >= C /\ w.y + 1 = R)
    BY <1>1, <1>2, <1>3 DEF Sized
  <2> QED
    BY <2>1, <2>2, <2>3, <2>4
<1> HIDE DEF e
<1> QED
  BY <1>4, <1>5 DEF Away, e, w

\* Back from where a cell is before the cursor.
LEMMA BackInside ==
  ASSUME fb \in Format, NEW C, NEW R, Sized(C, R), NEW d, Away(d)
  PROVE  /\ Sits(Back(d))
         /\ d.x = 0 => Back(d).x = C - 1 /\ Back(d).y = d.y - 1
         /\ d.x # 0 => Back(d).x = d.x - 1 /\ Back(d).y = d.y
<1>1. d.x \in Nat /\ d.y \in Nat /\ d.x < C /\ d.y < R /\ IsDisplay(d)
      /\ (d.x > 0 \/ d.y > 0)
  BY Positions DEF Away, Sits, Inside, Sized
<1>2. IsDisplay(Back(d))
  BY <1>1, BackAt
<1>3. CASE d.x = 0
  <2>1. C - 1 \in Nat /\ C - 1 < UINT32 /\ d.y - 1 \in Nat /\ d.y - 1 < UINT32
    BY <1>1, <1>3 DEF Sized
  <2>2. (C - 1) % UINT32 = C - 1 /\ (d.y - 1) % UINT32 = d.y - 1
    BY <2>1, Small
  <2>3. Back(d).x = C - 1 /\ Back(d).y = d.y - 1
    BY <1>1, <1>3, <2>2, BackAt DEF Sized
  <2> QED
    BY <1>1, <1>2, <1>3, <2>3 DEF Sits, Inside, Sized
<1>4. CASE d.x # 0
  <2>1. Back(d).x = d.x - 1 /\ Back(d).y = d.y
    BY <1>1, <1>4, BackAt
  <2> QED
    BY <1>1, <1>2, <1>4, <2>1 DEF Sits, Inside, Sized
<1> QED
  BY <1>3, <1>4

LEMMA PutInside ==
  ASSUME fb \in Format, NEW C, NEW R, Sized(C, R), 2 <= R, NEW d, Away(d), NEW c
  PROVE  Sits(Put(d, c))
<1> DEFINE w == Written(d, c)
<1>1. d.x \in Nat /\ d.y \in Nat /\ d.x < C /\ d.y < R /\ IsDisplay(d) /\ Sits(d)
      /\ 0 < C /\ 0 < R
  BY Positions DEF Away, Sits, Inside, Sized
<1>2. IsDisplay(w)
  BY <1>1, WrittenType
<1>3. CASE c = "nl"
  <2>1. d.y + 1 \in Nat /\ d.y + 1 < UINT32
    BY <1>1 DEF Sized
  <2>2. (d.y + 1) % UINT32 = d.y + 1
    BY <2>1, Small
  <2>3. w = [d EXCEPT !.x = 0, !.y = d.y + 1]
    BY <1>3, <2>2 DEF Written
  <2>4. w.x = 0 /\ w.y = d.y + 1
    BY <1>1, <2>3 DEF IsDisplay
  <2> HIDE DEF w
  <2>5. w.y < R \/ (w.y = R /\ w.x < C)
    BY <1>1, <2>4 DEF Sized
  <2> QED
    BY <1>1, <1>2, <2>5, SettledInside DEF Put, w
<1>4. CASE c = "cr"
  <2>1. w = [d EXCEPT !.x = 0]
    BY <1>4 DEF Written
  <2>2. w.y = d.y
    BY <1>1, <2>1 DEF IsDisplay
  <2> QED
    BY <1>1, <1>2, <2>2, SettledInside DEF Put
<1>5. CASE c = "tab" /\ fb.type # "ega"
  <2>1. w = [d EXCEPT !.x = (@ + 4) % UINT32]
    BY <1>5 DEF Written
  <2>2. w.y = d.y
    BY <1>1, <2>1 DEF IsDisplay
  <2> QED
    BY <1>1, <1>2, <2>2, SettledInside DEF Put
<1>6. CASE c = "bs" /\ fb.type # "ega"
  <2>1. w = Blanked(Back(d))
    BY <1>6, Zenon DEF Written
  <2>2. IsDisplay(Back(d)) /\ Back(d).y < R
    BY BackInside DEF Sits, Inside, Sized
  <2>3. w.y < R
    BY <2>1, <2>2, BlankedAt
  <2> QED
    BY <1>1, <1>2, <2>3, SettledInside DEF Put
<1>7. CASE /\ c # "nl" /\ c # "cr"
           /\ c = "tab" => fb.type = "ega"
           /\ c = "bs" => fb.type = "ega"
  <2>1. w = Drawn(d, c)
    BY <1>7 DEF Written
  <2>2. Away(Scrolled(Wrapped(Drawn(d, c))))
    BY <1>1, DrawnAway
  <2> QED
    BY <2>1, <2>2, Zenon DEF Put, w, Away
<1> QED
  BY <1>3, <1>4, <1>5, <1>6, <1>7

\* The characters of a sequence that goes on.
Sign == {"[", ";"} \cup Digit

LEMMA SignsDrawn ==
  ASSUME NEW c \in Sign
  PROVE  c \in Char /\ c # "nl" /\ c # "cr" /\ c # "tab" /\ c # "bs"
BY ConsoleAssumption DEF Sign, Char

LEMMA SignAway ==
  ASSUME NEW C, NEW R, Sized(C, R), 2 <= R, NEW d, Sits(d), NEW c \in Sign
  PROVE  Away(Put(d, c))
<1>1. Written(d, c) = Drawn(d, c)
  BY SignsDrawn DEF Written
<1> QED
  BY <1>1, DrawnAway DEF Put

LEMMA SignsAway ==
  ASSUME NEW C, NEW R, Sized(C, R), 2 <= R, NEW d, Away(d), NEW s \in Seq(Sign)
  PROVE  Away(PutAll(d, s))
<1> DEFINE T == {t \in Seq(Sign) : Away(PutAll(d, t))}
<1>1. <<>> \in T
  BY PutAllNone
<1>2. ASSUME NEW t \in Seq(Sign), NEW c \in Sign, t \in T
      PROVE  Append(t, c) \in T
  <2>1. Away(PutAll(d, t)) /\ Append(t, c) \in Seq(Sign)
    BY <1>2
  <2>2. t \in Seq(Char) /\ c \in Char
    <3>1. Sign \subseteq Char
      BY SignsDrawn
    <3> QED
      BY <3>1
  <2>3. Away(Put(PutAll(d, t), c))
    BY <2>1, SignAway DEF Away
  <2>4. Away(PutAll(d, Append(t, c)))
    BY <2>2, <2>3, PutAllMore, Zenon
  <2> QED
    BY <2>1, <2>4
<1> HIDE DEF T
<1>3. Seq(Sign) \subseteq T
  BY <1>1, <1>2, CharByChar
<1> QED
  BY <1>3 DEF T

-----------------------------------------------------------------------------
(* The echo of a backspace.                                                *)

LEMMA EchoPut ==
  ASSUME NEW d
  PROVE  PutAll(d, <<"bs", " ", "bs">>) = Put(Put(Put(d, "bs"), " "), "bs")
<1>1. "bs" \in Char /\ " " \in Char
  BY DEF Char
<1>2. PutAll(d, <<"bs">>) = Put(d, "bs")
  <2>1. PutAll(d, Append(<<>>, "bs")) = Put(PutAll(d, <<>>), "bs")
    BY <1>1, EchoIs, PutAllMore, Zenon
  <2> QED
    BY <2>1, EchoIs, PutAllNone, Zenon
<1>3. PutAll(d, <<"bs", " ">>) = Put(Put(d, "bs"), " ")
  <2>1. PutAll(d, Append(<<"bs">>, " ")) = Put(PutAll(d, <<"bs">>), " ")
    BY <1>1, EchoIs, PutAllMore, Zenon
  <2> QED
    BY <1>2, <2>1, EchoIs, Zenon
<1>4. PutAll(d, Append(<<"bs", " ">>, "bs")) = Put(PutAll(d, <<"bs", " ">>), "bs")
  BY <1>1, EchoIs, PutAllMore, Zenon
<1> QED
  BY <1>3, <1>4, EchoIs, Zenon

\* In text mode three characters are drawn.
LEMMA EchoStays ==
  ASSUME fb \in Format, NEW C, NEW R, Sized(C, R), 2 <= R, NEW d, Away(d)
  PROVE  Sits(Put(Put(Put(d, "bs"), " "), "bs"))
<1>1. Sits(Put(d, "bs"))
  BY PutInside
<1>2. Written(Put(d, "bs"), " ") = Drawn(Put(d, "bs"), " ")
  BY DEF Written
<1>3. Away(Put(Put(d, "bs"), " "))
  BY <1>1, <1>2, DrawnAway DEF Put
<1> QED
  BY <1>3, PutInside

LEMMA EchoErases ==
  ASSUME fb \in Format, fb.type # "ega", NEW C, NEW R, Sized(C, R), NEW d, Away(d)
  PROVE  Erased(d) = [Back(d) EXCEPT !.ink = @ \ {<<Back(d).x, Back(d).y>>}]
<1> DEFINE k == Back(d)
           b == Blanked(k)
           w == Drawn(b, " ")
           e == [b EXCEPT !.x = d.x, !.y = d.y]
<1>1. d.x \in Nat /\ d.y \in Nat /\ d.x < C /\ d.y < R /\ IsDisplay(d)
      /\ d.x \in Pos /\ d.y \in Pos
  BY Positions DEF Away, Sits, Inside, Sized
<1>2. /\ IsDisplay(k) /\ k.x \in Nat /\ k.y \in Nat /\ k.x < C /\ k.y < R
      /\ d.x = 0 => k.x = C - 1 /\ k.y = d.y - 1
      /\ d.x # 0 => k.x = d.x - 1 /\ k.y = d.y
  BY BackInside, Positions DEF Sits, Inside, Sized
<1> HIDE DEF k
<1>3. /\ b = [k EXCEPT !.ink = @ \ {<<k.x, k.y>>}]
      /\ IsDisplay(b) /\ b.x = k.x /\ b.y = k.y /\ b.ink = k.ink \ {<<k.x, k.y>>}
      /\ b.outside = k.outside
  <2>1. Inside(fb, k.x, k.y)
    BY <1>2 DEF Inside, Sized
  <2>2. b = [k EXCEPT !.ink = @ \ {<<k.x, k.y>>}]
    BY <1>2, <2>1 DEF Blanked, IsDisplay
  <2>3. b.ink = k.ink \ {<<k.x, k.y>>} /\ b.outside = k.outside
    BY <1>2, <2>2 DEF IsDisplay
  <2> QED
    BY <1>2, <2>2, <2>3, BlankedAt
<1>4. Put(d, "bs") = b
  <2>1. Written(d, "bs") = b
    BY DEF Written, k
  <2>2. Scrolled(Wrapped(b)) = b
    BY <1>2, <1>3, StaysThere
  <2> QED
    BY <2>1, <2>2, Zenon DEF Put
<1>5. b \in [x : Pos, y : Pos, ink : {b.ink}, outside : BOOLEAN, fg : {b.fg}, bg : {b.bg}]
      /\ Inside(fb, b.x, b.y)
  BY <1>2, <1>3 DEF IsDisplay, Inside, Sized
<1> HIDE DEF b
<1>6. IsDisplay(w) /\ w = [b EXCEPT !.x = k.x + 1]
  <2>1. k.x + 1 \in Nat /\ k.x + 1 < UINT32
    BY <1>2 DEF Sized
  <2>2. (k.x + 1) % UINT32 = k.x + 1
    BY <2>1, Small
  <2>3. w = [b EXCEPT !.x = k.x + 1]
    BY <1>3, <1>5, <2>2 DEF Drawn
  <2> QED
    BY <1>3, <2>3, DrawnAt
<1>7. w.x = k.x + 1 /\ w.y = k.y
  BY <1>3, <1>5, <1>6
<1> HIDE DEF e, w
<1>8. Scrolled(Wrapped(w)) = e
  <2>1. CASE d.x = 0
    <3>1. d.y > 0
      BY <1>1, <2>1 DEF Away
    <3>2. w.x >= C /\ C > 0 /\ w.y + 1 < R /\ w.y + 1 = d.y
      BY <1>1, <1>2, <1>7, <2>1, <3>1 DEF Sized
    <3>3. Scrolled(Wrapped(w)) = [w EXCEPT !.x = 0, !.y = d.y]
      <4>1. Scrolled(Wrapped(w)) = [w EXCEPT !.x = 0, !.y = w.y + 1]
        BY <1>6, <3>2, NextLine
      <4> QED
        BY <3>2, <4>1, Zenon
    <3>4. [w EXCEPT !.x = 0, !.y = d.y] = e
      BY <1>5, <1>6, <2>1 DEF e
    <3> QED
      BY <3>3, <3>4, Zenon
  <2>2. CASE d.x # 0
    <3>1. w.x = d.x /\ w.y = d.y /\ w.x < C /\ w.y < R
      BY <1>1, <1>2, <1>7, <2>2 DEF Sized
    <3>2. Scrolled(Wrapped(w)) = w
      BY <1>6, <3>1, StaysThere
    <3>3. w = e
      BY <1>3, <1>5, <1>6, <1>7, <3>1 DEF e
    <3> QED
      BY <3>2, <3>3, Zenon
  <2> QED
    BY <2>1, <2>2
<1>9. Put(b, " ") = e
  <2>1. Written(b, " ") = w
    BY DEF Written, w
  <2> QED
    BY <1>8, <2>1, Zenon DEF Put
<1>10. /\ e \in [x : Pos, y : Pos, ink : {e.ink}, outside : BOOLEAN, fg : {e.fg}, bg : {e.bg}]
       /\ e.x = d.x /\ e.y = d.y /\ e.ink = b.ink /\ e.outside = b.outside
  BY <1>1, <1>5 DEF e
<1>11. Back(e) = b
  <2>1. CASE d.x = 0
    <3>1. Back(e) = [e EXCEPT !.x = (Columns(fb) - 1) % UINT32, !.y = (@ - 1) % UINT32]
      BY <1>10, <2>1 DEF Back
    <3>2. k.x = (Columns(fb) - 1) % UINT32 /\ k.y = (d.y - 1) % UINT32
      BY <1>1, <2>1, BackAt DEF k
    <3>3. Back(e) = [e EXCEPT !.x = k.x, !.y = k.y]
      BY <1>10, <3>1, <3>2
    <3> QED
      BY <1>3, <1>5, <3>3 DEF e
  <2>2. CASE d.x # 0
    <3>1. Back(e) = [e EXCEPT !.x = k.x]
      <4>1. Back(e) = [e EXCEPT !.x = d.x - 1]
        BY <1>10, <2>2 DEF Back
      <4>2. k.x = d.x - 1
        BY <1>2, <2>2
      <4> QED
        BY <4>1, <4>2, Zenon
    <3> QED
      <4>1. b.x = k.x /\ b.y = d.y
        BY <1>2, <1>3, <2>2
      <4>2. [[b EXCEPT !.x = d.x, !.y = d.y] EXCEPT !.x = k.x] = b
        BY <1>5, <4>1
      <4> QED
        BY <3>1, <4>2, Zenon DEF e
  <2> QED
    BY <2>1, <2>2
<1>12. Put(e, "bs") = b
  <2>1. Written(e, "bs") = Blanked(b)
    BY <1>11 DEF Written
  <2>2. <<b.x, b.y>> \notin b.ink
    BY <1>3
  <2>3. b.ink \ {<<b.x, b.y>>} = b.ink
    BY <2>2, Zenon
  <2>4. Blanked(b) = b
    BY <1>5, <2>3 DEF Blanked
  <2>5. Scrolled(Wrapped(b)) = b
    BY <1>2, <1>3, StaysThere
  <2> QED
    BY <2>1, <2>4, <2>5, Zenon DEF Put
<1>13. Erased(d) = Put(Put(Put(d, "bs"), " "), "bs")
  BY EchoPut, Zenon DEF Erased
<1> QED
  BY <1>3, <1>4, <1>9, <1>12, <1>13, Zenon DEF k

(***************************************************************************)
(* For every framebuffer of pixels and wherever the cursor is: the echo of *)
(* a backspace takes it one cell back, into the line above if need be, and *)
(* leaves that cell, and no other, empty.                                  *)
(***************************************************************************)
THEOREM EraseTakesOne == Spec => []EraseIsExact
<1>1. ScreenInit => EscapeInv
  BY BlockInit
<1>2. EscapeInv /\ [Next]_screenVars => EscapeInv'
  BY BlockStep
<1>3. EscapeInv => EraseIsExact
  <2> SUFFICES ASSUME EscapeInv, OnScreen, display.x > 0 \/ display.y > 0,
                      fb.type # "ega"
               PROVE  Erased(display)
                        = [Back(display) EXCEPT
                             !.ink = @ \ {<<Back(display).x, Back(display).y>>}]
    BY DEF EraseIsExact
  <2>1. fb \in Format /\ IsDisplay(display)
    BY DEF EscapeInv, EscapeSound, ScreenTyped
  <2>2. Away(display)
    BY <2>1 DEF Away, Sits, OnScreen
  <2>3. Sized(Columns(fb), Rows(fb))
    BY <2>1, Sizes
  <2> QED
    BY <2>1, <2>2, <2>3, EchoErases, Zenon
<1> QED
  BY <1>1, <1>2, <1>3, PTL DEF Spec

-----------------------------------------------------------------------------
(* The cursor on the screen.                                               *)

\* Inductive: a sequence is of characters that are drawn.
CursorInv == EscapeInv /\ escape_sequence \in Seq(Sign)

LEMMA SignsStep ==
  ASSUME CursorInv, [Next]_screenVars
  PROVE  CursorInv'
<1>1. EscapeInv'
  BY BlockStep DEF CursorInv
<1>2. escape_sequence \in Seq(Sign) /\ <<>> \in Seq(Sign)
  BY DEF CursorInv
<1>3. ASSUME NEW c \in Char, Collect(c)
      PROVE  escape_sequence' \in Seq(Sign)
  <2>1. c \in Sign
    BY <1>3, Zenon DEF Collect, Sign
  <2>2. escape_sequence' = Append(escape_sequence, c)
    BY <1>3 DEF Collect
  <2> QED
    BY <1>2, <2>1, <2>2
<1>4. CASE UNCHANGED escape_sequence \/ escape_sequence' = <<>>
  BY <1>1, <1>2, <1>4 DEF CursorInv
<1>5. \/ UNCHANGED escape_sequence \/ escape_sequence' = <<>>
      \/ \E c \in Char : Collect(c)
  BY Zenon DEF Next, screenVars, sequenceVars, Plain, NoSequence, Unknown, Erase,
     begin_escape_sequence, SetColours, Clear, Home, Reenter, Ends
<1> QED
  BY <1>1, <1>3, <1>4, <1>5 DEF CursorInv

LEMMA StayStep ==
  ASSUME TwoRows, CursorInv, [Next]_screenVars,
         OnScreen, display.x > 0 \/ display.y > 0, ~Home
  PROVE  OnScreen'
<1> DEFINE C == Columns(fb)
           R == Rows(fb)
<1>1. fb \in Format /\ IsDisplay(display) /\ Sized(C, R)
  <2>1. fb \in Format /\ IsDisplay(display)
    BY DEF CursorInv, EscapeInv, EscapeSound, ScreenTyped
  <2> QED
    BY <2>1, Sizes
<1>2. Away(display) /\ Sits(display)
  BY <1>1 DEF Away, Sits, OnScreen
<1>3. ASSUME Active
      PROVE  2 <= R
  BY <1>1, <1>3 DEF Active, TwoRows, Sized
<1>4. escape_sequence \in Seq(Sign)
  BY DEF CursorInv
<1> HIDE DEF C, R
<1>5. ASSUME Sits(display'), fb' = fb
      PROVE  OnScreen'
  BY <1>5 DEF Sits, OnScreen
<1>6. ASSUME NEW c \in Char, Plain(c)
      PROVE  OnScreen'
  BY <1>1, <1>2, <1>3, <1>5, <1>6, PutInside DEF Plain
<1>7. ASSUME NEW c \in Char, Collect(c)
      PROVE  OnScreen'
  BY <1>7 DEF Collect, OnScreen
<1>8. ASSUME NEW c \in Char, NoSequence(c)
      PROVE  OnScreen'
  BY <1>1, <1>2, <1>3, <1>5, <1>8, PutInside DEF NoSequence
<1>9. ASSUME NEW c \in Char, Unknown(c)
      PROVE  OnScreen'
  <2>1. Active /\ display' = PutAll(display, Append(escape_sequence, c)) /\ fb' = fb
    BY <1>9 DEF Unknown, Ends
  <2>2. escape_sequence \in Seq(Char)
    BY DEF CursorInv, EscapeInv, EscapeSound, ScreenTyped
  <2>3. display' = Put(PutAll(display, escape_sequence), c)
    BY <2>1, <2>2, PutAllMore, Zenon
  <2>4. Away(PutAll(display, escape_sequence))
    BY <1>1, <1>2, <1>3, <1>4, <2>1, SignsAway
  <2>5. Sits(Put(PutAll(display, escape_sequence), c))
    BY <1>1, <1>3, <2>1, <2>4, PutInside
  <2> QED
    BY <1>5, <2>1, <2>3, <2>5, Zenon
<1>10. CASE Erase
  <2>1. Active /\ fb' = fb /\ display' = Put(Put(Put(display, "bs"), " "), "bs")
    BY <1>10, EchoPut, Zenon DEF Erase, Erased
  <2>2. Sits(Put(Put(Put(display, "bs"), " "), "bs"))
    BY <1>1, <1>2, <1>3, <2>1, EchoStays
  <2> QED
    BY <1>5, <2>1, <2>2, Zenon
<1>11. CASE begin_escape_sequence
  <2>1. Scrolled(Wrapped(display)) = display
    BY <1>1, <1>2, StaysThere DEF Sits, Inside, Sized
  <2> QED
    BY <1>2, <1>5, <1>11, <2>1 DEF begin_escape_sequence
<1>12. CASE SetColours
  BY <1>1, <1>12 DEF SetColours, Ends, OnScreen, IsDisplay
<1>13. CASE Clear
  BY <1>1, <1>13 DEF Clear, Ends, OnScreen, IsDisplay
<1>14. CASE Reenter
  <2> DEFINE d == PutAll(display, escape_sequence)
  <2>1. Active /\ fb' = fb /\ display' = Scrolled(Wrapped(d))
    BY <1>14 DEF Reenter
  <2>2. Away(d)
    BY <1>1, <1>2, <1>3, <1>4, <2>1, SignsAway
  <2> HIDE DEF d
  <2>3. Scrolled(Wrapped(d)) = d
    BY <1>1, <2>2, StaysThere DEF Away, Sits, Inside, Sized
  <2> QED
    BY <1>5, <2>1, <2>2, <2>3 DEF Away
<1>15. CASE UNCHANGED screenVars
  BY <1>15 DEF screenVars, OnScreen
<1> QED
  BY <1>6, <1>7, <1>8, <1>9, <1>10, <1>11, <1>12, <1>13, <1>14, <1>15, Zenon DEF Next

(***************************************************************************)
(* For every framebuffer with two lines and every digit that is written:   *)
(* whatever is written and erased, the cursor leaves the screen only by an *)
(* H sequence, or from the top left corner; also when a sequence that is   *)
(* none is written out character by character.                             *)
(***************************************************************************)
THEOREM CursorStays ==
  ASSUME TwoRows
  PROVE  Spec => StaysOnScreen
<1>1. ScreenInit => CursorInv
  <2>1. ScreenInit => escape_sequence = <<>>
    BY DEF ScreenInit
  <2>2. <<>> \in Seq(Sign)
    OBVIOUS
  <2> QED
    BY <2>1, <2>2, BlockInit, Zenon DEF CursorInv
<1>2. CursorInv /\ [Next]_screenVars => CursorInv'
  BY SignsStep
<1>3. CursorInv /\ [Next]_screenVars
        => [OnScreen /\ (display.x > 0 \/ display.y > 0) => OnScreen' \/ Home]_screenVars
  BY StayStep
<1> QED
  BY <1>1, <1>2, <1>3, PTL DEF Spec, StaysOnScreen

-----------------------------------------------------------------------------
(* What is drawn, as the bytes of a framebuffer whose lines are pitch      *)
(* bytes long: those from a to b of the lines from c to d, without the     *)
(* last.                                                                   *)

Bytes(p, a, b, c, d) == {p * y + r : y \in c..(d - 1), r \in a..(b - 1)}

\* The byte n is the r-th of line y.
LEMMA BytesAre ==
  ASSUME NEW p, NEW a \in Int, NEW b \in Int, NEW c \in Int, NEW d \in Int, NEW n
  PROVE  n \in Bytes(p, a, b, c, d)
           <=> \E y \in c..(d - 1), r \in a..(b - 1) : n = p * y + r
BY DEF Bytes

\* Where a line ends and the next begins.
LEMMA LinesApart ==
  ASSUME NEW p \in Nat, NEW y \in Nat, NEW z \in Nat, y < z
  PROVE  p * y + p <= p * z
<1>1. PICK e \in Nat : z = y + 1 + e
  <2>1. z - y - 1 \in Nat /\ z = y + 1 + (z - y - 1)
    OBVIOUS
  <2> QED
    BY <2>1
<1>2. p * z = p * y + p + p * e
  BY <1>1, SMTT(30)
<1>3. p * e \in Nat
  BY SMTT(30)
<1>4. p * y \in Nat
  BY SMTT(30)
<1> DEFINE u == p * y
           v == p * e
           w == p * z
<1>5. w = u + p + v /\ v \in Nat /\ u \in Nat
  BY <1>2, <1>3, <1>4
<1> HIDE DEF u, v, w
<1>6. u + p <= w
  BY <1>5
<1> QED
  BY <1>6 DEF u, w

LEMMA OnePlace ==
  ASSUME NEW p \in Nat, NEW y \in Nat, NEW z \in Nat,
         NEW r \in 0..(p - 1), NEW s \in 0..(p - 1), p * y + r = p * z + s
  PROVE  y = z /\ r = s
<1> DEFINE u == p * y
           v == p * z
<1>1. u \in Nat /\ v \in Nat
  BY SMTT(30)
<1>2. y < z => u + p <= v
  BY LinesApart
<1>3. z < y => v + p <= u
  BY LinesApart
<1>4. y = z => u = v
  OBVIOUS
<1>5. u + r = v + s
  OBVIOUS
<1> HIDE DEF u, v
<1>6. ~(y < z) /\ ~(z < y)
  BY <1>1, <1>2, <1>3, <1>5
<1>7. y = z
  BY <1>6
<1> QED
  BY <1>1, <1>4, <1>5, <1>7

\* A number is so many times u, and what is left.
LEMMA DivideIs ==
  ASSUME NEW u \in Nat \ {0}, NEW q \in Nat, NEW r \in 0..(u - 1),
         NEW n \in Int, n = u * q + r
  PROVE  n \div u = q /\ n % u = r
<1>1. n \in Nat
  <2>1. u * q \in Nat
    BY SMTT(30)
  <2> DEFINE m == u * q
  <2>2. m \in Nat /\ n = m + r
    BY <2>1
  <2> HIDE DEF m
  <2> QED
    BY <2>2
<1>2. /\ n \div u \in Nat /\ n % u \in 0..(u - 1)
      /\ n = u * (n \div u) + (n % u)
  BY <1>1, SMTT(30)
<1>3. PICK z \in Nat, s \in 0..(u - 1) : z = n \div u /\ s = n % u
  BY <1>2
<1>4. u * q + r = u * z + s
  BY <1>2, <1>3
<1>5. q = z /\ r = s
  BY <1>4, OnePlace
<1> QED
  BY <1>3, <1>5

LEMMA Divided ==
  ASSUME NEW u \in Nat \ {0}, NEW n \in Nat
  PROVE  /\ n \div u \in Nat /\ n % u \in 0..(u - 1)
         /\ n = u * (n \div u) + (n % u)
BY SMTT(30)

\* Products keep the order.
LEMMA Grows ==
  ASSUME NEW p \in Nat, NEW x \in Nat, NEW y \in Nat, x <= y
  PROVE  p * x \in Nat /\ p * y \in Nat /\ p * x <= p * y
<1>1. p * x \in Nat /\ p * y \in Nat
  BY SMTT(30)
<1>2. CASE x < y
  <2>1. p * x + p <= p * y
    BY <1>2, LinesApart
  <2> DEFINE u == p * x
             v == p * y
  <2>2. u \in Nat /\ v \in Nat /\ u + p <= v
    BY <1>1, <2>1
  <2> HIDE DEF u, v
  <2>3. u <= v
    BY <2>2
  <2> QED
    BY <1>1, <2>3 DEF u, v
<1>3. CASE x = y
  BY <1>1, <1>3
<1> QED
  BY <1>2, <1>3

-----------------------------------------------------------------------------
(* A framebuffer whose lines are whole pixels.                             *)

IsPicture(f) ==
  /\ f.width \in Nat \ {0} /\ f.height \in Nat /\ f.pitch \in Nat /\ f.bytes \in 1..4
  /\ f.bytes * f.width <= f.pitch
  /\ f.pitch % f.bytes = 0

LEMMA Pictures ==
  ASSUME NEW f \in Format, f.pitch % f.bytes = 0
  PROVE  IsPicture(f)
<1>1. /\ f.width \in Nat \ {0} /\ f.height \in Nat /\ f.pitch \in Nat /\ f.bytes \in 1..4
      /\ f.width * f.bytes <= f.pitch
  BY VideoAssumption, PictureAssumption
<1>2. f.width * f.bytes = f.bytes * f.width
  BY <1>1, SMTT(30)
<1> QED
  BY <1>1, <1>2 DEF IsPicture

\* The bytes of the pixels from a to b of the lines from c to d.
Area(f, a, b, c, d) == Bytes(f.pitch, f.bytes * a, f.bytes * b, c, d)

LEMMA StepIsPitch ==
  ASSUME NEW f, IsPicture(f), NEW w \in Nat
  PROVE  Step(f, w) = f.pitch
<1>1. f.pitch \in Nat /\ f.bytes \in 1..4 /\ f.pitch % f.bytes = 0
  BY DEF IsPicture
<1>2. f.bytes \in Nat \ {0}
  BY <1>1
<1>3. f.pitch = f.bytes * (f.pitch \div f.bytes) + (f.pitch % f.bytes)
      /\ f.pitch \div f.bytes \in Nat
  BY <1>1, <1>2, Divided
<1>4. CASE f.bytes = 3
  BY <1>1, <1>4 DEF Step
<1>5. CASE f.bytes # 3
  <2>1. PICK q \in Nat : q = f.pitch \div f.bytes
    BY <1>3
  <2>2. w + (q - w) = q
    OBVIOUS
  <2>3. Step(f, w) = f.bytes * q
    BY <1>5, <2>1, <2>2 DEF Step
  <2>4. f.pitch = f.bytes * q + 0
    BY <1>1, <1>3, <2>1
  <2>5. f.bytes * q \in Nat
    BY <1>2, SMTT(30)
  <2> QED
    BY <2>3, <2>4, <2>5
<1> QED
  BY <1>4, <1>5

\* The pixels of a rectangle are its bytes.
LEMMA PixelsAre ==
  ASSUME NEW f, IsPicture(f), NEW a \in Nat, NEW b \in Nat, NEW c \in Int, NEW d \in Int
  PROVE  Pixels(f, a..(b - 1), c..(d - 1)) = Area(f, a, b, c, d)
<1> DEFINE p == f.pitch
           u == f.bytes
           A == u * a
           B == u * b
           P == Pixels(f, a..(b - 1), c..(d - 1))
<1>1. p \in Nat /\ u \in Nat \ {0}
  BY DEF IsPicture
<1>2. A \in Nat /\ B \in Nat
  BY <1>1, SMTT(30)
<1>3. \A n : n \in P <=> \E x \in a..(b - 1), y \in c..(d - 1), k \in 0..(u - 1) :
                           n = p * y + u * x + k
  <2>1. \A n : n \in P <=> \E x \in a..(b - 1), y \in c..(d - 1) : n \in fb_putpixel(f, x, y)
    BY DEF Pixels
  <2>2. \A x, y, n : n \in fb_putpixel(f, x, y) <=> \E k \in 0..(u - 1) : n = p * y + u * x + k
    BY Zenon DEF fb_putpixel
  <2> HIDE DEF P, p, u
  <2> QED
    BY <2>1, <2>2
<1>4. Area(f, a, b, c, d) = Bytes(p, A, B, c, d)
  BY DEF Area
<1> HIDE DEF P
<1>5. ASSUME NEW n, n \in P
      PROVE  n \in Bytes(p, A, B, c, d)
  <2>1. PICK x \in a..(b - 1), y \in c..(d - 1), k \in 0..(u - 1) : n = p * y + u * x + k
    BY <1>3, <1>5
  <2>2. x \in Nat /\ y \in Int /\ k \in Nat /\ a <= x /\ x < b
    BY <1>1
  <2>3. A <= u * x
    BY <1>1, <2>2, Grows
  <2>4. u * x + u <= B
    BY <1>1, <2>2, LinesApart
  <2>5. u * x \in Nat
    BY <1>1, <2>2, SMTT(30)
  <2>6. p * y \in Int
    BY <1>1, <2>2, SMTT(30)
  <2> DEFINE v == u * x
             z == p * y
  <2>7. n = z + v + k /\ z \in Int /\ v \in Nat /\ A <= v /\ v + u <= B
    BY <2>1, <2>3, <2>4, <2>5, <2>6
  <2> HIDE DEF A, B, u, p, v, z
  <2>8. v + k \in A..(B - 1) /\ n = z + (v + k)
    BY <1>1, <1>2, <2>2, <2>7
  <2>9. \E yy \in c..(d - 1), r \in A..(B - 1) : n = p * yy + r
    BY <2>8 DEF z
  <2> QED
    BY <1>2, <2>9, BytesAre
<1>6. ASSUME NEW n, n \in Bytes(p, A, B, c, d)
      PROVE  n \in P
  <2>1. PICK y \in c..(d - 1), r \in A..(B - 1) : n = p * y + r
    BY <1>2, <1>6, BytesAre
  <2>2. r \in Nat /\ y \in Int
    <3> HIDE DEF A, B
    <3> QED
      BY <1>2
  <2>3. r \div u \in Nat /\ r % u \in 0..(u - 1) /\ r = u * (r \div u) + (r % u)
    BY <1>1, <2>2, Divided
  <2>4. PICK x \in Nat, k \in 0..(u - 1) : r = u * x + k
    BY <2>3
  <2>5. a <= x
    <3>1. SUFFICES ASSUME x < a PROVE FALSE
      BY <2>4
    <3>2. u * x + u <= A
      BY <1>1, <3>1, LinesApart
    <3>3. u * x \in Nat
      BY <1>1, SMTT(30)
    <3> DEFINE v == u * x
    <3>4. r = v + k /\ v \in Nat /\ v + u <= A /\ A <= r
      BY <2>1, <2>4, <3>2, <3>3
    <3> HIDE DEF v, A, u
    <3> QED
      BY <1>1, <1>2, <2>2, <2>4, <3>4
  <2>6. x < b
    <3>1. SUFFICES ASSUME b <= x PROVE FALSE
      BY <2>4
    <3>2. B <= u * x
      BY <1>1, <3>1, Grows
    <3>3. u * x \in Nat
      BY <1>1, SMTT(30)
    <3> DEFINE v == u * x
    <3>4. r = v + k /\ v \in Nat /\ B <= v /\ r < B
      BY <1>2, <2>1, <2>4, <3>2, <3>3
    <3> HIDE DEF v, B, u
    <3> QED
      BY <1>1, <1>2, <2>2, <2>4, <3>4
  <2>7. x \in a..(b - 1)
    BY <2>5, <2>6
  <2>8. n = p * y + u * x + k
    <3>1. u * x \in Nat /\ p * y \in Int
      BY <1>1, <2>2, SMTT(30)
    <3> DEFINE v == u * x
               z == p * y
    <3>2. n = z + r /\ r = v + k /\ v \in Nat /\ z \in Int /\ k \in Nat
      BY <1>1, <2>1, <2>4, <3>1
    <3> HIDE DEF v, z
    <3>3. n = z + v + k
      BY <3>2
    <3> QED
      BY <3>3 DEF v, z
  <2> QED
    BY <1>3, <2>7, <2>8
<1>7. P = Bytes(p, A, B, c, d)
  BY <1>5, <1>6, Zenon
<1> QED
  BY <1>4, <1>7, Zenon DEF P

\* So is what is filled.
LEMMA FilledIs ==
  ASSUME NEW f, IsPicture(f), NEW x \in Nat, NEW y \in Nat, NEW w \in Nat, NEW h \in Nat
  PROVE  fb_video_fillrect(f, x, y, w, h) = Area(f, x, x + w, y, y + h)
<1> DEFINE p == f.pitch
           u == f.bytes
           A == u * x
           B == u * (x + w)
           N == u * w
           P == fb_video_fillrect(f, x, y, w, h)
<1>1. p \in Nat /\ u \in Nat \ {0}
  BY DEF IsPicture
<1>2. A \in Nat /\ N \in Nat
  BY <1>1, SMTT(30)
<1>3. B = A + N
  BY <1>1, SMTT(30)
<1>4. Step(f, w) = p
  BY StepIsPitch
<1>5. \A n : n \in P <=> \E i \in 0..(h - 1), k \in 0..(N - 1) : n = p * y + A + i * p + k
  BY <1>4 DEF fb_video_fillrect
<1>6. Area(f, x, x + w, y, y + h) = Bytes(p, A, B, y, y + h)
  BY DEF Area
<1> HIDE DEF P, A, B, N, p
<1>7. \A i \in Int : /\ p * y \in Int /\ i * p \in Int
                     /\ p * (y + i) = p * y + i * p
  BY <1>1, SMTT(30)
<1>8. \A i \in Int, k \in Int : p * y + A + i * p + k = p * (y + i) + (A + k)
  <2>1. SUFFICES ASSUME NEW i \in Int, NEW k \in Int
                 PROVE  p * y + A + i * p + k = p * (y + i) + (A + k)
    OBVIOUS
  <2> DEFINE v == p * y
             z == i * p
             t == p * (y + i)
  <2>2. v \in Int /\ z \in Int /\ t = v + z
    BY <1>7
  <2> HIDE DEF v, z, t
  <2>3. v + A + z + k = t + (A + k)
    BY <1>2, <2>2
  <2> QED
    BY <2>3 DEF v, z, t
<1>9. ASSUME NEW n, n \in P
      PROVE  n \in Bytes(p, A, B, y, y + h)
  <2>1. PICK i \in 0..(h - 1), k \in 0..(N - 1) : n = p * y + A + i * p + k
    BY <1>5, <1>9
  <2>2. i \in Int /\ k \in Int
    BY <1>2
  <2>3. n = p * (y + i) + (A + k)
    BY <1>8, <2>1, <2>2
  <2>4. y + i \in y..(y + h - 1) /\ A + k \in A..(B - 1)
    BY <1>2, <1>3
  <2>5. A \in Int /\ B \in Int /\ y \in Int /\ y + h \in Int
    BY <1>2, <1>3
  <2> QED
    BY <2>3, <2>4, <2>5, BytesAre
<1>10. ASSUME NEW n, n \in Bytes(p, A, B, y, y + h)
       PROVE  n \in P
  <2>1. A \in Int /\ B \in Int /\ y \in Int /\ y + h \in Int
    BY <1>2, <1>3
  <2>2. PICK z \in y..(y + h - 1), r \in A..(B - 1) : n = p * z + r
    BY <1>10, <2>1, BytesAre
  <2>3. PICK i \in 0..(h - 1), k \in 0..(N - 1) : z = y + i /\ r = A + k
    <3>1. z - y \in 0..(h - 1) /\ r - A \in 0..(N - 1)
      BY <1>2, <1>3, <2>1
    <3>2. z = y + (z - y) /\ r = A + (r - A)
      BY <1>2, <2>1
    <3> QED
      BY <3>1, <3>2
  <2>4. n = p * (y + i) + (A + k)
    BY <2>2, <2>3
  <2>5. n = p * y + A + i * p + k
    BY <1>2, <1>8, <2>4
  <2> QED
    BY <1>5, <2>3, <2>5
<1>11. P = Bytes(p, A, B, y, y + h)
  BY <1>9, <1>10, Zenon
<1> QED
  BY <1>6, <1>11, Zenon DEF P

Spans(x, w, b) == x \in Nat /\ w \in Nat /\ x + w = b

Fills(f, x, w, b, y, h, d) == fb_video_fillrect(f, x, y, w, h) = Area(f, x, b, y, d)

LEMMA FilledTo ==
  ASSUME NEW f, IsPicture(f), NEW x, NEW w, NEW b, Spans(x, w, b),
         NEW y, NEW h, NEW d, Spans(y, h, d)
  PROVE  Fills(f, x, w, b, y, h, d)
BY FilledIs DEF Spans, Fills

-----------------------------------------------------------------------------
(* The two clears.                                                         *)

Tiled(p, A, B, V, c, d, e) ==
  LET up == Bytes(p, 0, B, c, d) \cup Bytes(p, 0, V, 0, c)
      down == Bytes(p, A, V, c, d) \cup Bytes(p, 0, V, d, e)
  IN up \cup down = Bytes(p, 0, V, 0, e) /\ up \cap down = Bytes(p, A, B, c, d)

\* The line of the cursor is cut at its cell, the others belong to one.
LEMMA Tiles ==
  ASSUME NEW p \in Nat, NEW A \in Nat, NEW B \in Nat, NEW V \in Nat,
         NEW c \in Nat, NEW d \in Nat, NEW e \in Nat,
         A <= B, B <= V, V <= p, c <= d, d <= e
  PROVE  Tiled(p, A, B, V, c, d, e)
<1> DEFINE In(n, a, b, i, j) == \E y \in i..(j - 1), r \in a..(b - 1) : n = p * y + r
           up == Bytes(p, 0, B, c, d) \cup Bytes(p, 0, V, 0, c)
           down == Bytes(p, A, V, c, d) \cup Bytes(p, 0, V, d, e)
<1>1. ASSUME NEW n
      PROVE  /\ n \in up <=> In(n, 0, B, c, d) \/ In(n, 0, V, 0, c)
             /\ n \in down <=> In(n, A, V, c, d) \/ In(n, 0, V, d, e)
             /\ n \in Bytes(p, 0, V, 0, e) <=> In(n, 0, V, 0, e)
             /\ n \in Bytes(p, A, B, c, d) <=> In(n, A, B, c, d)
  <2>1. A \in Int /\ B \in Int /\ V \in Int /\ c \in Int /\ d \in Int /\ e \in Int /\ 0 \in Int
    OBVIOUS
  <2>2. \A a, b, i, j \in Int : n \in Bytes(p, a, b, i, j) <=> In(n, a, b, i, j)
    <3>1. ASSUME NEW a \in Int, NEW b \in Int, NEW i \in Int, NEW j \in Int
          PROVE  n \in Bytes(p, a, b, i, j) <=> In(n, a, b, i, j)
      BY DEF Bytes
    <3> QED
      BY <3>1, Zenon
  <2> HIDE DEF In
  <2> QED
    BY <2>1, <2>2, Zenon DEF up, down
<1> HIDE DEF up, down
<1>2. ASSUME NEW n, n \in up \/ n \in down
      PROVE  n \in Bytes(p, 0, V, 0, e)
  <2>1. PICK y \in 0..(e - 1), r \in 0..(V - 1) : n = p * y + r
    <3>1. CASE In(n, 0, B, c, d)
      <4>1. PICK y \in c..(d - 1), r \in 0..(B - 1) : n = p * y + r
        BY <3>1
      <4>2. y \in 0..(e - 1) /\ r \in 0..(V - 1)
        OBVIOUS
      <4> QED
        BY <4>1, <4>2
    <3>2. CASE In(n, 0, V, 0, c)
      <4>1. PICK y \in 0..(c - 1), r \in 0..(V - 1) : n = p * y + r
        BY <3>2
      <4>2. y \in 0..(e - 1)
        OBVIOUS
      <4> QED
        BY <4>1, <4>2
    <3>3. CASE In(n, A, V, c, d)
      <4>1. PICK y \in c..(d - 1), r \in A..(V - 1) : n = p * y + r
        BY <3>3
      <4>2. y \in 0..(e - 1) /\ r \in 0..(V - 1)
        OBVIOUS
      <4> QED
        BY <4>1, <4>2
    <3>4. CASE In(n, 0, V, d, e)
      <4>1. PICK y \in d..(e - 1), r \in 0..(V - 1) : n = p * y + r
        BY <3>4
      <4>2. y \in 0..(e - 1)
        OBVIOUS
      <4> QED
        BY <4>1, <4>2
    <3> HIDE DEF In
    <3>5. In(n, 0, B, c, d) \/ In(n, 0, V, 0, c) \/ In(n, A, V, c, d) \/ In(n, 0, V, d, e)
      BY <1>1, <1>2, Zenon
    <3> QED
      BY <3>1, <3>2, <3>3, <3>4, <3>5, Zenon
  <2> QED
    BY <1>1, <2>1
<1>3. ASSUME NEW n, n \in Bytes(p, 0, V, 0, e)
      PROVE  n \in up \/ n \in down
  <2>1. PICK y \in 0..(e - 1), r \in 0..(V - 1) : n = p * y + r
    BY <1>1, <1>3
  <2>2. CASE y < c
    <3>1. y \in 0..(c - 1)
      BY <2>2
    <3> QED
      BY <1>1, <2>1, <3>1
  <2>3. CASE y >= d
    <3>1. y \in d..(e - 1)
      BY <2>3
    <3> QED
      BY <1>1, <2>1, <3>1
  <2>4. CASE y >= c /\ y < d /\ r < B
    <3>1. y \in c..(d - 1) /\ r \in 0..(B - 1)
      BY <2>4
    <3> QED
      BY <1>1, <2>1, <3>1
  <2>5. CASE y >= c /\ y < d /\ r >= B
    <3>1. y \in c..(d - 1) /\ r \in A..(V - 1)
      BY <2>5
    <3> QED
      BY <1>1, <2>1, <3>1
  <2> QED
    BY <2>2, <2>3, <2>4, <2>5
<1>4. ASSUME NEW n, n \in up, n \in down
      PROVE  n \in Bytes(p, A, B, c, d)
  <2>1. PICK y \in 0..(d - 1), r \in 0..(V - 1) :
          n = p * y + r /\ (y >= c => r < B)
    <3>1. CASE In(n, 0, B, c, d)
      <4>1. PICK y \in c..(d - 1), r \in 0..(B - 1) : n = p * y + r
        BY <3>1
      <4>2. y \in 0..(d - 1) /\ r \in 0..(V - 1) /\ r < B
        OBVIOUS
      <4> QED
        BY <4>1, <4>2
    <3>2. CASE In(n, 0, V, 0, c)
      <4>1. PICK y \in 0..(c - 1), r \in 0..(V - 1) : n = p * y + r
        BY <3>2
      <4>2. y \in 0..(d - 1) /\ ~(y >= c)
        OBVIOUS
      <4> QED
        BY <4>1, <4>2
    <3> HIDE DEF In
    <3>3. In(n, 0, B, c, d) \/ In(n, 0, V, 0, c)
      BY <1>1, <1>4, Zenon
    <3> QED
      BY <3>1, <3>2, <3>3, Zenon
  <2>2. PICK z \in c..(e - 1), s \in 0..(V - 1) :
          n = p * z + s /\ (z < d => A <= s)
    <3>1. CASE In(n, A, V, c, d)
      <4>1. PICK i \in c..(d - 1), k \in A..(V - 1) : n = p * i + k
        BY <3>1
      <4>2. i \in c..(e - 1) /\ k \in 0..(V - 1) /\ A <= k
        OBVIOUS
      <4> QED
        BY <4>1, <4>2
    <3>2. CASE In(n, 0, V, d, e)
      <4>1. PICK i \in d..(e - 1), k \in 0..(V - 1) : n = p * i + k
        BY <3>2
      <4>2. i \in c..(e - 1) /\ ~(i < d)
        OBVIOUS
      <4> QED
        BY <4>1, <4>2
    <3> HIDE DEF In
    <3>3. In(n, A, V, c, d) \/ In(n, 0, V, d, e)
      BY <1>1, <1>4, Zenon
    <3> QED
      BY <3>1, <3>2, <3>3, Zenon
  <2>3. y \in Nat /\ z \in Nat /\ r \in 0..(p - 1) /\ s \in 0..(p - 1)
    OBVIOUS
  <2>4. p * y + r = p * z + s
    BY <2>1, <2>2
  <2>5. y = z /\ r = s
    BY <2>3, <2>4, OnePlace
  <2>6. y \in c..(d - 1) /\ r \in A..(B - 1)
    BY <2>1, <2>2, <2>5
  <2> QED
    BY <1>1, <2>1, <2>6
<1>5. ASSUME NEW n, n \in Bytes(p, A, B, c, d)
      PROVE  n \in up /\ n \in down
  <2>1. PICK y \in c..(d - 1), r \in A..(B - 1) : n = p * y + r
    BY <1>1, <1>5
  <2>2. r \in 0..(B - 1) /\ r \in A..(V - 1)
    OBVIOUS
  <2>3. In(n, 0, B, c, d) /\ In(n, A, V, c, d)
    BY <2>1, <2>2
  <2> HIDE DEF In
  <2> QED
    BY <1>1, <2>3, Zenon
<1>6. up \cup down = Bytes(p, 0, V, 0, e)
  BY <1>2, <1>3
<1>7. up \cap down = Bytes(p, A, B, c, d)
  BY <1>4, <1>5
<1> QED
  BY <1>6, <1>7, Zenon DEF up, down, Tiled

\* A cell is inside: n * size of them fit.
LEMMA CellInside ==
  ASSUME NEW size \in Nat \ {0}, NEW whole \in Nat, NEW n \in 0..((whole \div size) - 1)
  PROVE  /\ n * size \in Nat /\ (n + 1) * size \in Nat
         /\ n * size + size = (n + 1) * size
         /\ (n + 1) * size <= whole
<1>1. /\ whole \div size \in Nat /\ whole % size \in 0..(size - 1)
      /\ whole = size * (whole \div size) + (whole % size)
  BY Divided
<1>2. PICK q \in Nat, r \in Nat : q = whole \div size /\ whole = size * q + r
  BY <1>1
<1>3. n \in Nat /\ n + 1 \in Nat /\ n + 1 <= q
  BY <1>2
<1>4. size * (n + 1) \in Nat /\ size * q \in Nat /\ size * (n + 1) <= size * q
  BY <1>3, Grows
<1>5. n * size \in Nat /\ (n + 1) * size = size * (n + 1) /\ n * size + size = (n + 1) * size
  BY <1>3, SMTT(30)
<1> DEFINE v == size * (n + 1)
           w == size * q
<1>6. v \in Nat /\ w \in Nat /\ v <= w /\ whole = w + r
  BY <1>2, <1>4
<1> HIDE DEF v, w
<1>7. v <= whole
  BY <1>6
<1> QED
  BY <1>4, <1>5, <1>7 DEF v

LEMMA ClearsAre ==
  ASSUME NEW f, IsPicture(f), f.type # "ega"
  PROVE  ClearsMeet(f)
<1> DEFINE W == f.width
           H == f.height
<1>1. W \in Nat /\ H \in Nat /\ FONT_WIDTH \in Nat \ {0} /\ fontheight \in Nat \ {0}
  BY VideoAssumption DEF IsPicture
<1>2. Columns(f) = W \div FONT_WIDTH /\ Rows(f) = H \div fontheight
  BY DEF Columns, Rows
<1>3. ASSUME NEW cx \in 0..(Columns(f) - 1), NEW cy \in 0..(Rows(f) - 1)
      PROVE  LET up == fb_video_clear_up(f, cx, cy)
                 down == fb_video_clear_down(f, cx, cy)
             IN up \cup down = WholeScreen(f) /\ up \cap down = CellPixels(f, cx, cy)
  <2> DEFINE a == cx * FONT_WIDTH
             b == (cx + 1) * FONT_WIDTH
             c == cy * fontheight
             d == (cy + 1) * fontheight
  <2>1. a \in Nat /\ b \in Nat /\ a + FONT_WIDTH = b /\ b <= W
    <3>1. cx \in 0..((W \div FONT_WIDTH) - 1)
      BY <1>2
    <3> HIDE DEF W
    <3> QED
      BY <1>1, <3>1, CellInside, Zenon
  <2>2. c \in Nat /\ d \in Nat /\ c + fontheight = d /\ d <= H
    <3>1. cy \in 0..((H \div fontheight) - 1)
      BY <1>2
    <3> HIDE DEF H
    <3> QED
      BY <1>1, <3>1, CellInside, Zenon
  <2> DEFINE o == 0
  <2>3. /\ fb_video_clear_up(f, cx, cy)
             = fb_video_fillrect(f, o, c, b, fontheight) \cup fb_video_fillrect(f, o, o, W, c)
        /\ fb_video_clear_down(f, cx, cy)
             = fb_video_fillrect(f, a, c, W - a, fontheight)
                 \cup fb_video_fillrect(f, o, d, W, H - d)
        /\ WholeScreen(f) = Pixels(f, o..(W - 1), o..(H - 1))
        /\ CellPixels(f, cx, cy) = Pixels(f, a..(b - 1), c..(d - 1))
    BY Zenon DEF fb_video_clear_up, fb_video_clear_down, WholeScreen, CellPixels
  <2>4. a <= b /\ b <= W /\ a <= W /\ c <= d /\ d <= H
    <3> HIDE DEF a, b, c, d, W, H
    <3> QED
      BY <1>1, <2>1, <2>2
  <2>5. o \in Nat /\ \A z \in Nat : o + z = z
    OBVIOUS
  <2> DEFINE ww == W - a
             hh == H - d
  <2> HIDE DEF a, b, c, d, o
  <2>6. ww \in Nat /\ a + ww = W /\ hh \in Nat /\ d + hh = H
    BY <1>1, <2>1, <2>2, <2>4
  <2>7. /\ o \in Nat /\ a \in Nat /\ b \in Nat /\ c \in Nat /\ d \in Nat /\ W \in Nat
        /\ H \in Nat /\ fontheight \in Nat /\ o \in Int /\ c \in Int /\ d \in Int /\ H \in Int
    BY <1>1, <2>1, <2>2, <2>5
  <2>8. /\ Spans(o, b, b) /\ Spans(o, W, W) /\ Spans(o, c, c)
         /\ Spans(a, ww, W) /\ Spans(c, fontheight, d) /\ Spans(d, hh, H)
    BY <2>2, <2>5, <2>6, <2>7 DEF Spans
  <2> HIDE DEF ww, hh, W, H
  <2>9. Fills(f, o, b, b, c, fontheight, d)
    BY <2>8, FilledTo, Zenon
  <2>10. Fills(f, o, W, W, o, c, c)
    BY <2>8, FilledTo, Zenon
  <2>11. Fills(f, a, ww, W, c, fontheight, d)
    BY <2>8, FilledTo, Zenon
  <2>12. Fills(f, o, W, W, d, hh, H)
    BY <2>8, FilledTo, Zenon
  <2>13. Pixels(f, o..(W - 1), o..(H - 1)) = Area(f, o, W, o, H)
    BY <2>7, PixelsAre
  <2>14. Pixels(f, a..(b - 1), c..(d - 1)) = Area(f, a, b, c, d)
    BY <2>7, PixelsAre
  <2> DEFINE p == f.pitch
             u == f.bytes
             A == u * a
             B == u * b
             V == u * W
  <2>15. p \in Nat /\ u \in Nat /\ V <= p
    BY DEF IsPicture, W
  <2>16. A \in Nat /\ B \in Nat /\ V \in Nat /\ A <= B /\ B <= V
    BY <2>4, <2>7, <2>15, Grows
  <2>17. u * o = 0
    BY <2>15 DEF o
  <2>18. /\ Area(f, o, b, c, d) = Bytes(p, 0, B, c, d)
         /\ Area(f, o, W, o, c) = Bytes(p, 0, V, 0, c)
         /\ Area(f, a, W, c, d) = Bytes(p, A, V, c, d)
         /\ Area(f, o, W, d, H) = Bytes(p, 0, V, d, H)
         /\ Area(f, o, W, o, H) = Bytes(p, 0, V, 0, H)
         /\ Area(f, a, b, c, d) = Bytes(p, A, B, c, d)
    BY <2>17, Zenon DEF Area, o
  <2> HIDE DEF p, A, B, V
  <2>19. Tiled(p, A, B, V, c, d, H)
    BY <2>4, <2>7, <2>15, <2>16, Tiles, Zenon
  <2> DEFINE up == fb_video_clear_up(f, cx, cy)
             down == fb_video_clear_down(f, cx, cy)
  <2>20. /\ up = Bytes(p, 0, B, c, d) \cup Bytes(p, 0, V, 0, c)
         /\ down = Bytes(p, A, V, c, d) \cup Bytes(p, 0, V, d, H)
    BY <2>3, <2>9, <2>10, <2>11, <2>12, <2>18, Zenon DEF ww, hh, Fills
  <2>21. WholeScreen(f) = Bytes(p, 0, V, 0, H) /\ CellPixels(f, cx, cy) = Bytes(p, A, B, c, d)
    BY <2>3, <2>13, <2>14, <2>18, Zenon
  <2> HIDE DEF up, down
  <2>22. up \cup down = WholeScreen(f) /\ up \cap down = CellPixels(f, cx, cy)
    BY <2>19, <2>20, <2>21, Zenon DEF Tiled
  <2> QED
    BY <2>22, Zenon DEF up, down
<1> QED
  BY <1>3, Zenon DEF ClearsMeet

\* Clearing to a colour does all of it and no more.
LEMMA ClearedIs ==
  ASSUME NEW f, IsPicture(f)
  PROVE  /\ WholeScreen(f) \subseteq fb_video_clearto(f)
         /\ fb_video_clearto(f) \subseteq 0..(f.pitch * f.height - 1)
<1> DEFINE p == f.pitch
           u == f.bytes
           W == f.width
           H == f.height
           V == u * W
           all == 0..(p * H - 1)
<1>1. p \in Nat /\ u \in Nat /\ V <= p /\ W \in Nat /\ H \in Nat /\ 0 \in Nat /\ 0 \in Int
      /\ H \in Int
  BY DEF IsPicture
<1>2. V \in Nat
  BY <1>1, Grows
<1>3. WholeScreen(f) = Bytes(p, 0, V, 0, H)
  <2>1. Pixels(f, 0..(W - 1), 0..(H - 1)) = Area(f, 0, W, 0, H)
    <3> DEFINE o == 0
    <3>1. o \in Nat /\ o \in Int /\ W \in Nat /\ H \in Int
      BY <1>1
    <3> HIDE DEF o, W, H
    <3>2. Pixels(f, o..(W - 1), o..(H - 1)) = Area(f, o, W, o, H)
      BY <3>1, PixelsAre
    <3> QED
      BY <3>2 DEF o
  <2>2. u * 0 = 0
    BY <1>1
  <2> QED
    BY <2>1, <2>2, Zenon DEF WholeScreen, Area
<1>4. Bytes(p, 0, V, 0, H) \subseteq all
  <2>1. SUFFICES ASSUME NEW n \in Bytes(p, 0, V, 0, H)
                 PROVE  n \in all
    OBVIOUS
  <2>2. PICK y \in 0..(H - 1), r \in 0..(V - 1) : n = p * y + r
    BY DEF Bytes
  <2>3. y \in Nat /\ y < H
    BY <1>1
  <2>4. p * y + p <= p * H
    BY <1>1, <2>3, LinesApart
  <2>5. p * y \in Nat /\ p * H \in Nat
    BY <1>1, <2>3, Grows
  <2> DEFINE v == p * y
             w == p * H
  <2>6. v \in Nat /\ w \in Nat /\ v + p <= w /\ n = v + r /\ r \in 0..(V - 1)
    BY <2>2, <2>4, <2>5
  <2> HIDE DEF v, w, V, p
  <2>7. n \in 0..(w - 1)
    BY <1>1, <1>2, <2>6
  <2> QED
    BY <2>7 DEF w
<1>5. CASE u = 4
  <2>1. fb_video_clearto(f) = all
    BY <1>5 DEF fb_video_clearto
  <2> QED
    BY <1>3, <1>4, <2>1
<1>6. CASE u # 4
  <2>1. fb_video_clearto(f) = WholeScreen(f)
    <3> DEFINE U == UNION {fb_putpixel(f, x, y) : x \in 0..(W - 1), y \in 0..(H - 1)}
    <3>1. fb_video_clearto(f) = U
      BY <1>6 DEF fb_video_clearto
    <3>2. WholeScreen(f) = U
      BY DEF WholeScreen, Pixels
    <3> HIDE DEF U
    <3> QED
      BY <3>1, <3>2
  <2> QED
    BY <1>3, <1>4, <2>1
<1> QED
  BY <1>5, <1>6

-----------------------------------------------------------------------------
(* /dev/fb.                                                                *)

\* A file of h lines of u bytes.
LEMMA FileOf ==
  ASSUME NEW f, IsPicture(f)
  PROVE  user_pitch(f) \in Nat \ {0} /\ f.pitch \in Nat /\ fb_file_size(f) \in Nat
<1>1. f.width \in Nat \ {0} /\ f.height \in Nat /\ f.bytes \in Nat \ {0} /\ f.pitch \in Nat
  BY DEF IsPicture
<1>2. user_pitch(f) \in Nat /\ f.width <= user_pitch(f)
  <2>1. f.width * 1 <= f.width * f.bytes /\ f.width * f.bytes \in Nat
    BY <1>1, Grows
  <2>2. f.width * 1 = f.width
    BY <1>1
  <2> QED
    BY <2>1, <2>2, Zenon DEF user_pitch
<1>3. user_pitch(f) \in Nat \ {0}
  BY <1>1, <1>2
<1>4. fb_file_size(f) \in Nat
  <2>1. \A v \in Nat : f.height * v \in Nat
    BY <1>1, SMTT(30)
  <2> QED
    BY <1>2, <2>1, Zenon DEF fb_file_size
<1> QED
  BY <1>1, <1>3, <1>4

LEMMA SoughtIs ==
  ASSUME NEW f, IsPicture(f), NEW offset \in Int
  PROVE  fb_lseek(f, 0, offset, "SEEK_END") \in 0..fb_file_size(f)
<1>1. PICK size \in Nat : size = fb_file_size(f)
  BY FileOf
<1> DEFINE to == size + offset
<1>2. fb_lseek(f, 0, offset, "SEEK_END") = IF to < 0 \/ to > size THEN size ELSE to
  BY <1>1 DEF fb_lseek
<1> QED
  BY <1>1, <1>2

\* How much is moved: all that is asked for, or all there is.
LEMMA MovedIs ==
  ASSUME NEW f, IsPicture(f), NEW pos \in 0..fb_file_size(f), NEW n \in Nat
  PROVE  /\ Moved(f, pos, n) \in Nat
         /\ Moved(f, pos, n) = n
              \/ (Moved(f, pos, n) < n /\ pos + Moved(f, pos, n) = fb_file_size(f))
<1>1. PICK size \in Nat : size = fb_file_size(f)
  BY FileOf
<1>2. Moved(f, pos, n) = IF pos + n > size THEN size - pos ELSE n
  BY <1>1 DEF Moved
<1>3. pos \in 0..size
  BY <1>1
<1> QED
  BY <1>1, <1>2, <1>3

\* The first line, from start_x on, and the lines below it.
LEMMA PlaceIs ==
  ASSUME NEW f, IsPicture(f), NEW pos \in Nat, NEW n,
         NEW m \in Nat, m = Moved(f, pos, n), NEW k \in 0..(m - 1)
  PROVE  Place(f, pos, n, k) = InFramebuffer(f, pos + k)
<1> DEFINE u == user_pitch(f)
           p == f.pitch
           x == pos % u
           y == pos \div u
           line == u - x
           first == IF x = 0 THEN 0 ELSE IF line > m THEN m ELSE line
           below == IF x = 0 THEN y ELSE y + 1
           rest == k - first
           b == pos + k
<1>1. u \in Nat \ {0} /\ p \in Nat
  BY FileOf
<1>2. y \in Nat /\ x \in 0..(u - 1) /\ pos = u * y + x
  BY <1>1, Divided, Zenon
<1>3. Place(f, pos, n, k) = IF k < first THEN y * p + x + k
                            ELSE (below + rest \div u) * p + (rest % u)
  BY Zenon DEF Place
<1>4. InFramebuffer(f, b) = (b \div u) * p + (b % u)
  BY Zenon DEF InFramebuffer
<1>5. u * y \in Nat /\ \A z \in Nat : u * (y + z) = u * y + u * z /\ u * z \in Nat
  BY <1>1, <1>2, SMTT(30)
<1>6. y * p \in Nat
  BY <1>1, <1>2, SMTT(30)
<1>7. b \in Int
  OBVIOUS
<1> HIDE DEF u, p, x, y, b
<1>8. CASE k < first
  <2>1. x # 0 /\ x + k \in 0..(u - 1)
    BY <1>1, <1>2, <1>8
  <2>2. b = u * y + (x + k)
    <3> DEFINE v == u * y
    <3>1. pos = v + x /\ v \in Nat /\ b = pos + k
      BY <1>2, <1>5 DEF b
    <3> HIDE DEF v
    <3>2. b = v + (x + k)
      BY <1>2, <3>1
    <3> QED
      BY <3>2 DEF v
  <2>3. b \div u = y /\ b % u = x + k
    <3> DEFINE r == x + k
    <3>1. r \in 0..(u - 1) /\ b = u * y + r
      BY <2>1, <2>2
    <3> HIDE DEF r
    <3>2. b \div u = y /\ b % u = r
      BY <1>1, <1>2, <1>7, <3>1, DivideIs, Zenon
    <3> QED
      BY <3>2 DEF r
  <2>4. Place(f, pos, n, k) = y * p + x + k
    BY <1>3, <1>8, Zenon
  <2>5. InFramebuffer(f, b) = y * p + (x + k)
    BY <1>4, <2>3, Zenon
  <2>6. y * p + x + k = y * p + (x + k)
    <3> DEFINE v == y * p
    <3>1. v \in Nat
      BY <1>6
    <3> HIDE DEF v
    <3>2. v + x + k = v + (x + k)
      BY <1>2, <3>1
    <3> QED
      BY <3>2 DEF v
  <2> QED
    BY <2>4, <2>5, <2>6, Zenon DEF b
<1>9. CASE ~(k < first)
  <2>1. /\ rest \in Nat /\ below \in Nat
        /\ \/ x = 0 /\ below = y /\ rest = k
           \/ x # 0 /\ below = y + 1 /\ rest = k - (u - x)
    BY <1>1, <1>2, <1>9
  <2> HIDE DEF rest, below
  <2>2. PICK q \in Nat, r \in 0..(u - 1) : q = rest \div u /\ r = rest % u /\ rest = u * q + r
    BY <1>1, <2>1, Divided
  <2>3. below + q \in Nat
    BY <2>1
  <2>4. b = u * (below + q) + r
    <3>1. CASE x = 0 /\ below = y /\ rest = k
      <4> DEFINE v == u * y
                 w == u * q
                 t == u * (y + q)
      <4>1. /\ v \in Nat /\ w \in Nat /\ t = v + w
            /\ pos = v + x /\ b = pos + k /\ k = w + r /\ x = 0
        BY <1>2, <1>5, <2>2, <3>1 DEF b
      <4> HIDE DEF v, w, t
      <4>2. b = t + r
        BY <1>1, <4>1
      <4> QED
        BY <3>1, <4>2 DEF t
    <3>2. CASE x # 0 /\ below = y + 1 /\ rest = k - (u - x)
      <4>1. u * (y + 1 + q) = u * y + u + u * q
        <5>1. u * (y + (1 + q)) = u * y + u * (1 + q) /\ u * (1 + q) = u + u * q
          <6>1. 1 + q \in Nat
            OBVIOUS
          <6>2. u * (1 + q) = u + u * q
            BY <1>1, SMTT(30)
          <6> QED
            BY <1>5, <6>1, <6>2
        <5>2. y + (1 + q) = y + 1 + q
          BY <1>2
        <5> DEFINE v == u * y
                   w == u * q
        <5>3. v \in Nat /\ w \in Nat /\ u * (y + 1 + q) = v + (u + w)
          BY <1>5, <5>1, <5>2
        <5> HIDE DEF v, w
        <5>4. u * (y + 1 + q) = v + u + w
          BY <1>1, <5>3
        <5> QED
          BY <5>4 DEF v, w
      <4> DEFINE v == u * y
                 w == u * q
                 t == u * (y + 1 + q)
      <4>2. /\ v \in Nat /\ w \in Nat /\ t = v + u + w
            /\ pos = v + x /\ b = pos + k /\ k - (u - x) = w + r
        BY <1>2, <1>5, <2>2, <3>2, <4>1 DEF b
      <4> HIDE DEF v, w, t
      <4>3. b = t + r
        BY <1>1, <1>2, <4>2
      <4> QED
        BY <3>2, <4>3 DEF t
    <3> QED
      BY <2>1, <3>1, <3>2
  <2>5. b \div u = below + q /\ b % u = r
    <3> DEFINE z == below + q
    <3>1. z \in Nat /\ b = u * z + r
      BY <2>3, <2>4
    <3> HIDE DEF z
    <3>2. b \div u = z /\ b % u = r
      BY <1>1, <1>7, <2>2, <3>1, DivideIs, Zenon
    <3> QED
      BY <3>2 DEF z
  <2>6. Place(f, pos, n, k) = (below + q) * p + r
    BY <1>3, <1>9, <2>2, Zenon
  <2> QED
    BY <1>4, <2>5, <2>6, Zenon DEF b
<1> QED
  BY <1>8, <1>9

\* As many pairs as there are bytes.
LEMMA PairsCount ==
  ASSUME NEW m \in Nat, NEW h
  PROVE  Cardinality({<<k, h[k]>> : k \in 0..(m - 1)}) = m
<1> DEFINE S == 0..(m - 1)
           T == {<<k, h[k]>> : k \in S}
           g == [k \in S |-> <<k, h[k]>>]
<1>1. \A i, j \in S : g[i] = g[j] => i = j
  OBVIOUS
<1>2. \A t \in T : \E k \in S : g[k] = t
  OBVIOUS
<1>3. g \in [S -> T]
  OBVIOUS
<1>4. IsFiniteSet(S) /\ Cardinality(S) = m
  <2>1. 0 \in Int /\ m - 1 \in Int
    OBVIOUS
  <2>2. IsFiniteSet(0..(m - 1)) /\ Cardinality(0..(m - 1)) = IF 0 > m - 1 THEN 0 ELSE m - 1 - 0 + 1
    BY <2>1, FS_Interval
  <2> QED
    BY <2>2
<1> HIDE DEF S, T, g
<1>5. g \in Bijection(S, T)
  BY <1>1, <1>2, <1>3, Fun_IsBij
<1>6. ExistsBijection(S, T)
  BY <1>5 DEF ExistsBijection
<1>7. Cardinality(T) = Cardinality(S)
  BY <1>4, <1>6, FS_Bijection
<1> QED
  BY <1>4, <1>7 DEF S, T

LEMMA TransfersAre ==
  ASSUME NEW f, IsPicture(f)
  PROVE  TransferIsFile(f)
<1>1. ASSUME NEW offset \in (-Extent)..Extent, NEW n \in 0..Extent
      PROVE  LET pos == fb_lseek(f, 0, offset, "SEEK_END")
                 count == Cardinality(fb_write(f, pos, n))
             IN /\ count = n \/ (count < n /\ pos + count = fb_file_size(f))
                /\ fb_write(f, pos, n) = {<<k, InFramebuffer(f, pos + k)>> : k \in 0..(count - 1)}
                /\ fb_read(f, pos, n) = {<<w[2], w[1]>> : w \in fb_write(f, pos, n)}
  <2> DEFINE pos == fb_lseek(f, 0, offset, "SEEK_END")
             m == Moved(f, pos, n)
             count == Cardinality(fb_write(f, pos, n))
  <2>1. offset \in Int /\ n \in Nat
    BY PictureAssumption
  <2>2. pos \in 0..fb_file_size(f)
    BY <2>1, SoughtIs
  <2>3. pos \in Nat
    BY <2>2, FileOf
  <2> HIDE DEF pos
  <2>4. m \in Nat /\ (m = n \/ (m < n /\ pos + m = fb_file_size(f)))
    BY <2>1, <2>2, MovedIs
  <2>5. \A k \in 0..(m - 1) : Place(f, pos, n, k) = InFramebuffer(f, pos + k)
    <3>1. PICK mm \in Nat : mm = Moved(f, pos, n)
      BY <2>4
    <3>2. ASSUME NEW k \in 0..(mm - 1)
          PROVE  Place(f, pos, n, k) = InFramebuffer(f, pos + k)
      BY <2>3, <3>1, PlaceIs
    <3> QED
      BY <3>1, <3>2
  <2> DEFINE h == [k \in 0..(m - 1) |-> InFramebuffer(f, pos + k)]
  <2>6. fb_write(f, pos, n) = {<<k, Place(f, pos, n, k)>> : k \in 0..(m - 1)}
    BY DEF fb_write
  <2>7. fb_read(f, pos, n) = {<<Place(f, pos, n, k), k>> : k \in 0..(m - 1)}
    BY DEF fb_read
  <2> HIDE DEF m
  <2>8. fb_write(f, pos, n) = {<<k, InFramebuffer(f, pos + k)>> : k \in 0..(m - 1)}
    BY <2>5, <2>6
  <2>9. {<<k, InFramebuffer(f, pos + k)>> : k \in 0..(m - 1)} = {<<k, h[k]>> : k \in 0..(m - 1)}
    OBVIOUS
  <2> HIDE DEF h
  <2>10. Cardinality({<<k, h[k]>> : k \in 0..(m - 1)}) = m
    BY <2>4, PairsCount
  <2>11. count = m
    BY <2>8, <2>9, <2>10
  <2>12. fb_read(f, pos, n) = {<<w[2], w[1]>> : w \in fb_write(f, pos, n)}
    <3> DEFINE P(k) == Place(f, pos, n, k)
               wrote == fb_write(f, pos, n)
               back == {<<w[2], w[1]>> : w \in wrote}
    <3>1. /\ \A t : t \in wrote <=> \E k \in 0..(m - 1) : t = <<k, P(k)>>
          /\ \A t : t \in fb_read(f, pos, n) <=> \E k \in 0..(m - 1) : t = <<P(k), k>>
      BY <2>6, <2>7
    <3> HIDE DEF P, wrote
    <3>2. ASSUME NEW t, t \in fb_read(f, pos, n)
          PROVE  t \in back
      <4>1. PICK k \in 0..(m - 1) : t = <<P(k), k>>
        BY <3>1, <3>2
      <4>2. PICK w \in wrote : w = <<k, P(k)>>
        BY <3>1
      <4>3. t = <<w[2], w[1]>>
        BY <4>1, <4>2
      <4> QED
        BY <4>3
    <3>3. ASSUME NEW t, t \in back
          PROVE  t \in fb_read(f, pos, n)
      <4>1. PICK w \in wrote : t = <<w[2], w[1]>>
        BY <3>3
      <4>2. PICK k \in 0..(m - 1) : w = <<k, P(k)>>
        BY <3>1
      <4>3. t = <<P(k), k>>
        BY <4>1, <4>2
      <4> QED
        BY <3>1, <4>3
    <3>4. fb_read(f, pos, n) = back
      BY <3>2, <3>3
    <3> QED
      BY <3>4 DEF wrote
  <2> HIDE DEF count
  <2>13. /\ count = n \/ (count < n /\ pos + count = fb_file_size(f))
         /\ fb_write(f, pos, n) = {<<k, InFramebuffer(f, pos + k)>> : k \in 0..(count - 1)}
    BY <2>4, <2>8, <2>11
  <2> QED
    BY <2>12, <2>13 DEF pos, count
<1> QED
  BY <1>1, Zenon DEF TransferIsFile

LEMMA DrawnIs ==
  ASSUME NEW f \in Format
  PROVE  DrawnRight(f)
<1>1. ASSUME f.type # "ega", f.pitch % f.bytes = 0
      PROVE  /\ ClearsMeet(f) /\ WholeScreen(f) \subseteq fb_video_clearto(f)
             /\ fb_video_clearto(f) \subseteq 0..(f.pitch * f.height - 1) /\ TransferIsFile(f)
  <2>1. IsPicture(f)
    BY <1>1, Pictures
  <2> QED
    BY <1>1, <2>1, ClearsAre, ClearedIs, TransfersAre, Zenon
<1> QED
  BY <1>1, Zenon DEF DrawnRight

-----------------------------------------------------------------------------
(* The nearest colour, by induction over the table.                        *)

Found == [closest : Nat, best : Nat]

\* The nearest of the first n colours of table to c.
Nearers(table, c, n, g) ==
  g = [i \in 0..n |->
         IF i = 0 THEN [closest |-> 0, best |-> Farther]
         ELSE IF color_distance(c, table[i]) < g[i - 1].best
              THEN [closest |-> i - 1, best |-> color_distance(c, table[i])]
         ELSE g[i - 1]]

\* The nearest with one colour more.
Nearer(e, v, i) == IF e < v.best THEN [closest |-> i - 1, best |-> e] ELSE v

NearersTo(table, c, n, g) ==
  /\ DOMAIN g = 0..n /\ g = [i \in 0..n |-> g[i]]
  /\ g[0] = [closest |-> 0, best |-> Farther]
  /\ \A i \in 1..n : g[i] = Nearer(color_distance(c, table[i]), g[i - 1], i)

LEMMA NearersBoth ==
  ASSUME NEW table, NEW c, NEW n \in Nat, NEW g, Nearers(table, c, n, g)
  PROVE  NearersTo(table, c, n, g)
<1>1. DOMAIN g = 0..n /\ g = [i \in 0..n |-> g[i]]
  BY DEF Nearers
<1>2. g[0] = [closest |-> 0, best |-> Farther]
  BY DEF Nearers
<1>3. ASSUME NEW i \in 1..n
      PROVE  g[i] = Nearer(color_distance(c, table[i]), g[i - 1], i)
  <2>1. i \in 0..n /\ i # 0
    OBVIOUS
  <2>2. g[i] = IF i = 0 THEN [closest |-> 0, best |-> Farther]
               ELSE IF color_distance(c, table[i]) < g[i - 1].best
                    THEN [closest |-> i - 1, best |-> color_distance(c, table[i])]
               ELSE g[i - 1]
    BY <2>1, Zenon DEF Nearers
  <2> QED
    BY <2>1, <2>2, Zenon DEF Nearer
<1> QED
  BY <1>1, <1>2, <1>3, Zenon DEF NearersTo

LEMMA NearersBack ==
  ASSUME NEW table, NEW c, NEW n \in Nat, NEW g, NearersTo(table, c, n, g)
  PROVE  Nearers(table, c, n, g)
<1>1. ASSUME NEW i \in 0..n
      PROVE  g[i] = IF i = 0 THEN [closest |-> 0, best |-> Farther]
                    ELSE IF color_distance(c, table[i]) < g[i - 1].best
                         THEN [closest |-> i - 1, best |-> color_distance(c, table[i])]
                    ELSE g[i - 1]
  <2>1. CASE i = 0
    BY <2>1, Zenon DEF NearersTo
  <2>2. CASE i # 0
    <3>1. i \in 1..n
      BY <2>2
    <3>2. g[i] = Nearer(color_distance(c, table[i]), g[i - 1], i)
      BY <3>1, Zenon DEF NearersTo
    <3> QED
      BY <2>2, <3>2, Zenon DEF Nearer
  <2> QED
    BY <2>1, <2>2
<1> QED
  BY <1>1, Zenon DEF Nearers, NearersTo

LEMMA NearersExist ==
  ASSUME NEW table, NEW c, NEW m \in Nat
  PROVE  \E g : Nearers(table, c, m, g)
<1> DEFINE T == {n \in 0..m : \E g : NearersTo(table, c, n, g)}
<1>1. 0 \in T
  <2> DEFINE g == [i \in 0..0 |-> [closest |-> 0, best |-> Farther]]
  <2>1. NearersTo(table, c, 0, g)
    BY DEF NearersTo
  <2> QED
    BY <2>1
<1>2. ASSUME NEW n \in 1..m, n - 1 \in T
      PROVE  n \in T
  <2>1. PICK g : NearersTo(table, c, n - 1, g)
    BY <1>2
  <2> DEFINE h == [i \in 0..n |->
                     IF i = n THEN Nearer(color_distance(c, table[n]), g[n - 1], n) ELSE g[i]]
  <2>2. h[0] = [closest |-> 0, best |-> Farther]
    <3>1. h[0] = g[0]
      OBVIOUS
    <3> QED
      BY <2>1, <3>1, Zenon DEF NearersTo
  <2>3. ASSUME NEW i \in 1..n
        PROVE  h[i] = Nearer(color_distance(c, table[i]), h[i - 1], i)
    <3>1. h[i - 1] = g[i - 1]
      OBVIOUS
    <3>2. CASE i = n
      <4>1. h[i] = Nearer(color_distance(c, table[i]), g[i - 1], i)
        BY <3>2
      <4> QED
        BY <3>1, <4>1, Zenon
    <3>3. CASE i # n
      <4>1. h[i] = g[i] /\ i \in 1..(n - 1)
        BY <3>3
      <4>2. g[i] = Nearer(color_distance(c, table[i]), g[i - 1], i)
        BY <2>1, <4>1, Zenon DEF NearersTo
      <4> QED
        BY <3>1, <4>1, <4>2, Zenon
    <3> QED
      BY <3>2, <3>3
  <2>4. DOMAIN h = 0..n /\ h = [i \in 0..n |-> h[i]]
    OBVIOUS
  <2> HIDE DEF h
  <2>5. NearersTo(table, c, n, h)
    BY <2>2, <2>3, <2>4, Zenon DEF NearersTo
  <2> QED
    BY <2>5
<1> HIDE DEF T
<1>3. 0..m \subseteq T
  BY <1>1, <1>2, Upwards
<1>4. PICK g : NearersTo(table, c, m, g)
  BY <1>3 DEF T
<1> QED
  BY <1>4, NearersBack

\* v is the first of the nearest of n colours.
IsNearest(d, n, v) ==
  /\ v \in Found
  /\ n = 0 => v.best = Farther
  /\ n > 0 => v.closest + 1 \in 1..n /\ v.best = d[v.closest + 1]
  /\ \A j \in 1..n : v.best <= d[j] /\ (v.best = d[j] => v.closest + 1 <= j)

LEMMA OneColourMore ==
  ASSUME NEW d, NEW n \in Nat \ {0}, \A j \in 1..n : d[j] \in Nat /\ d[j] < Farther,
         NEW v, IsNearest(d, n - 1, v)
  PROVE  IsNearest(d, n, Nearer(d[n], v, n))
<1> DEFINE e == d[n]
<1>1. e \in Nat /\ e < Farther
  OBVIOUS
<1>2. v \in Found /\ v.best \in Nat /\ v.closest \in Nat
  BY DEF IsNearest, Found
<1>3. \A j \in 1..n : j = n \/ j \in 1..(n - 1)
  OBVIOUS
<1>4. CASE e < v.best
  <2> DEFINE w == [closest |-> n - 1, best |-> e]
  <2>1. Nearer(e, v, n) = w
    BY <1>4, Zenon DEF Nearer
  <2>2. w \in Found /\ w.closest + 1 = n /\ w.best = e
    BY <1>1 DEF Found
  <2>3. ASSUME NEW j \in 1..n
        PROVE  e <= d[j] /\ (e = d[j] => n <= j)
    <3>1. CASE j = n
      BY <1>1, <3>1
    <3>2. CASE j \in 1..(n - 1)
      <4>1. v.best <= d[j] /\ d[j] \in Nat
        BY <3>2 DEF IsNearest
      <4> HIDE DEF e
      <4> QED
        BY <1>1, <1>2, <1>4, <4>1
    <3> QED
      BY <1>3, <3>1, <3>2
  <2> HIDE DEF w
  <2>4. IsNearest(d, n, w)
    <3>1. n \in 1..n /\ ~(n = 0)
      OBVIOUS
    <3> QED
      BY <2>2, <2>3, <3>1, Zenon DEF IsNearest
  <2> QED
    BY <2>1, <2>4, Zenon
<1>5. CASE ~(e < v.best)
  <2>1. Nearer(e, v, n) = v
    BY <1>5, Zenon DEF Nearer
  <2>2. v.best <= e
    <3> HIDE DEF e
    <3> QED
      BY <1>1, <1>2, <1>5
  <2>3. n > 1
    <3>1. SUFFICES ASSUME n = 1 PROVE FALSE
      OBVIOUS
    <3>2. v.best = Farther
      BY <3>1 DEF IsNearest
    <3> QED
      BY <1>1, <1>5, <3>2, Zenon
  <2>4. v.closest + 1 \in 1..(n - 1) /\ v.best = d[v.closest + 1]
    BY <2>3 DEF IsNearest
  <2>5. ASSUME NEW j \in 1..n
        PROVE  v.best <= d[j] /\ (v.best = d[j] => v.closest + 1 <= j)
    <3>1. CASE j = n
      <4>1. v.closest + 1 <= n
        BY <2>4
      <4> QED
        BY <2>2, <3>1, <4>1
    <3>2. CASE j \in 1..(n - 1)
      BY <3>2 DEF IsNearest
    <3> QED
      BY <1>3, <3>1, <3>2
  <2>6. IsNearest(d, n, v)
    <3>1. v.closest + 1 \in 1..n /\ ~(n = 0)
      BY <2>4
    <3> QED
      BY <1>2, <2>4, <2>5, <3>1, Zenon DEF IsNearest
  <2> QED
    BY <2>1, <2>6, Zenon
<1> QED
  BY <1>4, <1>5

LEMMA SquareOf ==
  ASSUME NEW M \in Nat, NEW x \in 0..M, NEW y \in 0..M
  PROVE  (x - y) * (x - y) \in Nat /\ (x - y) * (x - y) <= M * M
<1>1. PICK e \in Nat : e <= M /\ (x - y = e \/ x - y = -e)
  <2>1. CASE x >= y
    <3>1. x - y \in Nat /\ x - y <= M
      BY <2>1
    <3> QED
      BY <3>1
  <2>2. CASE x < y
    <3>1. y - x \in Nat /\ y - x <= M /\ x - y = -(y - x)
      BY <2>2
    <3> QED
      BY <3>1
  <2> QED
    BY <2>1, <2>2
<1>2. (x - y) * (x - y) = e * e
  <2> DEFINE v == x - y
  <2>1. v = e \/ v = -e
    BY <1>1
  <2> HIDE DEF v
  <2>2. (-e) * (-e) = e * e
    BY SMTT(30)
  <2>3. v * v = e * e
    BY <2>1, <2>2, SMTT(30)
  <2> QED
    BY <2>3 DEF v
<1>3. e * e \in Nat /\ e * e <= M * e
  <2>1. e * e \in Nat /\ e * e <= e * M
    BY <1>1, Grows
  <2>2. e * M = M * e
    BY SMTT(30)
  <2> QED
    BY <2>1, <2>2, Zenon
<1>4. M * e \in Nat /\ M * M \in Nat /\ M * e <= M * M
  BY <1>1, Grows
<1> DEFINE v == e * e
           w == M * e
           t == M * M
<1>5. v \in Nat /\ w \in Nat /\ t \in Nat /\ v <= w /\ w <= t
  BY <1>3, <1>4
<1> HIDE DEF v, w, t
<1>6. v <= t
  BY <1>5
<1> QED
  BY <1>2, <1>3, <1>6 DEF v, t

LEMMA DistanceIs ==
  ASSUME NEW c \in RGB, NEW d \in RGB
  PROVE  color_distance(c, d) \in Nat /\ color_distance(c, d) < Farther
<1>1. PICK M \in Nat : M = 255
  BY SMTT(30)
<1>2. RGB = (0..M) \X (0..M) \X (0..M)
  BY <1>1, SMTT(30) DEF RGB
<1>3. /\ c[1] \in 0..M /\ c[2] \in 0..M /\ c[3] \in 0..M
      /\ d[1] \in 0..M /\ d[2] \in 0..M /\ d[3] \in 0..M
  BY <1>2, SMTT(30)
<1> DEFINE r == (c[1] - d[1]) * (c[1] - d[1])
           g == (c[2] - d[2]) * (c[2] - d[2])
           b == (c[3] - d[3]) * (c[3] - d[3])
           t == M * M
<1>4. r \in Nat /\ r <= t /\ g \in Nat /\ g <= t /\ b \in Nat /\ b <= t
  BY <1>3, SquareOf, SMTT(30)
<1>5. t \in Nat /\ t + t + t < Farther
  BY <1>1, SMTT(30) DEF Farther
<1>6. color_distance(c, d) = r + g + b
  BY SMTT(30) DEF color_distance
<1>7. Farther \in Nat
  BY SMTT(30) DEF Farther
<1> HIDE DEF r, g, b, t
<1>8. r + g + b \in Nat /\ r + g + b < Farther
  BY <1>4, <1>5, <1>7, SMTT(30)
<1> QED
  BY <1>6, <1>8, Zenon

\* The code's choice, for any table of colours.
LEMMA ClosestIs ==
  ASSUME NEW table \in Seq(RGB), Desired \subseteq RGB
  PROVE  ClosestIsNearest(table)
<1>1. ASSUME NEW c \in Desired
      PROVE  LET i == Closest(table, c) + 1
             IN \A j \in 1..Len(table) :
                  /\ color_distance(c, table[i]) <= color_distance(c, table[j])
                  /\ color_distance(c, table[i]) = color_distance(c, table[j]) => i <= j
  <2> DEFINE m == Len(table)
             d == [j \in 1..m |-> color_distance(c, table[j])]
             u == CHOOSE g : Nearers(table, c, m, g)
             T == {i \in 0..m : IsNearest(d, i, u[i])}
             v == u[m]
  <2>1. m \in Nat /\ c \in RGB /\ \A j \in 1..m : table[j] \in RGB
    OBVIOUS
  <2>2. \A j \in 1..m : d[j] \in Nat /\ d[j] < Farther /\ d[j] = color_distance(c, table[j])
    BY <2>1, DistanceIs
  <2>3. Closest(table, c) = v.closest
    BY Zenon DEF Closest, Nearers
  <2>4. Nearers(table, c, m, u)
    BY <2>1, NearersExist, Zenon
  <2> HIDE DEF d, m, u
  <2>5. NearersTo(table, c, m, u)
    BY <2>1, <2>4, NearersBoth, Zenon
  <2>6. 0 \in T
    <3>1. u[0] = [closest |-> 0, best |-> Farther]
      BY <2>5, Zenon DEF NearersTo
    <3>2. Farther \in Nat
      BY SMTT(30) DEF Farther
    <3>3. IsNearest(d, 0, u[0])
      BY <3>1, <3>2, SMTT(30) DEF IsNearest, Found
    <3> QED
      BY <2>1, <3>3
  <2>7. ASSUME NEW i \in 1..m, i - 1 \in T
        PROVE  i \in T
    <3>1. i \in Nat \ {0} /\ i \in 0..m /\ \A j \in 1..i : j \in 1..m
      BY <2>1
    <3>2. IsNearest(d, i - 1, u[i - 1])
      BY <2>7
    <3>3. u[i] = Nearer(d[i], u[i - 1], i)
      <4>1. u[i] = Nearer(color_distance(c, table[i]), u[i - 1], i)
        BY <2>5, Zenon DEF NearersTo
      <4> QED
        BY <2>2, <4>1, Zenon
    <3>4. \A j \in 1..i : d[j] \in Nat /\ d[j] < Farther
      BY <2>2, <3>1, Zenon
    <3>5. IsNearest(d, i, Nearer(d[i], u[i - 1], i))
      BY <3>1, <3>2, <3>4, OneColourMore, Zenon
    <3> QED
      BY <3>1, <3>3, <3>5
  <2> HIDE DEF T
  <2>8. 0..m \subseteq T
    BY <2>1, <2>6, <2>7, Upwards
  <2>9. IsNearest(d, m, v)
    BY <2>1, <2>8 DEF T
  <2> HIDE DEF v
  <2>10. ASSUME NEW j \in 1..m
         PROVE  /\ color_distance(c, table[v.closest + 1]) <= color_distance(c, table[j])
                /\ color_distance(c, table[v.closest + 1]) = color_distance(c, table[j])
                     => v.closest + 1 <= j
    <3>1. v.best <= d[j] /\ (v.best = d[j] => v.closest + 1 <= j)
      BY <2>9, Zenon DEF IsNearest
    <3>2. m > 0
      BY <2>1
    <3>3. v.closest + 1 \in 1..m /\ v.best = d[v.closest + 1]
      BY <2>9, <3>2, Zenon DEF IsNearest
    <3>4. d[j] = color_distance(c, table[j])
          /\ d[v.closest + 1] = color_distance(c, table[v.closest + 1])
      BY <2>2, <3>3, Zenon
    <3> QED
      BY <3>1, <3>3, <3>4, Zenon
  <2> QED
    BY <2>3, <2>10, Zenon DEF m
<1> QED
  BY <1>1, Zenon DEF ClosestIsNearest

\* Those of text mode are a table too.
LEMMA ColoursOfText == ega_color_defs \in Seq(RGB)
<1>1. PICK z, s, a, f, n : z = 0 /\ s = 85 /\ a = 170 /\ f = 255 /\ n = 16
  BY SMTT(30)
<1> DEFINE V == {z, s, a, f}
<1>2. V \subseteq 0..255
  BY <1>1, SMTT(30)
<1>3. V \X V \X V \subseteq RGB
  BY <1>2, SMTT(30) DEF RGB
<1>4. ega_color_defs
        = << <<z, z, z>>, <<z, z, a>>, <<z, a, z>>, <<z, a, a>>,
             <<a, z, z>>, <<a, z, a>>, <<a, s, z>>, <<a, a, a>>,
             <<s, s, s>>, <<s, s, f>>, <<s, f, s>>, <<s, f, f>>,
             <<f, s, s>>, <<f, s, f>>, <<f, f, s>>, <<f, f, f>> >>
  BY <1>1, SMTT(30) DEF ega_color_defs
<1>5. ega_color_defs \in Seq(V \X V \X V)
  BY <1>4, SMTT(30)
<1> QED
  BY <1>3, <1>5, SMTT(30)

LEMMA ColoursAre ==
  ASSUME NEW f \in Format
  PROVE  NearestColours(f)
<1>1. Palette \in Seq(RGB) /\ Desired \subseteq RGB
  BY PictureAssumption, Zenon
<1>2. ClosestIsNearest(Palette) /\ ClosestIsNearest(ega_color_defs)
  BY <1>1, ColoursOfText, ClosestIs, Zenon
<1> QED
  BY <1>2, Zenon DEF NearestColours

(***************************************************************************)
(* For every framebuffer, font, palette and colour asked for: where a line *)
(* is whole pixels, clearing up and down covers the screen and shares the  *)
(* cell of the cursor, clearing it reaches each pixel and nothing outside, *)
(* /dev/fb is the screen line by line wherever a transfer begins and ends, *)
(* and the colour of a table is the first of the nearest.                  *)
(***************************************************************************)
THEOREM ScreenIsDrawn == Spec => []DrawsRight
<1>1. ScreenInit => EscapeInv
  BY BlockInit
<1>2. EscapeInv /\ [Next]_screenVars => EscapeInv'
  BY BlockStep
<1>3. EscapeInv => DrawsRight
  <2>1. EscapeInv => fb \in Format
    BY DEF EscapeInv, EscapeSound, ScreenTyped
  <2>2. fb \in Format => DrawnRight(fb) /\ NearestColours(fb)
    BY DrawnIs, ColoursAre
  <2> QED
    BY <2>1, <2>2, Zenon DEF DrawsRight
<1> QED
  BY <1>1, <1>2, <1>3, PTL DEF Spec
=============================================================================

------------------------------ MODULE TtyLine ------------------------------
(***************************************************************************)
(* What a terminal promises: characters wait in the order in which they    *)
(* were typed, a backspace takes the last one back, and a read gets the    *)
(* first line, or as much of it as it asked for, once the line is          *)
(* complete.  A raw read empties the terminal and says how much there was. *)
(***************************************************************************)
EXTENDS Naturals, Sequences

CONSTANTS
  Key,       \* characters
  Request    \* how many a read may ask for

VARIABLES
  pending,   \* what has been typed and not read
  result     \* what the last read got

lineVars == <<pending, result>>

Got(kind, want, data, count) ==
  [kind |-> kind, want |-> want, data |-> data, count |-> count]

LineInit == pending = <<>> /\ result = Got("none", 0, <<>>, 0)

Type == \E c \in Key : pending' = Append(pending, c) /\ UNCHANGED result

\* Whatever it is, the end of a line too.
Erase ==
  /\ pending # <<>>
  /\ pending' = SubSeq(pending, 1, Len(pending) - 1)
  /\ UNCHANGED result

\* The first line ends at k.
Read(n) ==
  \E k \in 1..Len(pending) :
    /\ pending[k] = "nl"
    /\ \A j \in 1..(k - 1) : pending[j] # "nl"
    /\ LET m == IF n < k THEN n ELSE k
       IN /\ result' = Got("line", n, SubSeq(pending, 1, m), m)
          /\ pending' = SubSeq(pending, m + 1, Len(pending))

\* What does not fit is gone.
ReadRaw(n) ==
  LET m == IF n < Len(pending) THEN n ELSE Len(pending)
  IN /\ result' = Got("raw", n, SubSeq(pending, 1, m), Len(pending))
     /\ pending' = <<>>

LineNext == Type \/ Erase \/ \E n \in Request : Read(n) \/ ReadRaw(n)

LineSpec == LineInit /\ [][LineNext]_lineVars
=============================================================================

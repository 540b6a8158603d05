-------------------------------- MODULE Pipe --------------------------------
(***************************************************************************)
(* The buffer of one pipe (src/arch/x86_64/c/interface/pipe.c): a ring of  *)
(* PIPE_SIZE bytes, where it is read, where it is written, and how many    *)
(* bytes are in it.  System calls run with interrupts off, so a call is    *)
(* one action.  The loops that copy byte after byte are given by what they *)
(* do to the ring; a caller's buffer may stop being mapped on the way, and *)
(* the page fault then ends the caller with the loop half done.            *)
(***************************************************************************)
EXTENDS Integers, Sequences

CONSTANTS
  Byte,       \* the bytes programs write, and Zero
  Zero,       \* what the new buffer is cleared with
  PIPE_SIZE,
  Request     \* the products size * nmemb of a call

ASSUME PipeAssumption ==
  /\ PIPE_SIZE \in Nat \ {0}
  /\ Zero \in Byte
  /\ Request \subseteq Nat

VARIABLES
  buffer,     \* the ring
  read_pos,
  write_pos,
  size,       \* the bytes in the ring
  result      \* what the last call returned

vars == <<buffer, read_pos, write_pos, size, result>>

\* A position that reaches the end starts again at 0.
Wrap(i) == IF i >= PIPE_SIZE THEN i - PIPE_SIZE ELSE i

\* The bytes in the ring, in the order they will be read.
Queue == [i \in 1..size |-> buffer[Wrap(read_pos + i - 1)]]

Fifo == INSTANCE PipeFifo WITH queue <- Queue

TypeOK ==
  /\ buffer \in [0..(PIPE_SIZE - 1) -> Byte]
  /\ read_pos \in 0..(PIPE_SIZE - 1)
  /\ write_pos \in 0..(PIPE_SIZE - 1)
  /\ size \in 0..PIPE_SIZE
  /\ result \in Fifo!Result

\* kpipe
Init ==
  /\ buffer = [i \in 0..(PIPE_SIZE - 1) |-> Zero]
  /\ read_pos = 0
  /\ write_pos = 0
  /\ size = 0
  /\ result = Fifo!Returned("none", <<>>, 0)

-----------------------------------------------------------------------------
\* Mutant: size is not decremented.
TakeOutKeepsSize(k) ==
  /\ read_pos' = Wrap(read_pos + k)
  /\ UNCHANGED <<buffer, write_pos, size>>

\* The loop of pipe_read gets k bytes out of the ring.
TakeOut(k) ==
  /\ read_pos' = Wrap(read_pos + k)
  /\ size' = size - k
  /\ UNCHANGED <<buffer, write_pos>>

\* Mutant: the position is moved before the byte is copied.
CopiedAfterMove(k) == [i \in 1..k |-> buffer[Wrap(read_pos + i)]]

\* The k bytes it copies.
Copied(k) == [i \in 1..k |-> buffer[Wrap(read_pos + i - 1)]]

pipe_read(n) ==
  LET k == Fifo!Lesser(n, size)
  IN /\ TakeOut(k)
     /\ result' = Fifo!Returned("read", Copied(k), k)

\* The store to the caller's buffer faults after k bytes.
pipe_read_fault(n) ==
  /\ \E k \in 0..(n - 1) : k < size /\ TakeOut(k)
  /\ result' = Fifo!Returned("killed", <<>>, 0)

\* Mutant: the test for a full pipe comes a byte late.
RoomForOneMore == PIPE_SIZE + 1 - size

Room == PIPE_SIZE - size

\* The loop of pipe_write puts the first k bytes of s into the ring: cell j
\* gets the byte that is as far from the start of s as j is from write_pos.
PutIn(s, k) ==
  /\ buffer' = [j \in 0..(PIPE_SIZE - 1) |->
                  LET d == IF j >= write_pos THEN j - write_pos
                                             ELSE j - write_pos + PIPE_SIZE
                  IN IF d < k THEN s[d + 1] ELSE buffer[j]]
  /\ write_pos' = Wrap(write_pos + k)
  /\ size' = size + k
  /\ UNCHANGED read_pos

pipe_write(s) ==
  LET k == Fifo!Lesser(Len(s), Room)
  IN PutIn(s, k) /\ result' = Fifo!Returned("write", <<>>, k)

\* The load from the caller's buffer faults after k bytes.
pipe_write_fault(s) ==
  /\ \E k \in 0..(Len(s) - 1) : k < Room /\ PutIn(s, k)
  /\ result' = Fifo!Returned("killed", <<>>, 0)

\* SELECT_READ and SELECT_WRITE; SELECT_ERROR is always 0.
pipe_select ==
  /\ \/ result' = Fifo!Returned("readable", <<>>, IF size > 0 THEN 1 ELSE 0)
     \/ result' = Fifo!Returned("writable", <<>>,
                                IF size < PIPE_SIZE THEN 1 ELSE 0)
  /\ UNCHANGED <<buffer, read_pos, write_pos, size>>

Next ==
  \/ \E n \in Request : pipe_read(n) \/ pipe_read_fault(n)
  \/ \E n \in Request : \E s \in [1..n -> Byte] :
       pipe_write(s) \/ pipe_write_fault(s)
  \/ pipe_select

Spec == Init /\ [][Next]_vars

-----------------------------------------------------------------------------
(***************************************************************************)
(* read_pos, write_pos and size are three counters for two facts; they     *)
(* agree after every read and write, also across the end of the ring and   *)
(* when the pipe is full or empty and both positions are equal             *)
(* (pipe.c:39-53, 69-86).                                                  *)
(***************************************************************************)
PositionsAgree == write_pos = Wrap(read_pos + size)

(***************************************************************************)
(* A pipe is a bounded FIFO queue: every byte written is read once and in  *)
(* order, partial reads and writes included, and select says whether the   *)
(* next call will move a byte (pipe.c:29-89, 148-164).                     *)
(***************************************************************************)
IsFifo == Fifo!FifoSpec
=============================================================================

------------------------------ MODULE PipeFifo ------------------------------
(***************************************************************************)
(* What a pipe promises its users: a bounded first-in first-out queue of   *)
(* bytes.  A write takes as many bytes as there is room for, a read gives  *)
(* as many as there are, and neither ever waits.                           *)
(***************************************************************************)
EXTENDS Integers, Sequences

CONSTANTS
  Byte,       \* the bytes programs write
  PIPE_SIZE,  \* how many a pipe holds
  Request     \* the sizes of the buffers programs pass

VARIABLES
  queue,   \* the bytes written and not yet read
  result   \* what the last call returned

Result == [call : {"none", "read", "write", "readable", "writable", "killed"},
           bytes : Seq(Byte),
           count : Nat]

Returned(call, bytes, count) ==
  [call |-> call, bytes |-> bytes, count |-> count]

Lesser(a, b) == IF a < b THEN a ELSE b

FifoInit ==
  /\ queue = <<>>
  /\ result = Returned("none", <<>>, 0)

\* The first k bytes are taken off; the reader gets them unless it is killed.
Take(k) == queue' = SubSeq(queue, k + 1, Len(queue))

Read(n) ==
  LET k == Lesser(n, Len(queue))
  IN /\ Take(k)
     /\ result' = Returned("read", SubSeq(queue, 1, k), k)

\* The first k bytes of s are added at the end.
Put(s, k) == queue' = queue \o SubSeq(s, 1, k)

Write(s) ==
  LET k == Lesser(Len(s), PIPE_SIZE - Len(queue))
  IN Put(s, k) /\ result' = Returned("write", <<>>, k)

\* A caller whose buffer is not mapped dies after some of its bytes.
Killed == result' = Returned("killed", <<>>, 0)
ReadKilled(n) ==
  \E k \in 0..(n - 1) : k < Len(queue) /\ Take(k) /\ Killed
WriteKilled(s) ==
  \E k \in 0..(Len(s) - 1) :
    k < PIPE_SIZE - Len(queue) /\ Put(s, k) /\ Killed

Readable ==
  /\ result' = Returned("readable", <<>>, IF queue # <<>> THEN 1 ELSE 0)
  /\ UNCHANGED queue
Writable ==
  /\ result' =
       Returned("writable", <<>>, IF Len(queue) < PIPE_SIZE THEN 1 ELSE 0)
  /\ UNCHANGED queue

FifoNext ==
  \/ \E n \in Request : Read(n) \/ ReadKilled(n)
  \/ \E n \in Request : \E s \in [1..n -> Byte] : Write(s) \/ WriteKilled(s)
  \/ Readable
  \/ Writable

FifoSpec == FifoInit /\ [][FifoNext]_<<queue, result>>
=============================================================================

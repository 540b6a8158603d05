--------------------------- MODULE OpenFileProofs ---------------------------
(***************************************************************************)
(* What is behind a descriptor.                                            *)
(*                                                                         *)
(* The pipe: its counters agree and it implements PipeFifo, for every      *)
(* PIPE_SIZE, set of bytes and set of requests.                            *)
(*                                                                         *)
(* The ramdisk's open files and the device files: what a descriptor needs  *)
(* is there until it is closed, for any number of processes, descriptors   *)
(* and blocks.  A list owns the blocks that its descriptors lead to, and   *)
(* no two lists own the same one; so a call is followed through the blocks *)
(* of its process only, and what it opens is free before.  Within says so  *)
(* of a whole call, and Adds and Drops of one descriptor.                  *)
(***************************************************************************)
EXTENDS Pipe, Files, SequenceTheorems, FiniteSetTheorems, FunctionTheorems,
        WellFoundedInduction, TLAPS

PipeInv == TypeOK /\ PositionsAgree

LEMMA Split ==
  ASSUME NEW S, NEW q \in Seq(S), NEW n \in Nat, Len(q) = n, NEW k \in 0..n
  PROVE  /\ SubSeq(q, k + 1, Len(q)) = [i \in 1..(n - k) |-> q[i + k]]
         /\ SubSeq(q, 1, k) = [i \in 1..k |-> q[i]]
<1>1. SubSeq(q, k + 1, n) = [i \in 1..(n - k) |-> q[i + k]]
  OBVIOUS
<1>2. SubSeq(q, 1, k) = [i \in 1..k |-> q[i]]
  OBVIOUS
<1> QED
  BY <1>1, <1>2

LEMMA Concatenated ==
  ASSUME NEW S, NEW a \in Seq(S), NEW b \in Seq(S)
  PROVE  a \o b = [i \in 1..(Len(a) + Len(b)) |->
                     IF i <= Len(a) THEN a[i] ELSE b[i - Len(a)]]
<1> DEFINE c == [i \in 1..(Len(a) + Len(b)) |->
                   IF i <= Len(a) THEN a[i] ELSE b[i - Len(a)]]
<1>1. Len(a) \in Nat /\ Len(b) \in Nat
  OBVIOUS
<1>2. \A i \in 1..(Len(a) + Len(b)) :
        (IF i <= Len(a) THEN a[i] ELSE b[i - Len(a)]) \in S
  OBVIOUS
<1>3. c \in Seq(S) /\ Len(c) = Len(a) + Len(b)
  BY <1>1, <1>2
<1>4. a \o b \in Seq(S) /\ Len(a \o b) = Len(a) + Len(b)
  OBVIOUS
<1>5. \A i \in 1..(Len(a) + Len(b)) : (a \o b)[i] = c[i]
  OBVIOUS
<1> HIDE DEF c
<1>6. a \o b = c
  BY <1>3, <1>4, <1>5, SeqEqual
<1> QED
  BY <1>6 DEF c

(***************************************************************************)
(* What the ring's positions are, put in one place.                        *)
(***************************************************************************)
LEMMA WrapRange ==
  ASSUME NEW p \in 0..(PIPE_SIZE - 1), NEW d \in 0..PIPE_SIZE
  PROVE  Wrap(p + d) \in 0..(PIPE_SIZE - 1)
BY PipeAssumption DEF Wrap

LEMMA WrapAdds ==
  ASSUME NEW p \in 0..(PIPE_SIZE - 1), NEW d \in 0..PIPE_SIZE,
         NEW e \in 0..PIPE_SIZE, d + e <= PIPE_SIZE
  PROVE  Wrap(Wrap(p + d) + e) = Wrap(p + (d + e))
BY PipeAssumption DEF Wrap

LEMMA QueueType ==
  ASSUME TypeOK
  PROVE  /\ Queue \in Seq(Byte)
         /\ Len(Queue) = size
         /\ \A i \in 1..size : Queue[i] = buffer[Wrap(read_pos + i - 1)]
<1>1. \A i \in 1..size : Wrap(read_pos + i - 1) \in 0..(PIPE_SIZE - 1)
  BY PipeAssumption DEF TypeOK, Wrap
<1>2. size \in Nat
  BY PipeAssumption DEF TypeOK
<1>3. \A i \in 1..size : buffer[Wrap(read_pos + i - 1)] \in Byte
  BY <1>1 DEF TypeOK
<1> QED
  BY <1>2, <1>3 DEF Queue

(***************************************************************************)
(* Taking k bytes out of the ring takes them off the queue.                *)
(***************************************************************************)
LEMMA TakeOutTakes ==
  ASSUME PipeInv, NEW k \in 0..size, TakeOut(k)
  PROVE  /\ read_pos' \in 0..(PIPE_SIZE - 1)
         /\ size' \in 0..PIPE_SIZE
         /\ PositionsAgree'
         /\ Queue' = SubSeq(Queue, k + 1, Len(Queue))
         /\ Copied(k) = SubSeq(Queue, 1, k)
<1> USE PipeAssumption
<1>1. /\ read_pos' = Wrap(read_pos + k)
      /\ size' = size - k
      /\ buffer' = buffer
      /\ write_pos' = write_pos
  BY DEF TakeOut
<1>2. /\ read_pos \in 0..(PIPE_SIZE - 1)
      /\ size \in 0..PIPE_SIZE
      /\ k \in 0..PIPE_SIZE
      /\ write_pos = Wrap(read_pos + size)
  BY DEF PipeInv, TypeOK, PositionsAgree
<1>3. read_pos' \in 0..(PIPE_SIZE - 1)
  BY <1>1, <1>2, WrapRange
<1>4. size' \in 0..PIPE_SIZE
  BY <1>1, <1>2
<1>5. PositionsAgree'
  <2>1. Wrap(Wrap(read_pos + k) + (size - k)) = Wrap(read_pos + size)
    BY <1>2 DEF Wrap
  <2> QED
    BY <1>1, <1>2, <2>1 DEF PositionsAgree, Wrap
<1>6. Queue \in Seq(Byte) /\ Len(Queue) = size
      /\ \A i \in 1..size : Queue[i] = buffer[Wrap(read_pos + i - 1)]
  BY QueueType DEF PipeInv
<1>7. Queue' = [i \in 1..(size - k) |-> Queue[i + k]]
  <2>1. Queue' = [i \in 1..(size - k) |-> buffer[Wrap(Wrap(read_pos + k) + i - 1)]]
    BY <1>1 DEF Queue, Wrap
  <2>2. ASSUME NEW i \in 1..(size - k)
        PROVE  buffer[Wrap(Wrap(read_pos + k) + i - 1)] = Queue[i + k]
    <3>1. Wrap(Wrap(read_pos + k) + i - 1) = Wrap(read_pos + (i + k) - 1)
      BY <1>2 DEF Wrap
    <3>2. i + k \in 1..size
      BY <1>2
    <3> QED
      BY <1>6, <3>1, <3>2
  <2> QED
    BY <2>1, <2>2
<1>8. /\ SubSeq(Queue, k + 1, Len(Queue)) = [i \in 1..(size - k) |-> Queue[i + k]]
      /\ SubSeq(Queue, 1, k) = [i \in 1..k |-> Queue[i]]
  <2>1. size \in Nat /\ k \in 0..size
    BY <1>2
  <2>2. Queue \in Seq(Byte) /\ Len(Queue) = size
    BY <1>6
  <2> QED
    BY <2>1, <2>2, Split
<1>10. Copied(k) = [i \in 1..k |-> Queue[i]]
  <2>1. \A i \in 1..k : Queue[i] = buffer[Wrap(read_pos + i - 1)]
    BY <1>2, <1>6
  <2> QED
    BY <2>1 DEF Copied
<1> QED
  BY <1>3, <1>4, <1>5, <1>7, <1>8, <1>10

(***************************************************************************)
(* Putting the first k bytes of s into the ring adds them to the queue.    *)
(***************************************************************************)
LEMMA PutInPuts ==
  ASSUME PipeInv, NEW s \in Seq(Byte), NEW k \in 0..Len(s),
         k <= PIPE_SIZE - size, PutIn(s, k)
  PROVE  /\ buffer' \in [0..(PIPE_SIZE - 1) -> Byte]
         /\ write_pos' \in 0..(PIPE_SIZE - 1)
         /\ size' \in 0..PIPE_SIZE
         /\ PositionsAgree'
         /\ Queue' = Queue \o SubSeq(s, 1, k)
<1> USE PipeAssumption
<1> DEFINE Back(j) == IF j >= write_pos THEN j - write_pos
                                        ELSE j - write_pos + PIPE_SIZE
<1>1. /\ buffer' = [j \in 0..(PIPE_SIZE - 1) |->
                      IF Back(j) < k THEN s[Back(j) + 1] ELSE buffer[j]]
      /\ write_pos' = Wrap(write_pos + k)
      /\ size' = size + k
      /\ read_pos' = read_pos
  BY DEF PutIn
<1>2. /\ read_pos \in 0..(PIPE_SIZE - 1)
      /\ write_pos \in 0..(PIPE_SIZE - 1)
      /\ size \in 0..PIPE_SIZE
      /\ k \in 0..PIPE_SIZE
      /\ size + k <= PIPE_SIZE
      /\ write_pos = Wrap(read_pos + size)
      /\ buffer \in [0..(PIPE_SIZE - 1) -> Byte]
  BY DEF PipeInv, TypeOK, PositionsAgree
<1>3. \A j \in 0..(PIPE_SIZE - 1) : Back(j) \in 0..(PIPE_SIZE - 1)
  BY <1>2
<1>4. \A d \in 0..(k - 1) : s[d + 1] \in Byte
  OBVIOUS
<1>5. buffer' \in [0..(PIPE_SIZE - 1) -> Byte]
  <2> HIDE DEF Back
  <2>1. ASSUME NEW j \in 0..(PIPE_SIZE - 1)
        PROVE  (IF Back(j) < k THEN s[Back(j) + 1] ELSE buffer[j]) \in Byte
    <3>1. Back(j) < k => Back(j) \in 0..(k - 1)
      BY <1>3
    <3> QED
      BY <1>2, <1>4, <3>1
  <2> QED
    BY <1>1, <2>1
<1>6. write_pos' \in 0..(PIPE_SIZE - 1)
  BY <1>1, <1>2, WrapRange
<1>7. size' \in 0..PIPE_SIZE
  BY <1>1, <1>2
<1>8. PositionsAgree'
  <2>1. Wrap(Wrap(read_pos + size) + k) = Wrap(read_pos + (size + k))
    BY <1>2, WrapAdds
  <2> QED
    BY <1>1, <1>2, <2>1 DEF PositionsAgree, Wrap
<1>9. Queue \in Seq(Byte) /\ Len(Queue) = size
      /\ \A i \in 1..size : Queue[i] = buffer[Wrap(read_pos + i - 1)]
  BY QueueType DEF PipeInv
<1>10. SubSeq(s, 1, k) \in Seq(Byte) /\ Len(SubSeq(s, 1, k)) = k
       /\ \A i \in 1..k : SubSeq(s, 1, k)[i] = s[i]
  OBVIOUS
<1>11. Queue \o SubSeq(s, 1, k) =
         [i \in 1..(size + k) |-> IF i <= size THEN Queue[i] ELSE s[i - size]]
  <2> DEFINE t == SubSeq(s, 1, k)
  <2>1. Queue \o t = [i \in 1..(size + k) |->
                        IF i <= size THEN Queue[i] ELSE t[i - size]]
    <3> HIDE DEF t
    <3>1. t \in Seq(Byte) /\ Len(t) = k
      BY <1>10 DEF t
    <3>4. Queue \in Seq(Byte) /\ t \in Seq(Byte)
      BY <1>9, <3>1
    <3>2. Queue \o t = [i \in 1..(Len(Queue) + Len(t)) |->
                          IF i <= Len(Queue) THEN Queue[i] ELSE t[i - Len(Queue)]]
      BY <3>4, Concatenated
    <3>3. Len(Queue) = size
      BY <1>9
    <3> QED
      BY <3>1, <3>2, <3>3, Zenon
  <2>2. \A i \in 1..(size + k) : i > size => t[i - size] = s[i - size]
    BY <1>2, <1>10
  <2> HIDE DEF t
  <2>3. \A i \in 1..(size + k) :
          (IF i <= size THEN Queue[i] ELSE t[i - size])
            = (IF i <= size THEN Queue[i] ELSE s[i - size])
    BY <1>2, <2>2
  <2>4. Queue \o t = [i \in 1..(size + k) |->
                        IF i <= size THEN Queue[i] ELSE s[i - size]]
    BY <2>1, <2>3
  <2> QED
    BY <2>4 DEF t
<1>12. Queue' = [i \in 1..(size + k) |->
                   IF i <= size THEN Queue[i] ELSE s[i - size]]
  <2>1. Queue' = [i \in 1..(size + k) |-> buffer'[Wrap(read_pos + i - 1)]]
    BY <1>1 DEF Queue, Wrap
  <2>2. ASSUME NEW i \in 1..(size + k)
        PROVE  buffer'[Wrap(read_pos + i - 1)] =
                 (IF i <= size THEN Queue[i] ELSE s[i - size])
    <3> DEFINE c == Wrap(read_pos + i - 1)
    <3>1. c \in 0..(PIPE_SIZE - 1)
      BY <1>2 DEF Wrap
    <3>2. buffer'[c] = IF Back(c) < k THEN s[Back(c) + 1] ELSE buffer[c]
      <4> HIDE DEF c, Back
      <4> QED
        BY <1>1, <3>1
    <3>3. i <= size => ~(Back(c) < k)
      BY <1>2 DEF Wrap
    <3>4. i > size => Back(c) = i - size - 1
      BY <1>2 DEF Wrap
    <3>5. i <= size => Queue[i] = buffer[c]
      BY <1>2, <1>9
    <3> HIDE DEF c, Back
    <3>6. i > size => /\ Back(c) < k
                      /\ s[Back(c) + 1] = s[i - size]
      BY <1>2, <3>4
    <3>7. buffer'[c] = (IF i <= size THEN Queue[i] ELSE s[i - size])
      BY <1>2, <3>2, <3>3, <3>5, <3>6
    <3> QED
      BY <3>7 DEF c
  <2> QED
    BY <2>1, <2>2
<1> QED
  BY <1>5, <1>6, <1>7, <1>8, <1>11, <1>12

(***************************************************************************)
(* What is known of a write's bytes, and of the lesser of two numbers.     *)
(***************************************************************************)
LEMMA RequestBytes ==
  ASSUME NEW n \in Request, NEW s \in [1..n -> Byte]
  PROVE  n \in Nat /\ s \in Seq(Byte) /\ Len(s) = n
BY PipeAssumption

LEMMA LesserIsLesser ==
  ASSUME NEW a \in Nat, NEW b \in Nat
  PROVE  /\ Fifo!Lesser(a, b) \in 0..a
         /\ Fifo!Lesser(a, b) \in 0..b
BY DEF Fifo!Lesser

(***************************************************************************)
(* Every step of the ring keeps the invariant and is a step of the queue.  *)
(***************************************************************************)
LEMMA ReadStep ==
  ASSUME PipeInv, NEW n \in Request, pipe_read(n)
  PROVE  PipeInv' /\ Fifo!Read(n)
<1> USE PipeAssumption
<1> DEFINE k == Fifo!Lesser(n, size)
<1>1. n \in Nat /\ size \in Nat
  BY DEF PipeInv, TypeOK
<1>2. k \in 0..size /\ k \in Nat
  BY <1>1, LesserIsLesser
<1>3. TakeOut(k) /\ result' = Fifo!Returned("read", Copied(k), k)
  BY DEF pipe_read
<1> HIDE DEF k
<1>4. /\ read_pos' \in 0..(PIPE_SIZE - 1)
      /\ size' \in 0..PIPE_SIZE
      /\ PositionsAgree'
      /\ Queue' = SubSeq(Queue, k + 1, Len(Queue))
      /\ Copied(k) = SubSeq(Queue, 1, k)
  BY <1>2, <1>3, TakeOutTakes
<1>5. Queue \in Seq(Byte) /\ Len(Queue) = size
  BY QueueType DEF PipeInv
<1>6. Copied(k) \in Seq(Byte)
  BY <1>2, <1>4, <1>5
<1>7. result' \in Fifo!Result
  BY <1>2, <1>3, <1>6 DEF Fifo!Result, Fifo!Returned
<1>8. PipeInv'
  BY <1>3, <1>4, <1>7 DEF PipeInv, TypeOK, TakeOut
<1>9. Fifo!Read(n)
  <2>1. result' = Fifo!Returned("read", SubSeq(Queue, 1, k), k)
    BY <1>3, <1>4
  <2>2. k = Fifo!Lesser(n, Len(Queue))
    BY <1>5 DEF k
  <2> QED
    BY <1>4, <2>1, <2>2 DEF Fifo!Read, Fifo!Take
<1> QED
  BY <1>8, <1>9

LEMMA ReadFaultStep ==
  ASSUME PipeInv, NEW n \in Request, pipe_read_fault(n)
  PROVE  PipeInv' /\ Fifo!ReadKilled(n)
<1> USE PipeAssumption
<1>1. PICK k \in 0..(n - 1) : k < size /\ TakeOut(k)
  BY DEF pipe_read_fault
<1>2. result' = Fifo!Returned("killed", <<>>, 0)
  BY DEF pipe_read_fault
<1>3. k \in 0..size
  BY <1>1 DEF PipeInv, TypeOK
<1>4. /\ read_pos' \in 0..(PIPE_SIZE - 1)
      /\ size' \in 0..PIPE_SIZE
      /\ PositionsAgree'
      /\ Queue' = SubSeq(Queue, k + 1, Len(Queue))
  BY <1>1, <1>3, TakeOutTakes
<1>5. Len(Queue) = size
  BY QueueType DEF PipeInv
<1>6. result' \in Fifo!Result
  BY <1>2 DEF Fifo!Result, Fifo!Returned
<1>7. PipeInv'
  BY <1>1, <1>4, <1>6 DEF PipeInv, TypeOK, TakeOut
<1>8. Fifo!ReadKilled(n)
  <2>1. k \in 0..(n - 1) /\ k < Len(Queue)
    BY <1>1, <1>5
  <2> QED
    BY <1>2, <1>4, <2>1
       DEF Fifo!ReadKilled, Fifo!Take, Fifo!Killed
<1> QED
  BY <1>7, <1>8

LEMMA WriteStep ==
  ASSUME PipeInv, NEW n \in Request, NEW s \in [1..n -> Byte], pipe_write(s)
  PROVE  PipeInv' /\ Fifo!Write(s)
<1> USE PipeAssumption
<1> DEFINE k == Fifo!Lesser(Len(s), Room)
<1>1. s \in Seq(Byte) /\ Len(s) \in Nat
  BY RequestBytes
<1>2. Room \in Nat /\ size \in Nat
  BY DEF PipeInv, TypeOK, Room
<1>3. k \in 0..Len(s) /\ k \in 0..Room
  BY <1>1, <1>2, LesserIsLesser
<1>4. PutIn(s, k) /\ result' = Fifo!Returned("write", <<>>, k)
  BY DEF pipe_write
<1> HIDE DEF k
<1>5. k <= PIPE_SIZE - size
  BY <1>2, <1>3 DEF Room
<1>6. /\ buffer' \in [0..(PIPE_SIZE - 1) -> Byte]
      /\ write_pos' \in 0..(PIPE_SIZE - 1)
      /\ size' \in 0..PIPE_SIZE
      /\ PositionsAgree'
      /\ Queue' = Queue \o SubSeq(s, 1, k)
  BY <1>1, <1>3, <1>4, <1>5, PutInPuts
<1>7. result' \in Fifo!Result
  BY <1>3, <1>4 DEF Fifo!Result, Fifo!Returned
<1>8. PipeInv'
  BY <1>4, <1>6, <1>7 DEF PipeInv, TypeOK, PutIn
<1>9. Fifo!Write(s)
  <2>1. k = Fifo!Lesser(Len(s), PIPE_SIZE - Len(Queue))
    BY QueueType DEF k, Room, PipeInv
  <2> QED
    BY <1>4, <1>6, <2>1 DEF Fifo!Write, Fifo!Put
<1> QED
  BY <1>8, <1>9

LEMMA WriteFaultStep ==
  ASSUME PipeInv, NEW n \in Request, NEW s \in [1..n -> Byte],
         pipe_write_fault(s)
  PROVE  PipeInv' /\ Fifo!WriteKilled(s)
<1> USE PipeAssumption
<1>1. s \in Seq(Byte) /\ Len(s) \in Nat
  BY RequestBytes
<1>2. PICK k \in 0..(Len(s) - 1) : k < Room /\ PutIn(s, k)
  BY DEF pipe_write_fault
<1>3. result' = Fifo!Returned("killed", <<>>, 0)
  BY DEF pipe_write_fault
<1>4. k \in 0..Len(s) /\ k <= PIPE_SIZE - size /\ k < PIPE_SIZE - size
  BY <1>1, <1>2 DEF Room, PipeInv, TypeOK
<1>5. /\ buffer' \in [0..(PIPE_SIZE - 1) -> Byte]
      /\ write_pos' \in 0..(PIPE_SIZE - 1)
      /\ size' \in 0..PIPE_SIZE
      /\ PositionsAgree'
      /\ Queue' = Queue \o SubSeq(s, 1, k)
  BY <1>1, <1>2, <1>4, PutInPuts
<1>6. result' \in Fifo!Result
  BY <1>3 DEF Fifo!Result, Fifo!Returned
<1>7. PipeInv'
  BY <1>2, <1>5, <1>6 DEF PipeInv, TypeOK, PutIn
<1>8. Fifo!WriteKilled(s)
  <2>1. k \in 0..(Len(s) - 1) /\ k < PIPE_SIZE - Len(Queue)
    BY <1>2, <1>4, QueueType DEF PipeInv
  <2> QED
    BY <1>3, <1>5, <2>1
       DEF Fifo!WriteKilled, Fifo!Put, Fifo!Killed
<1> QED
  BY <1>7, <1>8

LEMMA SelectStep ==
  ASSUME PipeInv, pipe_select
  PROVE  PipeInv' /\ (Fifo!Readable \/ Fifo!Writable)
<1> USE PipeAssumption
<1>1. UNCHANGED <<buffer, read_pos, write_pos, size>>
  BY DEF pipe_select
<1>2. Queue' = Queue
  BY <1>1 DEF Queue, Wrap
<1>3. Queue \in Seq(Byte) /\ Len(Queue) = size /\ size \in Nat
  BY QueueType DEF PipeInv, TypeOK
<1>4. size > 0 <=> Queue # <<>>
  BY <1>3
<1>5. result' \in Fifo!Result
  <2>1. (IF size > 0 THEN 1 ELSE 0) \in Nat
        /\ (IF size < PIPE_SIZE THEN 1 ELSE 0) \in Nat
    OBVIOUS
  <2>2. \A c \in {"readable", "writable"}, m \in Nat :
          Fifo!Returned(c, <<>>, m) \in Fifo!Result
    BY DEF Fifo!Result, Fifo!Returned
  <2> QED
    BY <2>1, <2>2 DEF pipe_select
<1>6. PipeInv'
  BY <1>1, <1>5 DEF PipeInv, TypeOK, PositionsAgree, Wrap
<1>7. CASE result' = Fifo!Returned("readable", <<>>, IF size > 0 THEN 1 ELSE 0)
  <2>1. result' = Fifo!Returned("readable", <<>>, IF Queue # <<>> THEN 1 ELSE 0)
    BY <1>4, <1>7
  <2> QED
    BY <1>2, <1>6, <2>1 DEF Fifo!Readable
<1>8. CASE result' = Fifo!Returned("writable", <<>>,
                                   IF size < PIPE_SIZE THEN 1 ELSE 0)
  <2>1. result' = Fifo!Returned("writable", <<>>,
                                IF Len(Queue) < PIPE_SIZE THEN 1 ELSE 0)
    BY <1>3, <1>8
  <2> QED
    BY <1>2, <1>6, <2>1 DEF Fifo!Writable
<1> QED
  BY <1>7, <1>8 DEF pipe_select

LEMMA PipeStep ==
  ASSUME PipeInv, [Next]_vars
  PROVE  PipeInv' /\ [Fifo!FifoNext]_<<Queue, result>>
<1>1. ASSUME NEW n \in Request, pipe_read(n)
      PROVE  PipeInv' /\ Fifo!FifoNext
  BY <1>1, ReadStep DEF Fifo!FifoNext
<1>2. ASSUME NEW n \in Request, pipe_read_fault(n)
      PROVE  PipeInv' /\ Fifo!FifoNext
  BY <1>2, ReadFaultStep DEF Fifo!FifoNext
<1>3. ASSUME NEW n \in Request, NEW s \in [1..n -> Byte], pipe_write(s)
      PROVE  PipeInv' /\ Fifo!FifoNext
  BY <1>3, WriteStep DEF Fifo!FifoNext
<1>4. ASSUME NEW n \in Request, NEW s \in [1..n -> Byte], pipe_write_fault(s)
      PROVE  PipeInv' /\ Fifo!FifoNext
  BY <1>4, WriteFaultStep DEF Fifo!FifoNext
<1>5. CASE pipe_select
  BY <1>5, SelectStep DEF Fifo!FifoNext
<1>6. CASE UNCHANGED vars
  BY <1>6 DEF vars, PipeInv, TypeOK, PositionsAgree, Queue, Wrap
<1> QED
  BY <1>1, <1>2, <1>3, <1>4, <1>5, <1>6 DEF Next

LEMMA PipeStart ==
  ASSUME Init
  PROVE  PipeInv /\ Fifo!FifoInit
<1> USE PipeAssumption
<1>1. TypeOK
  BY DEF Init, TypeOK, Fifo!Result, Fifo!Returned
<1>2. PositionsAgree
  BY DEF Init, PositionsAgree, Wrap
<1>3. Queue = <<>>
  <2>1. Queue \in Seq(Byte) /\ Len(Queue) = 0
    BY <1>1, QueueType DEF Init
  <2> QED
    BY <2>1
<1> QED
  BY <1>1, <1>2, <1>3 DEF PipeInv, Fifo!FifoInit, Init

-----------------------------------------------------------------------------
(***************************************************************************)
(* The ring's positions and its size stay in their ranges (pipe.c:29-89).  *)
(***************************************************************************)
THEOREM PipeTypeCorrect == Spec => []TypeOK
<1>1. PipeInv /\ [Next]_vars => PipeInv'
  BY PipeStep
<1> QED
  BY <1>1, PipeStart, PTL DEF Spec, PipeInv

(***************************************************************************)
(* write_pos is where read_pos and size say it is.                         *)
(***************************************************************************)
THEOREM PositionsAlwaysAgree == Spec => []PositionsAgree
<1>1. PipeInv /\ [Next]_vars => PipeInv'
  BY PipeStep
<1> QED
  BY <1>1, PipeStart, PTL DEF Spec, PipeInv

(***************************************************************************)
(* The ring implements the bounded FIFO queue.                             *)
(***************************************************************************)
THEOREM PipeIsFifo == Spec => IsFifo
<1>1. PipeInv /\ [Next]_vars => PipeInv'
  BY PipeStep
<1>2. PipeInv /\ [Next]_vars => [Fifo!FifoNext]_<<Queue, result>>
  BY PipeStep
<1>3. Init => PipeInv /\ Fifo!FifoInit
  BY PipeStart
<1> QED
  BY <1>1, <1>2, <1>3, PTL DEF Spec, IsFifo, Fifo!FifoSpec

-----------------------------------------------------------------------------
(* Numbers.                                                                *)

LEMMA LeastIsLeast ==
  ASSUME NEW S, S \subseteq Nat, S # {}
  PROVE  Least(S) \in S /\ \A j \in S : Least(S) <= j
<1>1. \E k \in S : \A j \in S : ~(<<j, k>> \in OpToRel(<, Nat))
  BY NatLessThanWellFounded, WFMin
<1>2. OpToRel(<, Nat) = {ss \in Nat \X Nat : ss[1] < ss[2]}
  BY Zenon DEF OpToRel
<1>3. \A j, k \in Nat :
        <<j, k>> \in {ss \in Nat \X Nat : ss[1] < ss[2]} <=> j < k
  OBVIOUS
<1>4. \E k \in S : \A j \in S : ~(j < k)
  BY <1>1, <1>2, <1>3, Zenon
<1>5. \E k \in S : \A j \in S : k <= j
  BY <1>4
<1> QED
  BY <1>5 DEF Least

LEMMA Upwards ==
  ASSUME NEW n \in Nat, NEW T, 0 \in T,
         \A i \in 1..n : i - 1 \in T => i \in T
  PROVE  0..n \subseteq T
<1> DEFINE missing == {i \in 0..n : i \notin T}
<1>1. SUFFICES ASSUME missing # {} PROVE FALSE
  BY DEF missing
<1>2. missing \subseteq Nat
  BY DEF missing
<1> HIDE DEF missing
<1>3. PICK k \in missing : \A j \in missing : k <= j
  BY <1>1, <1>2, LeastIsLeast
<1>4. k \in 0..n /\ k \notin T
  BY <1>3 DEF missing
<1>5. k \in 1..n
  BY <1>4
<1>6. k - 1 \notin missing
  BY <1>3, <1>5
<1>7. k - 1 \in T
  BY <1>5, <1>6 DEF missing
<1> QED
  BY <1>4, <1>5, <1>7

-----------------------------------------------------------------------------
(* Blocks and descriptors.                                                 *)

IsFile(v) ==
  v \in [kind : {"file"}, file : {v.file}, read_pos : {v.read_pos},
         dependents : Int, asked : {v.asked}]
IsFb(v) == v \in [kind : {"fb"}, dependents : Int]
IsTty(v) == v \in [kind : {"tty"}, dependents : Int]
IsDeviceFile(v) ==
  v \in [kind : {"device"}, device : {"fb", "kb", "tty"}, data : 0..Blocks,
         dependents : Int]

\* What stays when the device is not opened, or not cloned.
IsLeft(v) ==
  v \in [kind : {"device"}, device : {"xd", "none"}, data : {NULL}, dependents : Int]

IsUsed(v) == IsFile(v) \/ IsFb(v) \/ IsTty(v) \/ IsDeviceFile(v)
IsBlock(v) == v = Free \/ IsLeft(v) \/ IsUsed(v)

IsHeap(h) ==
  /\ DOMAIN h = 1..Blocks /\ h = [b \in 1..Blocks |-> h[b]]
  /\ \A b \in 1..Blocks : IsBlock(h[b])

OpenDescriptor == [descriptor_id : Int, device : {"ramdisk", "devices"}, data : 0..Blocks]

\* The block that a descriptor shares with its duplicates.
Uses(h, e) ==
  IF e.device = "ramdisk" THEN e.data
  ELSE IF e.data = NULL THEN NULL
  ELSE h[e.data].data

\* What a descriptor needs.
Holds(h, e) ==
  IF e.device = "ramdisk" THEN e.data \in 1..Blocks /\ IsFile(h[e.data])
  ELSE e.data # NULL =>
         /\ IsDeviceFile(h[e.data])
         /\ \/ h[e.data].device = "kb" /\ h[e.data].data = NULL
            \/ /\ h[e.data].device = "fb" /\ h[e.data].data \in 1..Blocks
               /\ IsFb(h[h[e.data].data])
            \/ /\ h[e.data].device = "tty" /\ h[e.data].data \in 1..Blocks
               /\ IsTty(h[h[e.data].data])

\* The descriptors of a list that share b.
Users(h, list, b) == {k \in 1..Len(list) : Uses(h, list[k]) = b}

\* n descriptors are counted.
CountsFor(v, n) == v.dependents >= n /\ (v.kind = "fb" => v.dependents = n)

\* No device file is that of another descriptor.
Apart(list) ==
  \A j, k \in 1..Len(list) :
    /\ j # k
    /\ list[j].device = "devices" /\ list[k].device = "devices"
    /\ list[j].data = list[k].data
    => list[j].data = NULL

ListSound(h, list) ==
  /\ list \in Seq(OpenDescriptor)
  /\ \A k \in 1..Len(list) : Holds(h, list[k])
  /\ Apart(list)
  /\ \A b \in 1..Blocks :
       Users(h, list, b) # {} => CountsFor(h[b], Cardinality(Users(h, list, b)))

Owned(h, list) ==
  ({list[k].data : k \in 1..Len(list)} \cup {Uses(h, list[k]) : k \in 1..Len(list)})
    \ {NULL}

LEMMA SizeTypes == Blocks \in Nat /\ MaxOpen \in Nat /\ MaxFd \in Nat /\ NULL = 0
BY FilesAssumption DEF NULL

LEMMA EntryFields ==
  ASSUME NEW e \in OpenDescriptor
  PROVE  /\ e.device = "ramdisk" \/ e.device = "devices"
         /\ e.data = NULL \/ e.data \in 1..Blocks
         /\ e.descriptor_id \in Int /\ e.data \in 0..Blocks
BY SizeTypes DEF OpenDescriptor

LEMMA EntriesOf ==
  ASSUME NEW list \in Seq(OpenDescriptor)
  PROVE  /\ Len(list) \in Nat
         /\ \A k \in 1..Len(list) :
              /\ list[k] \in OpenDescriptor
              /\ list[k].device = "ramdisk" \/ list[k].device = "devices"
              /\ list[k].data = NULL \/ list[k].data \in 1..Blocks
<1>1. Len(list) \in Nat /\ \A k \in 1..Len(list) : list[k] \in OpenDescriptor
  OBVIOUS
<1> QED
  BY <1>1, EntryFields

\* What is used is a block that is not free.
LEMMA UsesBlock ==
  ASSUME NEW h, NEW e \in OpenDescriptor, Holds(h, e)
  PROVE  /\ Uses(h, e) = NULL \/ Uses(h, e) \in 1..Blocks
         /\ Uses(h, e) # NULL =>
              IsFile(h[Uses(h, e)]) \/ IsFb(h[Uses(h, e)]) \/ IsTty(h[Uses(h, e)])
BY EntryFields DEF Holds, Uses

LEMMA FreeBlocks ==
  ASSUME NEW v, IsFile(v) \/ IsFb(v) \/ IsTty(v) \/ IsDeviceFile(v)
  PROVE  /\ v # Free
         /\ IsDeviceFile(v) => ~IsFile(v) /\ ~IsFb(v) /\ ~IsTty(v)
BY DEF IsFile, IsFb, IsTty, IsDeviceFile, Free

LEMMA DataBlock ==
  ASSUME NEW h, NEW e \in OpenDescriptor, Holds(h, e), e.data # NULL
  PROVE  e.data \in 1..Blocks /\ (IsFile(h[e.data]) \/ IsDeviceFile(h[e.data]))
BY EntryFields DEF Holds

LEMMA OwnedIs ==
  ASSUME NEW h, NEW list, ListSound(h, list)
  PROVE  /\ Owned(h, list) \subseteq 1..Blocks
         /\ \A b \in Owned(h, list) : h[b] # Free
         /\ \A k \in 1..Len(list) :
              /\ list[k].data # NULL => list[k].data \in Owned(h, list)
              /\ Uses(h, list[k]) # NULL => Uses(h, list[k]) \in Owned(h, list)
<1>1. list \in Seq(OpenDescriptor) /\ \A k \in 1..Len(list) : Holds(h, list[k])
  BY DEF ListSound
<1>2. \A k \in 1..Len(list) : list[k] \in OpenDescriptor
  BY <1>1, EntriesOf
<1>3. ASSUME NEW b \in Owned(h, list)
      PROVE  b \in 1..Blocks /\ h[b] # Free
  <2>1. PICK k \in 1..Len(list) : b # NULL /\ (b = list[k].data \/ b = Uses(h, list[k]))
    BY <1>3 DEF Owned
  <2>2. list[k] \in OpenDescriptor /\ Holds(h, list[k])
    BY <1>1, <1>2
  <2>3. CASE b = list[k].data
    BY <2>1, <2>2, <2>3, DataBlock, FreeBlocks
  <2>4. CASE b = Uses(h, list[k])
    BY <2>1, <2>2, <2>4, UsesBlock, FreeBlocks
  <2> QED
    BY <2>1, <2>3, <2>4
<1>4. ASSUME NEW k \in 1..Len(list)
      PROVE  /\ list[k].data # NULL => list[k].data \in Owned(h, list)
             /\ Uses(h, list[k]) # NULL => Uses(h, list[k]) \in Owned(h, list)
  BY DEF Owned
<1> QED
  BY <1>3, <1>4

-----------------------------------------------------------------------------
(* A list sees its own blocks only.                                        *)

Same(h, h2, S) == \A b \in S : h2[b] = h[b]

LEMMA HoldsSame ==
  ASSUME NEW h, NEW h2, NEW e \in OpenDescriptor, Holds(h, e), NEW S, Same(h, h2, S),
         e.data # NULL => e.data \in S, Uses(h, e) # NULL => Uses(h, e) \in S
  PROVE  Holds(h2, e) /\ Uses(h2, e) = Uses(h, e)
<1>1. e.data # NULL => h2[e.data] = h[e.data]
  BY DEF Same
<1>2. Uses(h, e) # NULL => h2[Uses(h, e)] = h[Uses(h, e)]
  BY DEF Same
<1>3. Uses(h2, e) = Uses(h, e)
  BY <1>1, Zenon DEF Uses
<1>4. CASE e.device = "ramdisk"
  <2>1. e.data # NULL
    BY <1>4, SizeTypes DEF Holds
  <2> QED
    BY <1>1, <1>3, <1>4, <2>1, Zenon DEF Holds
<1>5. CASE e.device # "ramdisk" /\ e.data = NULL
  BY <1>3, <1>5, Zenon DEF Holds
<1>6. CASE e.device # "ramdisk" /\ e.data # NULL
  <2>1. h2[e.data] = h[e.data] /\ Uses(h, e) = h[e.data].data
    BY <1>1, <1>6, Zenon DEF Uses
  <2>2. h[e.data].data \in 1..Blocks => h[e.data].data # NULL
    BY SizeTypes
  <2>3. h[e.data].data \in 1..Blocks => h2[h[e.data].data] = h[h[e.data].data]
    BY <1>2, <2>1, <2>2, Zenon
  <2>4. Holds(h2, e)
    BY <1>6, <2>1, <2>3, Zenon DEF Holds
  <2> QED
    BY <1>3, <2>4
<1> QED
  BY <1>4, <1>5, <1>6

LEMMA ListSame ==
  ASSUME NEW h, NEW h2, NEW list, ListSound(h, list), Same(h, h2, Owned(h, list))
  PROVE  /\ ListSound(h2, list) /\ Owned(h2, list) = Owned(h, list)
         /\ \A k \in 1..Len(list) : Uses(h2, list[k]) = Uses(h, list[k])
         /\ \A b : Users(h2, list, b) = Users(h, list, b)
<1>1. list \in Seq(OpenDescriptor) /\ Apart(list)
  BY DEF ListSound
<1>2. ASSUME NEW k \in 1..Len(list)
      PROVE  Holds(h2, list[k]) /\ Uses(h2, list[k]) = Uses(h, list[k])
  <2>1. list[k] \in OpenDescriptor /\ Holds(h, list[k])
    BY <1>1, EntriesOf DEF ListSound
  <2>2. /\ list[k].data # NULL => list[k].data \in Owned(h, list)
        /\ Uses(h, list[k]) # NULL => Uses(h, list[k]) \in Owned(h, list)
    BY OwnedIs
  <2> QED
    BY <2>1, <2>2, HoldsSame
<1>3. \A b : Users(h2, list, b) = Users(h, list, b)
  BY <1>2 DEF Users
<1>4. Owned(h2, list) = Owned(h, list)
  BY <1>2 DEF Owned
<1>5. ASSUME NEW b \in 1..Blocks, Users(h2, list, b) # {}
      PROVE  CountsFor(h2[b], Cardinality(Users(h2, list, b)))
  <2>1. Users(h2, list, b) = Users(h, list, b)
    BY <1>3
  <2>2. PICK k \in 1..Len(list) : Uses(h, list[k]) = b
    BY <1>5, <2>1 DEF Users
  <2>3. b # NULL
    BY SizeTypes
  <2>4. h2[b] = h[b]
    BY <2>2, <2>3, OwnedIs DEF Same
  <2>5. CountsFor(h[b], Cardinality(Users(h, list, b)))
    BY <1>5, <2>1 DEF ListSound
  <2> QED
    BY <2>1, <2>4, <2>5, Zenon
<1> QED
  BY <1>1, <1>2, <1>3, <1>4, <1>5, Zenon DEF ListSound

-----------------------------------------------------------------------------
(* All lists and the heap.                                                 *)

ListOf(p) == file_descriptors[p]

FilesInv ==
  /\ IsHeap(heap)
  /\ file_descriptors \in [Process -> Seq(OpenDescriptor)]
  /\ \A p \in Process : ListSound(heap, ListOf(p)) /\ Len(ListOf(p)) <= MaxOpen
  /\ \A p, q \in Process : p # q => Owned(heap, ListOf(p)) \cap Owned(heap, ListOf(q)) = {}
  /\ \A b \in 1..Blocks :
       heap[b] = Free \/ \E p \in Process : b \in Owned(heap, ListOf(p))

\* What a process may change: its own blocks, and those that are free.
Within(h, list, h2, list2) ==
  /\ IsHeap(h2)
  /\ ListSound(h2, list2)
  /\ \A b \in 1..Blocks : h[b] # Free /\ b \notin Owned(h, list) => h2[b] = h[b]
  /\ \A b \in Owned(h2, list2) : b \in Owned(h, list) \/ h[b] = Free

LEMMA WithinBoth ==
  ASSUME NEW h, NEW l, NEW h1, NEW l1, NEW h2, NEW l2,
         Within(h, l, h1, l1), Within(h1, l1, h2, l2)
  PROVE  Within(h, l, h2, l2)
<1>1. Owned(h2, l2) \subseteq 1..Blocks /\ Owned(h1, l1) \subseteq 1..Blocks
  BY OwnedIs DEF Within
<1>2. ASSUME NEW b \in 1..Blocks, h[b] # Free, b \notin Owned(h, l)
      PROVE  h2[b] = h[b]
  <2>1. h1[b] = h[b] /\ b \notin Owned(h1, l1)
    BY <1>2 DEF Within
  <2> QED
    BY <1>2, <2>1 DEF Within
<1>3. ASSUME NEW b \in Owned(h2, l2), b \notin Owned(h, l)
      PROVE  h[b] = Free
  <2>1. CASE b \in Owned(h1, l1)
    BY <1>3, <2>1 DEF Within
  <2>2. CASE h1[b] = Free
    <3>1. h[b] # Free => h1[b] = h[b]
      BY <1>1, <1>3 DEF Within
    <3> QED
      BY <2>2, <3>1
  <2> QED
    BY <1>3, <2>1, <2>2 DEF Within
<1> QED
  BY <1>2, <1>3 DEF Within

LEMMA WithinNone ==
  ASSUME NEW h, NEW l, IsHeap(h), ListSound(h, l)
  PROVE  Within(h, l, h, l)
BY DEF Within

\* The blocks that Become keeps are those that a list owns.
LEMMA ReachedIsOwned ==
  ASSUME NEW h, NEW lists, \A p \in Process : ListSound(h, lists[p]) /\ Len(lists[p]) <= MaxOpen
  PROVE  \A b \in 1..Blocks :
           b \in Reached(h, lists) <=> \E p \in Process : b \in Owned(h, lists[p])
<1> DEFINE D == {c \in Process \X (1..MaxOpen) : c[2] <= Len(lists[c[1]])}
           data == {lists[d[1]][d[2]].data : d \in D}
           inner == {h[b].data : b \in {c \in data \ {NULL} : h[c].kind = "device"}}
<1>1. Reached(h, lists) = data \cup inner
  BY Zenon DEF Reached
<1>2. ASSUME NEW b \in 1..Blocks, b \in Reached(h, lists)
      PROVE  \E p \in Process : b \in Owned(h, lists[p])
  <2>1. b # NULL
    BY SizeTypes
  <2>2. CASE b \in data
    <3>1. PICK d \in D : b = lists[d[1]][d[2]].data
      BY <2>2
    <3>2. d[1] \in Process /\ d[2] \in 1..Len(lists[d[1]])
      BY EntriesOf, SizeTypes DEF ListSound
    <3> QED
      BY <2>1, <3>1, <3>2, OwnedIs
  <2>3. CASE b \in inner
    <3>1. PICK c \in data \ {NULL} : h[c].kind = "device" /\ b = h[c].data
      BY <2>3
    <3>2. PICK d \in D : c = lists[d[1]][d[2]].data
      BY <3>1
    <3>3. d[1] \in Process /\ d[2] \in 1..Len(lists[d[1]])
      BY EntriesOf, SizeTypes DEF ListSound
    <3> DEFINE e == lists[d[1]][d[2]]
    <3>4. e \in OpenDescriptor /\ Holds(h, e) /\ e.data = c /\ c # NULL
      BY <3>1, <3>2, <3>3, EntriesOf DEF ListSound
    <3>5. e.device # "ramdisk"
      BY <3>1, <3>4 DEF Holds, IsFile
    <3>6. Uses(h, e) = b
      BY <3>1, <3>4, <3>5 DEF Uses
    <3> QED
      BY <2>1, <3>3, <3>6, OwnedIs
  <2> QED
    BY <1>1, <1>2, <2>2, <2>3
<1>3. ASSUME NEW b \in 1..Blocks, NEW p \in Process, b \in Owned(h, lists[p])
      PROVE  b \in Reached(h, lists)
  <2>1. PICK k \in 1..Len(lists[p]) :
          b # NULL /\ (b = lists[p][k].data \/ b = Uses(h, lists[p][k]))
    BY <1>3 DEF Owned
  <2> DEFINE e == lists[p][k]
  <2>2. Len(lists[p]) \in Nat /\ e \in OpenDescriptor /\ Holds(h, e)
    BY EntriesOf DEF ListSound
  <2>3. k \in 1..MaxOpen /\ k <= Len(lists[p])
    BY <2>2, SizeTypes
  <2>4. <<p, k>> \in D /\ lists[<<p, k>>[1]][<<p, k>>[2]].data = e.data
    BY <2>3
  <2>5. e.data \in data
    BY <2>4
  <2>6. CASE b = e.data
    BY <1>1, <2>5, <2>6
  <2>7. CASE b # e.data
    <3>1. b = Uses(h, e)
      BY <2>1, <2>7
    <3>2. e.device # "ramdisk" /\ e.data # NULL /\ b = h[e.data].data
      BY <2>1, <2>7, <3>1 DEF Uses
    <3>3. h[e.data].kind = "device"
      BY <2>2, <3>2 DEF Holds, IsDeviceFile
    <3>4. b \in inner
      BY <2>5, <3>2, <3>3
    <3> QED
      BY <1>1, <3>4
  <2> QED
    BY <2>6, <2>7
<1> QED
  BY <1>2, <1>3

LEMMA Becomes ==
  ASSUME FilesInv, NEW p \in Process, NEW h, NEW list,
         IsHeap(h), ListSound(h, list), Len(list) <= MaxOpen,
         \A q \in Process \ {p} : Same(heap, h, Owned(heap, ListOf(q))),
         \A q \in Process \ {p} : Owned(h, list) \cap Owned(heap, ListOf(q)) = {},
         Become(h, p, list)
  PROVE  FilesInv'
<1> DEFINE L == file_descriptors'
           reached == Reached(h, L)
<1>1. /\ L = [file_descriptors EXCEPT ![p] = list]
      /\ heap' = [b \in 1..Blocks |-> IF b \in reached THEN h[b] ELSE Free]
  BY DEF Become
<1>2. list \in Seq(OpenDescriptor) /\ L \in [Process -> Seq(OpenDescriptor)]
  BY <1>1 DEF FilesInv, ListSound
<1>3. L[p] = list /\ \A q \in Process \ {p} : L[q] = ListOf(q)
  BY <1>1 DEF FilesInv, ListOf
<1>4. \A q \in Process \ {p} : ListSound(h, L[q]) /\ Owned(h, L[q]) = Owned(heap, ListOf(q))
                               /\ Len(L[q]) <= MaxOpen
  <2> TAKE q \in Process \ {p}
  <2>1. ListSound(heap, ListOf(q)) /\ Same(heap, h, Owned(heap, ListOf(q)))
        /\ Len(ListOf(q)) <= MaxOpen
    BY DEF FilesInv
  <2>2. ListSound(h, ListOf(q)) /\ Owned(h, ListOf(q)) = Owned(heap, ListOf(q))
    BY <2>1, ListSame
  <2> QED
    BY <1>3, <2>1, <2>2
<1>5. \A q \in Process : ListSound(h, L[q]) /\ Len(L[q]) <= MaxOpen
  BY <1>3, <1>4
<1> HIDE DEF L, reached
<1>6. \A b \in 1..Blocks : b \in reached <=> \E q \in Process : b \in Owned(h, L[q])
  BY <1>5, ReachedIsOwned, Zenon DEF reached
<1>7. ASSUME NEW q \in Process
      PROVE  ListSound(heap', L[q]) /\ Owned(heap', L[q]) = Owned(h, L[q])
  <2>1. Owned(h, L[q]) \subseteq 1..Blocks
    BY <1>5, OwnedIs
  <2>2. Same(h, heap', Owned(h, L[q]))
    BY <1>1, <1>6, <2>1 DEF Same
  <2> QED
    BY <1>5, <2>2, ListSame
<1>8. IsHeap(heap')
  <2>1. ASSUME NEW b \in 1..Blocks
        PROVE  IsBlock(heap'[b])
    <3>1. IsBlock(h[b]) /\ IsBlock(Free)
      BY DEF IsHeap, IsBlock
    <3>2. heap'[b] = h[b] \/ heap'[b] = Free
      BY <1>1
    <3> QED
      BY <3>1, <3>2
  <2> QED
    BY <1>1, <2>1 DEF IsHeap
<1>9. \A q, r \in Process : q # r => Owned(h, L[q]) \cap Owned(h, L[r]) = {}
  <2>1. \A q, r \in Process \ {p} : q # r => Owned(h, L[q]) \cap Owned(h, L[r]) = {}
    BY <1>4 DEF FilesInv
  <2>2. \A q \in Process \ {p} : Owned(h, L[p]) \cap Owned(h, L[q]) = {}
    BY <1>3, <1>4
  <2> QED
    BY <2>1, <2>2
<1>10. ASSUME NEW b \in 1..Blocks
       PROVE  heap'[b] = Free \/ \E q \in Process : b \in Owned(heap', L[q])
  <2>1. CASE b \in reached
    BY <1>6, <1>7, <2>1
  <2>2. CASE b \notin reached
    BY <1>1, <2>2
  <2> QED
    BY <2>1, <2>2
<1>11. (\A q \in Process : ListOf(q)' = L[q])
  BY DEF ListOf, L
<1> QED
  BY <1>2, <1>5, <1>7, <1>8, <1>9, <1>10, <1>11 DEF FilesInv, L

\* A call of p that changes its list.
LEMMA BecomesWithin ==
  ASSUME FilesInv, NEW p \in Process, NEW h, NEW list, Len(list) <= MaxOpen,
         Within(heap, ListOf(p), h, list), Become(h, p, list)
  PROVE  FilesInv'
<1>1. ASSUME NEW q \in Process \ {p}
      PROVE  /\ Same(heap, h, Owned(heap, ListOf(q)))
             /\ Owned(h, list) \cap Owned(heap, ListOf(q)) = {}
  <2>1. ListSound(heap, ListOf(q)) /\ Owned(heap, ListOf(p)) \cap Owned(heap, ListOf(q)) = {}
    BY DEF FilesInv
  <2>2. ASSUME NEW b \in Owned(heap, ListOf(q))
        PROVE  b \in 1..Blocks /\ heap[b] # Free /\ b \notin Owned(heap, ListOf(p))
    BY <2>1, OwnedIs
  <2>3. Same(heap, h, Owned(heap, ListOf(q)))
    BY <2>2 DEF Same, Within
  <2> QED
    BY <2>2, <2>3 DEF Within
<1>2. IsHeap(h) /\ ListSound(h, list)
  BY DEF Within
<1> QED
  BY <1>1, <1>2, Becomes

-----------------------------------------------------------------------------
(* A block that differs in what no other block or descriptor looks at.     *)

Alike(v, w) ==
  /\ IsFile(v) => IsFile(w)
  /\ IsFb(v) => IsFb(w)
  /\ IsTty(v) => IsTty(w)
  /\ IsDeviceFile(v) => IsDeviceFile(w) /\ w.device = v.device /\ w.data = v.data

AllAlike(h, h2, S) == \A b \in S : Alike(h[b], h2[b])

\* v, with n more descriptors than before.
CountsMore(v, w, n) == w.kind = v.kind /\ w.dependents = v.dependents + n

LEMMA HoldsAlike ==
  ASSUME NEW h, NEW h2, NEW e \in OpenDescriptor, Holds(h, e), NEW S, AllAlike(h, h2, S),
         e.data # NULL => e.data \in S, Uses(h, e) # NULL => Uses(h, e) \in S
  PROVE  Holds(h2, e) /\ Uses(h2, e) = Uses(h, e)
<1>1. e.data # NULL => Alike(h[e.data], h2[e.data])
  BY DEF AllAlike
<1>2. Uses(h, e) # NULL => Alike(h[Uses(h, e)], h2[Uses(h, e)])
  BY DEF AllAlike
<1>4. CASE e.device = "ramdisk"
  <2>1. e.data # NULL
    BY <1>4, SizeTypes DEF Holds
  <2>2. Holds(h2, e)
    BY <1>1, <1>4, <2>1, Zenon DEF Holds, Alike
  <2>3. Uses(h2, e) = Uses(h, e)
    BY <1>4, Zenon DEF Uses
  <2> QED
    BY <2>2, <2>3
<1>5. CASE e.device # "ramdisk" /\ e.data = NULL
  <2>1. Holds(h2, e)
    BY <1>5, Zenon DEF Holds
  <2>2. Uses(h2, e) = Uses(h, e)
    BY <1>5, Zenon DEF Uses
  <2> QED
    BY <2>1, <2>2
<1>6. CASE e.device # "ramdisk" /\ e.data # NULL
  <2> DEFINE v == h[e.data]
             w == h2[e.data]
  <2>1. IsDeviceFile(v) /\ Uses(h, e) = v.data /\ Uses(h2, e) = w.data
    BY <1>6, Zenon DEF Uses, Holds
  <2>2. IsDeviceFile(w) /\ w.device = v.device /\ w.data = v.data
    BY <1>1, <1>6, <2>1, Zenon DEF Alike
  <2>3. v.data \in 1..Blocks => v.data # NULL
    BY SizeTypes
  <2>4. v.data \in 1..Blocks => Alike(h[v.data], h2[v.data])
    BY <1>2, <2>1, <2>3, Zenon
  <2>5. \/ v.device = "kb" /\ v.data = NULL
        \/ v.device = "fb" /\ v.data \in 1..Blocks /\ IsFb(h[v.data])
        \/ v.device = "tty" /\ v.data \in 1..Blocks /\ IsTty(h[v.data])
    BY <1>6, Zenon DEF Holds
  <2>6. \/ w.device = "kb" /\ w.data = NULL
        \/ w.device = "fb" /\ w.data \in 1..Blocks /\ IsFb(h2[w.data])
        \/ w.device = "tty" /\ w.data \in 1..Blocks /\ IsTty(h2[w.data])
    BY <2>2, <2>4, <2>5, Zenon DEF Alike
  <2>7. Holds(h2, e)
    BY <1>6, <2>2, <2>6, Zenon DEF Holds
  <2> QED
    BY <2>1, <2>2, <2>7, Zenon
<1> QED
  BY <1>4, <1>5, <1>6

LEMMA ListAlike ==
  ASSUME NEW h, NEW h2, NEW list, ListSound(h, list), AllAlike(h, h2, Owned(h, list)),
         \A b \in 1..Blocks : Users(h, list, b) # {} => CountsMore(h[b], h2[b], 0)
  PROVE  ListSound(h2, list) /\ Owned(h2, list) = Owned(h, list)
<1>1. list \in Seq(OpenDescriptor) /\ Apart(list)
  BY DEF ListSound
<1>2. ASSUME NEW k \in 1..Len(list)
      PROVE  Holds(h2, list[k]) /\ Uses(h2, list[k]) = Uses(h, list[k])
  <2>1. list[k] \in OpenDescriptor /\ Holds(h, list[k])
    BY <1>1, EntriesOf DEF ListSound
  <2>2. /\ list[k].data # NULL => list[k].data \in Owned(h, list)
        /\ Uses(h, list[k]) # NULL => Uses(h, list[k]) \in Owned(h, list)
    BY OwnedIs
  <2> QED
    BY <2>1, <2>2, HoldsAlike
<1>3. \A b : Users(h2, list, b) = Users(h, list, b)
  BY <1>2 DEF Users
<1>4. Owned(h2, list) = Owned(h, list)
  BY <1>2 DEF Owned
<1>5. ASSUME NEW b \in 1..Blocks, Users(h2, list, b) # {}
      PROVE  CountsFor(h2[b], Cardinality(Users(h2, list, b)))
  <2>1. Users(h2, list, b) = Users(h, list, b)
    BY <1>3
  <2>2. PICK k \in 1..Len(list) : Uses(h, list[k]) = b
    BY <1>5, <2>1 DEF Users
  <2>3. list[k] \in OpenDescriptor /\ Holds(h, list[k]) /\ b # NULL
    BY <1>1, EntriesOf, SizeTypes DEF ListSound
  <2>4. IsFile(h[b]) \/ IsFb(h[b]) \/ IsTty(h[b])
    BY <2>2, <2>3, UsesBlock
  <2>5. h[b].dependents \in Int
    BY <2>4 DEF IsFile, IsFb, IsTty
  <2>6. h2[b].kind = h[b].kind /\ h2[b].dependents = h[b].dependents
    BY <1>5, <2>1, <2>5 DEF CountsMore
  <2>7. CountsFor(h[b], Cardinality(Users(h, list, b)))
    BY <1>5, <2>1 DEF ListSound
  <2> QED
    BY <2>1, <2>6, <2>7, Zenon DEF CountsFor
<1> QED
  BY <1>1, <1>2, <1>3, <1>4, <1>5, Zenon DEF ListSound

-----------------------------------------------------------------------------
(* A list with one descriptor more.                                        *)

\* long is short with e in the k-th place.
Grows(short, long, k, e) ==
  /\ short \in Seq(OpenDescriptor) /\ long \in Seq(OpenDescriptor)
  /\ Len(long) = Len(short) + 1
  /\ k \in 1..Len(long) /\ e \in OpenDescriptor
  /\ \A i \in 1..Len(long) :
       long[i] = IF i < k THEN short[i] ELSE IF i = k THEN e ELSE short[i - 1]

LEMMA InsertedGrows ==
  ASSUME NEW list \in Seq(OpenDescriptor), NEW k \in 1..(Len(list) + 1),
         NEW e \in OpenDescriptor
  PROVE  Grows(list, InsertedAt(list, k, e), k, e)
<1> DEFINE a == SubSeq(list, 1, k - 1)
           b == SubSeq(list, k, Len(list))
<1>1. Len(list) \in Nat
  OBVIOUS
<1>2. a \in Seq(OpenDescriptor) /\ Len(a) = k - 1
      /\ \A i \in 1..(k - 1) : a[i] = list[i]
  BY <1>1
<1>3. b \in Seq(OpenDescriptor) /\ Len(b) = Len(list) + 1 - k
      /\ \A i \in 1..(Len(list) + 1 - k) : b[i] = list[i + k - 1]
  BY <1>1
<1>4. InsertedAt(list, k, e) = a \o <<e>> \o b
  BY DEF InsertedAt
<1> HIDE DEF a, b
<1> DEFINE c == a \o <<e>>
<1>5. c \in Seq(OpenDescriptor) /\ Len(c) = k
      /\ \A i \in 1..k : c[i] = IF i < k THEN list[i] ELSE e
  BY <1>1, <1>2
<1> HIDE DEF c
<1>6. c \o b \in Seq(OpenDescriptor) /\ Len(c \o b) = Len(list) + 1
      /\ \A i \in 1..(Len(list) + 1) :
           (c \o b)[i] = IF i <= k THEN c[i] ELSE b[i - k]
  <2>1. c \in Seq(OpenDescriptor) /\ b \in Seq(OpenDescriptor)
    BY <1>3, <1>5
  <2>2. /\ c \o b \in Seq(OpenDescriptor)
        /\ Len(c \o b) = Len(c) + Len(b)
        /\ \A i \in 1..(Len(c) + Len(b)) :
             (c \o b)[i] = IF i <= Len(c) THEN c[i] ELSE b[i - Len(c)]
    BY <2>1, ConcatProperties
  <2>3. Len(c) = k /\ Len(c) + Len(b) = Len(list) + 1
    BY <1>1, <1>3, <1>5
  <2> QED
    BY <2>2, <2>3, Zenon
<1>7. \A i \in 1..(Len(list) + 1) : i > k => b[i - k] = list[i - 1]
  BY <1>1, <1>3
<1> QED
  BY <1>1, <1>4, <1>5, <1>6, <1>7 DEF c, Grows

LEMMA RemovedGrows ==
  ASSUME NEW list \in Seq(OpenDescriptor), NEW k \in 1..Len(list)
  PROVE  Grows(Removed(list, k), list, k, list[k])
<1> DEFINE a == SubSeq(list, 1, k - 1)
           b == SubSeq(list, k + 1, Len(list))
           new == Removed(list, k)
           n == Len(list) - 1
<1>1. n \in Nat /\ Len(list) = n + 1 /\ k \in 1..(n + 1)
  OBVIOUS
<1>2. a \in Seq(OpenDescriptor) /\ Len(a) = k - 1
      /\ \A i \in 1..(k - 1) : a[i] = list[i]
  OBVIOUS
<1>3. b \in Seq(OpenDescriptor) /\ Len(b) = n + 1 - k
      /\ \A i \in 1..(n + 1 - k) : b[i] = list[i + k]
  OBVIOUS
<1>4. new = a \o b
  BY DEF Removed
<1> HIDE DEF a, b, new, n
<1>5. new \in Seq(OpenDescriptor) /\ Len(new) = n
      /\ \A i \in 1..n : new[i] = IF i < k THEN a[i] ELSE b[i - (k - 1)]
  <2>1. a \in Seq(OpenDescriptor) /\ b \in Seq(OpenDescriptor)
    BY <1>2, <1>3
  <2>2. /\ a \o b \in Seq(OpenDescriptor)
        /\ Len(a \o b) = Len(a) + Len(b)
        /\ \A i \in 1..(Len(a) + Len(b)) :
             (a \o b)[i] = IF i <= Len(a) THEN a[i] ELSE b[i - Len(a)]
    BY <2>1, ConcatProperties
  <2>3. Len(a) = k - 1 /\ Len(a) + Len(b) = n
    BY <1>1, <1>2, <1>3
  <2>4. \A i \in 1..n : i <= k - 1 <=> i < k
    BY <1>1
  <2> QED
    BY <1>4, <2>2, <2>3, <2>4, Zenon
<1>6. ASSUME NEW i \in 1..(n + 1)
      PROVE  list[i] = IF i < k THEN new[i] ELSE IF i = k THEN list[k] ELSE new[i - 1]
  <2>1. CASE i < k
    BY <1>1, <1>2, <1>5, <2>1
  <2>2. CASE i > k
    <3>1. i - 1 \in 1..n /\ ~(i - 1 < k) /\ i - 1 - (k - 1) = i - k
          /\ i - k \in 1..(n + 1 - k) /\ i - k + k = i
      BY <1>1, <2>2
    <3>2. new[i - 1] = b[i - k]
      BY <1>5, <3>1
    <3>3. b[i - k] = list[i]
      BY <1>3, <3>1
    <3> QED
      BY <2>2, <3>2, <3>3
  <2> QED
    BY <1>1, <2>1, <2>2
<1>7. list[k] \in OpenDescriptor
  BY EntriesOf
<1> QED
  BY <1>1, <1>5, <1>6, <1>7 DEF new, Grows

\* Replacing is to put e in front of what is removed then.
LEMMA ReplacedGrows ==
  ASSUME NEW list \in Seq(OpenDescriptor), NEW k \in 1..Len(list), NEW e \in OpenDescriptor
  PROVE  Grows([list EXCEPT ![k] = e], InsertedAt(list, k, e), k + 1, list[k])
<1> DEFINE new == [list EXCEPT ![k] = e]
           long == InsertedAt(list, k, e)
<1>1. new \in Seq(OpenDescriptor) /\ Len(new) = Len(list)
      /\ \A i \in 1..Len(list) : new[i] = IF i = k THEN e ELSE list[i]
  OBVIOUS
<1>2. Len(list) \in Nat /\ k \in 1..(Len(list) + 1) /\ list[k] \in OpenDescriptor
  BY EntriesOf
<1>3. Grows(list, long, k, e)
  BY <1>2, InsertedGrows
<1> HIDE DEF new, long
<1> QED
  BY <1>1, <1>2, <1>3 DEF Grows, new, long

LEMMA GrownElements ==
  ASSUME NEW short, NEW long, NEW k, NEW e, Grows(short, long, k, e)
  PROVE  /\ Len(short) \in Nat /\ Len(long) = Len(short) + 1 /\ long[k] = e
         /\ \A i \in 1..Len(short) :
              /\ i < k => i \in 1..Len(long) /\ long[i] = short[i]
              /\ i >= k => i + 1 \in 1..Len(long) /\ long[i + 1] = short[i]
         /\ \A i \in 1..Len(long) :
              /\ i < k => i \in 1..Len(short) /\ short[i] = long[i]
              /\ i > k => i - 1 \in 1..Len(short) /\ short[i - 1] = long[i]
BY DEF Grows

-----------------------------------------------------------------------------
(* The descriptors that share a block, in a list and in one with one more. *)

LEMMA UsersCount ==
  ASSUME NEW h, NEW list \in Seq(OpenDescriptor), NEW b
  PROVE  /\ IsFiniteSet(Users(h, list, b)) /\ Cardinality(Users(h, list, b)) \in Nat
         /\ Users(h, list, b) # {} => Cardinality(Users(h, list, b)) >= 1
<1> DEFINE U == Users(h, list, b)
<1>1. Len(list) \in Nat
  BY EntriesOf
<1>2. IsFiniteSet(1..Len(list)) /\ U \in SUBSET (1..Len(list))
  BY <1>1, FS_Interval DEF Users
<1> HIDE DEF U
<1>3. IsFiniteSet(U) /\ Cardinality(U) \in Nat
  BY <1>2, FS_Subset, FS_CardinalityType
<1>4. U # {} => Cardinality(U) # 0
  BY <1>3, FS_EmptySet
<1>5. \A n \in Nat : n # 0 => n >= 1
  OBVIOUS
<1> QED
  BY <1>3, <1>4, <1>5 DEF U

LEMMA UsersShift ==
  ASSUME NEW h, NEW h2, NEW short, NEW long, NEW k, NEW e, Grows(short, long, k, e),
         \A j \in 1..Len(short) : Uses(h2, short[j]) = Uses(h, short[j]), NEW b
  PROVE  /\ ExistsBijection(Users(h, short, b), Users(h2, long, b) \ {k})
         /\ k \in Users(h2, long, b) <=> Uses(h2, e) = b
<1> DEFINE S == Users(h, short, b)
           T == Users(h2, long, b) \ {k}
           Shift(i) == IF i >= k THEN i + 1 ELSE i
           Back(i) == IF i > k THEN i - 1 ELSE i
           f == [i \in S |-> Shift(i)]
<1>1. Len(short) \in Nat /\ Len(long) = Len(short) + 1 /\ k \in 1..Len(long) /\ long[k] = e
  BY GrownElements DEF Grows
<1>2. ASSUME NEW i \in S
      PROVE  Shift(i) \in T /\ i \in Nat
  <2>1. i \in 1..Len(short) /\ Uses(h, short[i]) = b
    BY DEF Users
  <2>2. Uses(h2, short[i]) = b
    BY <2>1
  <2>3. Shift(i) \in 1..Len(long) /\ long[Shift(i)] = short[i] /\ Shift(i) # k
    BY <1>1, <2>1, GrownElements
  <2> HIDE DEF Shift
  <2> QED
    BY <2>1, <2>2, <2>3 DEF Users
<1>3. ASSUME NEW i \in T
      PROVE  Back(i) \in S /\ Shift(Back(i)) = i
  <2>1. i \in 1..Len(long) /\ i # k /\ Uses(h2, long[i]) = b
    BY DEF Users
  <2>2. Back(i) \in 1..Len(short) /\ short[Back(i)] = long[i] /\ Shift(Back(i)) = i
    BY <1>1, <2>1, GrownElements
  <2> HIDE DEF Back, Shift
  <2>3. Uses(h, short[Back(i)]) = b
    BY <2>1, <2>2
  <2> QED
    BY <2>2, <2>3 DEF Users
<1>4. \A i, j \in Nat : Shift(i) = Shift(j) => i = j
  BY <1>1
<1>5. k \in Users(h2, long, b) <=> Uses(h2, e) = b
  BY <1>1 DEF Users
<1>6. f \in Bijection(S, T)
  <2> HIDE DEF S, T, Shift, Back
  <2>1. \A i, j \in S : f[i] = f[j] => i = j
    BY <1>2, <1>4
  <2>2. \A t \in T : \E s \in S : f[s] = t
    BY <1>3
  <2>3. f \in [S -> T]
    BY <1>2
  <2> HIDE DEF f
  <2> QED
    BY <2>1, <2>2, <2>3, Fun_IsBij
<1> QED
  BY <1>5, <1>6 DEF ExistsBijection

LEMMA UsersGrow ==
  ASSUME NEW h, NEW h2, NEW short, NEW long, NEW k, NEW e, Grows(short, long, k, e),
         \A j \in 1..Len(short) : Uses(h2, short[j]) = Uses(h, short[j]), NEW b
  PROVE  Cardinality(Users(h2, long, b))
           = Cardinality(Users(h, short, b)) + (IF Uses(h2, e) = b THEN 1 ELSE 0)
<1> DEFINE S == Users(h, short, b)
           R == Users(h2, long, b)
           T == R \ {k}
<1>1. ExistsBijection(S, T) /\ (k \in R <=> Uses(h2, e) = b)
  BY UsersShift
<1>2. short \in Seq(OpenDescriptor) /\ long \in Seq(OpenDescriptor)
  BY DEF Grows
<1>3. IsFiniteSet(S) /\ IsFiniteSet(R) /\ Cardinality(S) \in Nat /\ Cardinality(R) \in Nat
  BY <1>2, UsersCount
<1> HIDE DEF S, R
<1>4. Cardinality(T) = Cardinality(S)
  BY <1>1, <1>3, FS_Bijection
<1>5. Cardinality(T) = IF k \in R THEN Cardinality(R) - 1 ELSE Cardinality(R)
  BY <1>3, FS_RemoveElement
<1>6. Cardinality(R) = Cardinality(S) + (IF Uses(h2, e) = b THEN 1 ELSE 0)
  BY <1>1, <1>3, <1>4, <1>5
<1> QED
  BY <1>6 DEF S, R

LEMMA GrownOwned ==
  ASSUME NEW h, NEW h2, NEW short, NEW long, NEW k, NEW e, Grows(short, long, k, e),
         \A j \in 1..Len(short) : Uses(h2, short[j]) = Uses(h, short[j])
  PROVE  Owned(h2, long) = Owned(h, short) \cup ({e.data, Uses(h2, e)} \ {NULL})
<1>1. Len(short) \in Nat /\ Len(long) = Len(short) + 1 /\ k \in 1..Len(long) /\ long[k] = e
  BY GrownElements DEF Grows
<1>2. ASSUME NEW b \in Owned(h2, long), b # e.data, b # Uses(h2, e)
      PROVE  b \in Owned(h, short)
  <2>1. PICK i \in 1..Len(long) : b # NULL /\ (b = long[i].data \/ b = Uses(h2, long[i]))
    BY DEF Owned
  <2>2. i # k
    BY <1>1, <1>2, <2>1
  <2>3. i < k \/ i > k
    BY <1>1, <2>2
  <2>4. PICK j \in 1..Len(short) : short[j] = long[i]
    BY <2>3, GrownElements
  <2>5. b = short[j].data \/ b = Uses(h, short[j])
    BY <2>1, <2>4
  <2> QED
    BY <2>1, <2>5 DEF Owned
<1>3. ASSUME NEW b \in Owned(h, short)
      PROVE  b \in Owned(h2, long)
  <2>1. PICK j \in 1..Len(short) : b # NULL /\ (b = short[j].data \/ b = Uses(h, short[j]))
    BY DEF Owned
  <2>2. j < k \/ j >= k
    BY <1>1
  <2>3. PICK i \in 1..Len(long) : short[j] = long[i]
    BY <2>2, GrownElements
  <2>4. b = long[i].data \/ b = Uses(h2, long[i])
    BY <2>1, <2>3
  <2> QED
    BY <2>1, <2>4 DEF Owned
<1>4. \A b \in {e.data, Uses(h2, e)} \ {NULL} : b \in Owned(h2, long)
  BY <1>1 DEF Owned
<1>5. \A b \in Owned(h2, long) : b # NULL
  BY DEF Owned
<1> QED
  BY <1>2, <1>3, <1>4, <1>5

\* Where the i-th descriptor is once one stands at k.
Moved(k, i) == IF i < k THEN i ELSE i + 1

LEMMA GrownMoves ==
  ASSUME NEW short, NEW long, NEW k, NEW e, Grows(short, long, k, e)
  PROVE  /\ \A i \in 1..Len(short) :
              Moved(k, i) \in 1..Len(long) /\ Moved(k, i) # k /\ long[Moved(k, i)] = short[i]
         /\ \A a \in 1..Len(long) : a # k =>
              \E i \in 1..Len(short) : a = Moved(k, i) /\ long[a] = short[i]
         /\ \A i, j \in 1..Len(short) : Moved(k, i) = Moved(k, j) <=> i = j
<1>1. Len(short) \in Nat /\ Len(long) = Len(short) + 1 /\ k \in 1..Len(long)
  BY GrownElements DEF Grows
<1>2. ASSUME NEW i \in 1..Len(short)
      PROVE  Moved(k, i) \in 1..Len(long) /\ Moved(k, i) # k /\ long[Moved(k, i)] = short[i]
  BY <1>1, GrownElements DEF Moved
<1>3. ASSUME NEW a \in 1..Len(long), a # k
      PROVE  \E i \in 1..Len(short) : a = Moved(k, i)
  <2>1. CASE a < k
    <3>1. a \in 1..Len(short) /\ a = Moved(k, a)
      BY <1>1, <2>1 DEF Moved
    <3> QED
      BY <3>1
  <2>2. CASE a > k
    <3>1. a - 1 \in 1..Len(short) /\ a = Moved(k, a - 1)
      BY <1>1, <2>2 DEF Moved
    <3> QED
      BY <3>1
  <2> QED
    BY <1>1, <1>3, <2>1, <2>2
<1>4. \A i, j \in 1..Len(short) : Moved(k, i) = Moved(k, j) <=> i = j
  BY <1>1 DEF Moved
<1> QED
  BY <1>2, <1>3, <1>4

LEMMA GrownApart ==
  ASSUME NEW short, NEW long, NEW k, NEW e, Grows(short, long, k, e)
  PROVE  Apart(long) <=>
           /\ Apart(short)
           /\ e.device = "devices" /\ e.data # NULL =>
                \A j \in 1..Len(short) :
                  ~(short[j].device = "devices" /\ short[j].data = e.data)
<1>1. k \in 1..Len(long) /\ long[k] = e
  BY GrownElements DEF Grows
<1>2. ASSUME Apart(long)
      PROVE  Apart(short)
  <2>1. ASSUME NEW i \in 1..Len(short), NEW j \in 1..Len(short), i # j,
               short[i].device = "devices", short[j].device = "devices",
               short[i].data = short[j].data
        PROVE  short[i].data = NULL
    <3>1. /\ Moved(k, i) \in 1..Len(long) /\ Moved(k, j) \in 1..Len(long)
          /\ Moved(k, i) # Moved(k, j)
          /\ long[Moved(k, i)] = short[i] /\ long[Moved(k, j)] = short[j]
      BY <2>1, GrownMoves
    <3> QED
      BY <1>2, <2>1, <3>1 DEF Apart
  <2> QED
    BY <2>1 DEF Apart
<1>3. ASSUME Apart(long), e.device = "devices", e.data # NULL, NEW j \in 1..Len(short),
             short[j].device = "devices", short[j].data = e.data
      PROVE  FALSE
  <2>1. Moved(k, j) \in 1..Len(long) /\ long[Moved(k, j)] = short[j] /\ Moved(k, j) # k
    BY GrownMoves
  <2> QED
    BY <1>1, <1>3, <2>1 DEF Apart
<1>4. ASSUME Apart(short),
             e.device = "devices" /\ e.data # NULL =>
                \A j \in 1..Len(short) :
                  ~(short[j].device = "devices" /\ short[j].data = e.data),
             NEW a \in 1..Len(long), NEW b \in 1..Len(long), a # b,
             long[a].device = "devices", long[b].device = "devices",
             long[a].data = long[b].data
      PROVE  long[a].data = NULL
  <2>1. a # k => \E i \in 1..Len(short) : a = Moved(k, i) /\ long[a] = short[i]
    BY GrownMoves
  <2>2. b # k => \E i \in 1..Len(short) : b = Moved(k, i) /\ long[b] = short[i]
    BY GrownMoves
  <2>3. CASE a = k
    BY <1>1, <1>4, <2>2, <2>3
  <2>4. CASE b = k
    BY <1>1, <1>4, <2>1, <2>4
  <2>5. CASE a # k /\ b # k
    <3>1. PICK i \in 1..Len(short) : a = Moved(k, i) /\ long[a] = short[i]
      BY <2>1, <2>5
    <3>2. PICK j \in 1..Len(short) : b = Moved(k, j) /\ long[b] = short[j]
      BY <2>2, <2>5
    <3>3. i # j
      BY <1>4, <3>1, <3>2
    <3> QED
      BY <1>4, <3>1, <3>2, <3>3 DEF Apart
  <2> QED
    BY <2>3, <2>4, <2>5
<1> QED
  BY <1>2, <1>3, <1>4 DEF Apart

\* What a call that adds e does to the blocks.
Adds(h, short, h2, e) ==
  /\ IsHeap(h2) /\ Holds(h2, e)
  /\ AllAlike(h, h2, Owned(h, short))
  /\ \A b \in 1..Blocks : Users(h, short, b) # {} =>
       CountsMore(h[b], h2[b], IF Uses(h2, e) = b THEN 1 ELSE 0)
  /\ Uses(h2, e) # NULL /\ Users(h, short, Uses(h2, e)) = {} =>
       h[Uses(h2, e)] = Free /\ CountsFor(h2[Uses(h2, e)], 1)
  /\ e.device = "devices" /\ e.data # NULL => h[e.data] = Free
  /\ \A b \in 1..Blocks : h[b] # Free /\ b \notin Owned(h, short) => h2[b] = h[b]

LEMMA UsedCount ==
  ASSUME NEW h, NEW list, ListSound(h, list), NEW b \in 1..Blocks, Users(h, list, b) # {}
  PROVE  /\ IsFile(h[b]) \/ IsFb(h[b]) \/ IsTty(h[b])
         /\ h[b].dependents \in Int /\ b \in Owned(h, list)
         /\ CountsFor(h[b], Cardinality(Users(h, list, b)))
<1>1. list \in Seq(OpenDescriptor) /\ b # NULL
  BY SizeTypes DEF ListSound
<1>2. PICK k \in 1..Len(list) : Uses(h, list[k]) = b
  BY DEF Users
<1>3. list[k] \in OpenDescriptor /\ Holds(h, list[k])
  BY <1>1, EntriesOf DEF ListSound
<1>4. IsFile(h[b]) \/ IsFb(h[b]) \/ IsTty(h[b])
  BY <1>1, <1>2, <1>3, UsesBlock
<1>5. h[b].dependents \in Int
  BY <1>4 DEF IsFile, IsFb, IsTty
<1>6. b \in Owned(h, list)
  BY <1>1, <1>2 DEF Owned
<1> QED
  BY <1>4, <1>5, <1>6 DEF ListSound

LEMMA GrowWithin ==
  ASSUME NEW h, NEW short, NEW h2, NEW long, NEW k, NEW e,
         ListSound(h, short), Grows(short, long, k, e), Adds(h, short, h2, e)
  PROVE  Within(h, short, h2, long)
<1> DEFINE u == Uses(h2, e)
<1>1. /\ Len(short) \in Nat /\ Len(long) = Len(short) + 1 /\ k \in 1..Len(long)
      /\ long[k] = e /\ e \in OpenDescriptor
      /\ short \in Seq(OpenDescriptor) /\ long \in Seq(OpenDescriptor)
  BY GrownElements DEF Grows
<1>2. IsHeap(h2) /\ Holds(h2, e) /\ AllAlike(h, h2, Owned(h, short))
  BY DEF Adds
<1>3. ASSUME NEW j \in 1..Len(short)
      PROVE  Holds(h2, short[j]) /\ Uses(h2, short[j]) = Uses(h, short[j])
  <2>1. short[j] \in OpenDescriptor /\ Holds(h, short[j])
    BY <1>1, EntriesOf DEF ListSound
  <2>2. /\ short[j].data # NULL => short[j].data \in Owned(h, short)
        /\ Uses(h, short[j]) # NULL => Uses(h, short[j]) \in Owned(h, short)
    BY OwnedIs
  <2> QED
    BY <1>2, <2>1, <2>2, HoldsAlike
<1>4. \A i \in 1..Len(long) : Holds(h2, long[i])
  <2> TAKE i \in 1..Len(long)
  <2>1. i = k \/ \E j \in 1..Len(short) : short[j] = long[i]
    <3>1. i < k \/ i = k \/ i > k
      BY <1>1
    <3> QED
      BY <3>1, GrownElements
  <2> QED
    BY <1>1, <1>2, <1>3, <2>1
<1>5. Apart(long)
  <2>1. Apart(short)
    BY DEF ListSound
  <2>2. ASSUME e.device = "devices", e.data # NULL, NEW j \in 1..Len(short),
               short[j].device = "devices", short[j].data = e.data
        PROVE  FALSE
    <3>1. h[e.data] = Free
      BY <2>2 DEF Adds
    <3>2. IsDeviceFile(h[e.data])
      BY <2>2 DEF ListSound, Holds
    <3> QED
      BY <3>1, <3>2, FreeBlocks
  <2> QED
    BY <2>1, <2>2, GrownApart
<1>6. ASSUME NEW b \in 1..Blocks, Users(h2, long, b) # {}
      PROVE  CountsFor(h2[b], Cardinality(Users(h2, long, b)))
  <2> DEFINE n == Cardinality(Users(h, short, b))
             m == Cardinality(Users(h2, long, b))
  <2>1. m = n + (IF u = b THEN 1 ELSE 0) /\ n \in Nat /\ m \in Nat /\ m >= 1
    BY <1>1, <1>3, <1>6, UsersGrow, UsersCount
  <2>2. b # NULL
    BY SizeTypes
  <2>3. CASE Users(h, short, b) # {}
    <3>1. /\ h[b].dependents \in Int /\ CountsFor(h[b], n)
      BY <2>3, UsedCount
    <3>2. CountsMore(h[b], h2[b], IF u = b THEN 1 ELSE 0)
      BY <2>3 DEF Adds
    <3>3. CountsFor(h2[b], m)
      <4> HIDE DEF n, m, u
      <4> QED
        BY <2>1, <3>1, <3>2 DEF CountsFor, CountsMore
    <3> QED
      BY <3>3
  <2>4. CASE Users(h, short, b) = {}
    <3>1. n = 0
      BY <2>4, FS_EmptySet
    <3>2. u = b /\ m = 1
      <4> HIDE DEF n, m, u
      <4> QED
        BY <2>1, <3>1
    <3>3. CountsFor(h2[b], 1)
      BY <2>2, <2>4, <3>2 DEF Adds
    <3> QED
      BY <3>2, <3>3
  <2> QED
    BY <2>3, <2>4
<1>7. ListSound(h2, long)
  BY <1>1, <1>4, <1>5, <1>6, Zenon DEF ListSound
<1>8. ASSUME NEW b \in Owned(h2, long), b \notin Owned(h, short)
      PROVE  h[b] = Free
  <2>1. b # NULL /\ (b = e.data \/ b = u)
    BY <1>3, <1>8, GrownOwned
  <2>2. CASE b = u
    <3>1. Users(h, short, b) = {}
      BY <1>8, <2>1 DEF Users, Owned
    <3> QED
      BY <2>1, <2>2, <3>1 DEF Adds
  <2>3. CASE b # u
    <3>1. e.device = "devices"
      BY <1>1, <2>1, <2>3, EntryFields DEF Uses
    <3> QED
      BY <2>1, <2>3, <3>1 DEF Adds
  <2> QED
    BY <2>2, <2>3
<1> QED
  BY <1>2, <1>7, <1>8 DEF Within, Adds

\* What a call that takes e away does to the blocks.
Drops(h, short, h2, e) ==
  /\ IsHeap(h2)
  /\ \A b \in 1..Blocks : b # Uses(h, e) /\ b # e.data => h2[b] = h[b]
  /\ Uses(h, e) # NULL /\ Users(h, short, Uses(h, e)) # {} =>
       /\ Alike(h[Uses(h, e)], h2[Uses(h, e)])
       /\ CountsMore(h[Uses(h, e)], h2[Uses(h, e)], -1)

LEMMA ShrinkWithin ==
  ASSUME NEW h, NEW short, NEW h2, NEW long, NEW k, NEW e,
         ListSound(h, long), Grows(short, long, k, e), Drops(h, short, h2, e)
  PROVE  Within(h, long, h2, short)
<1> DEFINE u == Uses(h, e)
<1>1. /\ Len(short) \in Nat /\ Len(long) = Len(short) + 1 /\ k \in 1..Len(long)
      /\ long[k] = e /\ e \in OpenDescriptor
      /\ short \in Seq(OpenDescriptor) /\ long \in Seq(OpenDescriptor)
  BY GrownElements DEF Grows
<1>2. Holds(h, e) /\ \A j \in 1..Len(short) : short[j] \in OpenDescriptor /\ Holds(h, short[j])
  <2>1. \A i \in 1..Len(long) : Holds(h, long[i])
    BY DEF ListSound
  <2>2. \A j \in 1..Len(short) : \E i \in 1..Len(long) : long[i] = short[j]
    BY GrownMoves
  <2>3. \A j \in 1..Len(short) : short[j] \in OpenDescriptor
    BY <1>1, EntriesOf
  <2> QED
    BY <1>1, <2>1, <2>2, <2>3
<1>3. Apart(short) /\ (e.device = "devices" /\ e.data # NULL =>
        \A j \in 1..Len(short) : ~(short[j].device = "devices" /\ short[j].data = e.data))
  <2>1. Apart(long)
    BY DEF ListSound
  <2> QED
    BY <2>1, GrownApart
<1>4. ASSUME NEW b \in Owned(h, short)
      PROVE  b \in 1..Blocks /\ Alike(h[b], h2[b])
  <2>1. PICK j \in 1..Len(short) : b # NULL /\ (b = short[j].data \/ b = Uses(h, short[j]))
    BY DEF Owned
  <2> DEFINE d == short[j]
  <2>2. d \in OpenDescriptor /\ Holds(h, d)
    BY <1>2
  <2>3. b \in 1..Blocks
    BY <2>1, <2>2, DataBlock, UsesBlock
  <2>4. ASSUME b = Uses(h, d)
        PROVE  /\ Users(h, short, b) # {}
               /\ IsFile(h[b]) \/ IsFb(h[b]) \/ IsTty(h[b])
    <3>1. j \in Users(h, short, b)
      BY <2>4 DEF Users
    <3>2. IsFile(h[b]) \/ IsFb(h[b]) \/ IsTty(h[b])
      BY <2>1, <2>2, <2>4, UsesBlock
    <3> QED
      BY <3>1, <3>2
  <2>5. CASE b = u
    <3>1. IsFile(h[b]) \/ IsFb(h[b]) \/ IsTty(h[b])
      BY <1>1, <1>2, <2>1, <2>5, UsesBlock
    <3>2. b = Uses(h, d)
      <4>1. ~IsDeviceFile(h[b])
        BY <3>1, FreeBlocks
      <4>2. b = d.data => d.device = "ramdisk"
        BY <2>1, <2>2, <4>1, EntryFields DEF Holds
      <4>3. d.device = "ramdisk" => Uses(h, d) = d.data
        BY DEF Uses
      <4> QED
        BY <2>1, <4>2, <4>3
    <3> QED
      BY <2>1, <2>3, <2>4, <2>5, <3>2 DEF Drops
  <2>6. CASE b # u /\ b = e.data
    <3>1. e.device = "devices" /\ IsDeviceFile(h[b])
      <4>1. e.device # "ramdisk"
        BY <2>6 DEF Uses
      <4> QED
        BY <1>1, <1>2, <2>1, <2>6, <4>1, EntryFields DEF Holds
    <3>2. b # Uses(h, d)
      BY <2>4, <3>1, FreeBlocks
    <3>3. b = d.data
      BY <2>1, <3>2
    <3>4. d.device # "ramdisk"
      BY <3>2, <3>3 DEF Uses
    <3> QED
      BY <1>3, <2>1, <2>2, <2>6, <3>1, <3>3, <3>4, EntryFields
  <2>7. CASE b # u /\ b # e.data
    <3>1. h2[b] = h[b]
      BY <2>3, <2>7 DEF Drops
    <3>2. Alike(h[b], h[b])
      BY DEF Alike
    <3> QED
      BY <2>3, <3>1, <3>2
  <2> QED
    BY <2>5, <2>6, <2>7
<1>5. ASSUME NEW j \in 1..Len(short)
      PROVE  Holds(h2, short[j]) /\ Uses(h2, short[j]) = Uses(h, short[j])
  <2>1. short[j] \in OpenDescriptor /\ Holds(h, short[j])
    BY <1>2
  <2>2. /\ short[j].data # NULL => short[j].data \in Owned(h, short)
        /\ Uses(h, short[j]) # NULL => Uses(h, short[j]) \in Owned(h, short)
    BY DEF Owned
  <2>3. AllAlike(h, h2, Owned(h, short))
    BY <1>4 DEF AllAlike
  <2> QED
    BY <2>1, <2>2, <2>3, HoldsAlike
<1>6. ASSUME NEW b \in 1..Blocks, Users(h2, short, b) # {}
      PROVE  CountsFor(h2[b], Cardinality(Users(h2, short, b)))
  <2> DEFINE n == Cardinality(Users(h2, short, b))
             m == Cardinality(Users(h, long, b))
  <2>1. Users(h2, short, b) = Users(h, short, b)
    BY <1>5 DEF Users
  <2>2. m = n + (IF u = b THEN 1 ELSE 0)
    BY <2>1, UsersGrow
  <2>3. n \in Nat /\ n >= 1 /\ m \in Nat
    BY <1>1, <1>6, UsersCount
  <2>4. Users(h, long, b) # {}
    <3>1. m # 0
      <4> HIDE DEF n, m, u
      <4> QED
        BY <2>2, <2>3
    <3> QED
      BY <3>1, FS_EmptySet
  <2>5. /\ h[b].dependents \in Int /\ CountsFor(h[b], m)
        /\ IsFile(h[b]) \/ IsFb(h[b]) \/ IsTty(h[b])
    BY <2>4, UsedCount
  <2>6. CASE u = b
    <3>1. CountsMore(h[b], h2[b], -1)
      BY <1>6, <2>1, <2>6, SizeTypes DEF Drops
    <3>2. CountsFor(h2[b], n)
      <4> HIDE DEF n, m, u
      <4> QED
        BY <2>2, <2>3, <2>5, <2>6, <3>1 DEF CountsFor, CountsMore
    <3> QED
      BY <3>2
  <2>7. CASE u # b
    <3>1. b # e.data
      <4>1. b = e.data => e.device = "devices"
        BY <1>1, <2>7, EntryFields DEF Uses
      <4>2. b = e.data => IsDeviceFile(h[b])
        BY <1>2, <4>1, SizeTypes DEF Holds
      <4> QED
        BY <2>5, <4>2, FreeBlocks
    <3>2. h2[b] = h[b]
      BY <2>7, <3>1 DEF Drops
    <3>3. m = n
      <4> HIDE DEF n, m, u
      <4> QED
        BY <2>2, <2>3, <2>7
    <3> QED
      BY <2>5, <3>2, <3>3
  <2> QED
    BY <2>6, <2>7
<1>7. ListSound(h2, short)
  BY <1>1, <1>3, <1>5, <1>6, Zenon DEF ListSound
<1>8. Owned(h2, short) = Owned(h, short)
  BY <1>5 DEF Owned
<1>9. Owned(h, long) = Owned(h, short) \cup ({e.data, u} \ {NULL})
  BY GrownOwned
<1>10. ASSUME NEW b \in 1..Blocks, b \notin Owned(h, long)
       PROVE  h2[b] = h[b]
  <2>1. b # e.data /\ b # u
    BY <1>9, <1>10, SizeTypes
  <2> QED
    BY <2>1 DEF Drops
<1>11. IsHeap(h2)
  BY DEF Drops
<1> QED
  BY <1>7, <1>8, <1>9, <1>10, <1>11 DEF Within

-----------------------------------------------------------------------------
(* Taking, counting and freeing a block.                                   *)

\* h2 is h with v in b.
SetsBlock(h, h2, b, v) ==
  b \in 1..Blocks /\ h2 = [h EXCEPT ![b] = v]

LEMMA SetBlock ==
  ASSUME NEW h, IsHeap(h), NEW h2, NEW b, NEW v, IsBlock(v), SetsBlock(h, h2, b, v)
  PROVE  /\ IsHeap(h2) /\ h2[b] = v /\ b \in 1..Blocks
         /\ \A c \in 1..Blocks : c # b => h2[c] = h[c]
<1>1. DOMAIN h = 1..Blocks /\ b \in 1..Blocks /\ h2 = [h EXCEPT ![b] = v]
  BY DEF IsHeap, SetsBlock
<1>2. DOMAIN h2 = 1..Blocks /\ h2[b] = v /\ \A c \in 1..Blocks : c # b => h2[c] = h[c]
  BY <1>1
<1>3. h2 = [c \in 1..Blocks |-> h2[c]]
  BY <1>1
<1>4. \A c \in 1..Blocks : IsBlock(h2[c])
  BY <1>2 DEF IsHeap
<1> QED
  BY <1>1, <1>2, <1>3, <1>4 DEF IsHeap

LEMMA UnusedType ==
  ASSUME NEW h
  PROVE  /\ Unused(h) \subseteq 1..Blocks /\ Unused(h) \subseteq Nat
         /\ IsFiniteSet(Unused(h)) /\ Cardinality(Unused(h)) \in Nat
<1>1. Unused(h) \subseteq 1..Blocks
  BY DEF Unused
<1>2. IsFiniteSet(1..Blocks) /\ 1..Blocks \subseteq Nat
  BY SizeTypes, FS_Interval
<1>3. Unused(h) \in SUBSET (1..Blocks)
  BY <1>1
<1>4. IsFiniteSet(Unused(h))
  BY <1>2, <1>3, FS_Subset
<1> QED
  BY <1>1, <1>2, <1>4, FS_CardinalityType

LEMMA NewIsUnused ==
  ASSUME NEW h, Unused(h) # {}
  PROVE  /\ New(h) \in Unused(h) /\ New(h) \in 1..Blocks /\ h[New(h)] = Free
         /\ New(h) # NULL /\ \A b \in Unused(h) : New(h) <= b
<1> DEFINE U == Unused(h)
<1>1. U \subseteq Nat /\ U \subseteq 1..Blocks /\ U # {}
  BY UnusedType
<1> HIDE DEF U
<1>2. Least(U) \in U /\ \A b \in U : Least(U) <= b
  BY <1>1, LeastIsLeast
<1>3. New(h) = Least(U)
  BY DEF New, U
<1>4. New(h) # NULL
  BY <1>1, <1>2, <1>3, SizeTypes
<1> QED
  BY <1>1, <1>2, <1>3, <1>4 DEF U, Unused

LEMMA PutBlock ==
  ASSUME NEW h, IsHeap(h), Unused(h) # {}, NEW v, IsUsed(v) \/ IsLeft(v)
  PROVE  /\ IsHeap(Put(h, v)) /\ Put(h, v)[New(h)] = v
         /\ \A c \in 1..Blocks : c # New(h) => Put(h, v)[c] = h[c]
         /\ Unused(Put(h, v)) = Unused(h) \ {New(h)}
<1>1. New(h) \in 1..Blocks /\ h[New(h)] = Free
  BY NewIsUnused
<1>2. v # Free /\ IsBlock(v)
  BY FreeBlocks DEF IsUsed, IsBlock, IsLeft, Free
<1>3. SetsBlock(h, Put(h, v), New(h), v)
  BY <1>1 DEF Put, SetsBlock
<1>4. /\ IsHeap(Put(h, v)) /\ Put(h, v)[New(h)] = v
      /\ \A c \in 1..Blocks : c # New(h) => Put(h, v)[c] = h[c]
  BY <1>2, <1>3, SetBlock
<1>5. Unused(Put(h, v)) = Unused(h) \ {New(h)}
  BY <1>1, <1>2, <1>4 DEF Unused
<1> QED
  BY <1>4, <1>5

\* A count goes up or down.
LEMMA CountChanges ==
  ASSUME NEW v, IsUsed(v), NEW n \in Int, NEW w, w = [v EXCEPT !.dependents = n]
  PROVE  /\ IsUsed(w) /\ Alike(v, w) /\ v.dependents \in Int
         /\ w.kind = v.kind /\ w.dependents = n
<1>1. CASE IsFile(v)
  <2>1. IsFile(w) /\ w.kind = v.kind /\ w.dependents = n /\ v.dependents \in Int
    BY <1>1 DEF IsFile
  <2>2. ~IsFb(v) /\ ~IsTty(v) /\ ~IsDeviceFile(v)
    BY <1>1 DEF IsFile, IsFb, IsTty, IsDeviceFile
  <2> QED
    BY <2>1, <2>2 DEF IsUsed, Alike
<1>2. CASE IsFb(v)
  <2>1. IsFb(w) /\ w.kind = v.kind /\ w.dependents = n /\ v.dependents \in Int
    BY <1>2 DEF IsFb
  <2>2. ~IsFile(v) /\ ~IsTty(v) /\ ~IsDeviceFile(v)
    BY <1>2 DEF IsFile, IsFb, IsTty, IsDeviceFile
  <2> QED
    BY <2>1, <2>2 DEF IsUsed, Alike
<1>3. CASE IsTty(v)
  <2>1. IsTty(w) /\ w.kind = v.kind /\ w.dependents = n /\ v.dependents \in Int
    BY <1>3 DEF IsTty
  <2>2. ~IsFile(v) /\ ~IsFb(v) /\ ~IsDeviceFile(v)
    BY <1>3 DEF IsFile, IsFb, IsTty, IsDeviceFile
  <2> QED
    BY <2>1, <2>2 DEF IsUsed, Alike
<1>4. CASE IsDeviceFile(v)
  <2>1. /\ IsDeviceFile(w) /\ w.kind = v.kind /\ w.dependents = n /\ v.dependents \in Int
        /\ w.device = v.device /\ w.data = v.data
    BY <1>4 DEF IsDeviceFile
  <2>2. ~IsFile(v) /\ ~IsFb(v) /\ ~IsTty(v)
    BY <1>4 DEF IsFile, IsFb, IsTty, IsDeviceFile
  <2> QED
    BY <2>1, <2>2 DEF IsUsed, Alike
<1> QED
  BY <1>1, <1>2, <1>3, <1>4 DEF IsUsed

\* h2 is h where b is counted n times more.
Recounted(h, h2, b, n) ==
  /\ IsHeap(h2) /\ IsUsed(h2[b]) /\ Alike(h[b], h2[b]) /\ CountsMore(h[b], h2[b], n)
  /\ \A c \in 1..Blocks : c # b => h2[c] = h[c]
  /\ Unused(h2) = Unused(h)

LEMMA CountedBlock ==
  ASSUME NEW h, IsHeap(h), NEW b \in 1..Blocks, IsUsed(h[b])
  PROVE  Recounted(h, Counted(h, b), b, 1)
<1> DEFINE v == h[b]
           w == [v EXCEPT !.dependents = v.dependents + 1]
           h2 == Counted(h, b)
<1>1. v.dependents \in Int
  BY DEF IsUsed, IsFile, IsFb, IsTty, IsDeviceFile
<1>2. v.dependents + 1 \in Int
  BY <1>1
<1>3. /\ IsUsed(w) /\ Alike(v, w) /\ w.kind = v.kind
      /\ w.dependents = v.dependents + 1
  BY <1>2, CountChanges
<1>4. h2 = [h EXCEPT ![b] = w]
  BY Zenon DEF Counted
<1>5. SetsBlock(h, h2, b, w) /\ IsBlock(w)
  BY <1>3, <1>4 DEF SetsBlock, IsUsed, IsBlock
<1> HIDE DEF h2, w
<1>6. IsHeap(h2) /\ h2[b] = w /\ \A c \in 1..Blocks : c # b => h2[c] = h[c]
  BY <1>5, SetBlock
<1>7. v # Free /\ w # Free
  BY <1>3, FreeBlocks DEF IsUsed
<1>8. Unused(h2) = Unused(h)
  BY <1>6, <1>7 DEF Unused
<1> QED
  BY <1>3, <1>6, <1>8 DEF Recounted, CountsMore, h2

\* One dependent less, or the block is free when it was the last.
LessOne(h, h2, b) ==
  /\ IsHeap(h2)
  /\ \A c \in 1..Blocks : c # b => h2[c] = h[c]
  /\ h[b].dependents >= 2 => Alike(h[b], h2[b]) /\ CountsMore(h[b], h2[b], -1)

IsLess(v, w) ==
  \/ w = Free /\ v.dependents < 2
  \/ w = [v EXCEPT !.dependents = v.dependents - 1]

LEMMA LessIs ==
  ASSUME NEW h, IsHeap(h), NEW b \in 1..Blocks, IsUsed(h[b]), NEW v, IsLess(h[b], v),
         NEW h2, SetsBlock(h, h2, b, v)
  PROVE  LessOne(h, h2, b)
<1> DEFINE w == [h[b] EXCEPT !.dependents = h[b].dependents - 1]
<1>1. h[b].dependents \in Int
  BY DEF IsUsed, IsFile, IsFb, IsTty, IsDeviceFile
<1>2. h[b].dependents - 1 \in Int /\ h[b].dependents - 1 = h[b].dependents + (-1)
  BY <1>1
<1>3. IsUsed(w) /\ Alike(h[b], w) /\ w.kind = h[b].kind /\ w.dependents = h[b].dependents - 1
  BY <1>2, CountChanges
<1>4. IsBlock(v)
  BY <1>3 DEF IsLess, IsBlock, IsUsed
<1>5. IsHeap(h2) /\ h2[b] = v /\ \A c \in 1..Blocks : c # b => h2[c] = h[c]
  BY <1>4, SetBlock
<1>6. h[b].dependents >= 2 => v = w
  BY <1>1 DEF IsLess
<1> HIDE DEF w
<1>7. h[b].dependents >= 2 => Alike(h[b], h2[b]) /\ CountsMore(h[b], h2[b], -1)
  BY <1>2, <1>3, <1>5, <1>6, Zenon DEF CountsMore
<1> QED
  BY <1>5, <1>7 DEF LessOne

LEMMA DroppedBlock ==
  ASSUME NEW h, IsHeap(h), NEW b \in 1..Blocks, IsUsed(h[b])
  PROVE  LessOne(h, Dropped(h, b), b)
<1> DEFINE v == IF h[b].dependents > 1 THEN [h[b] EXCEPT !.dependents = h[b].dependents - 1]
                ELSE Free
<1>1. h[b].dependents \in Int
  BY DEF IsUsed, IsFile, IsFb, IsTty, IsDeviceFile
<1>2. IsLess(h[b], v)
  BY <1>1 DEF IsLess
<1>3. SetsBlock(h, Dropped(h, b), b, v)
  BY Zenon DEF Dropped, SetsBlock
<1> HIDE DEF v
<1> QED
  BY <1>2, <1>3, LessIs

LEMMA TtyClosedBlock ==
  ASSUME NEW h, IsHeap(h), NEW b \in 1..Blocks, IsUsed(h[b])
  PROVE  LessOne(h, tty_close(h, b), b)
<1> DEFINE v == IF h[b].dependents = 1 THEN Free
                ELSE [h[b] EXCEPT !.dependents = h[b].dependents - 1]
<1>1. h[b].dependents \in Int
  BY DEF IsUsed, IsFile, IsFb, IsTty, IsDeviceFile
<1>2. IsLess(h[b], v)
  BY <1>1 DEF IsLess
<1>3. SetsBlock(h, tty_close(h, b), b, v)
  BY Zenon DEF tty_close, SetsBlock
<1> HIDE DEF v
<1> QED
  BY <1>2, <1>3, LessIs

-----------------------------------------------------------------------------
(* Closing.                                                                *)

LEMMA HasFunctions ==
  /\ "close" \in Functions("fb") /\ "close" \in Functions("tty") /\ "close" \notin Functions("kb")
  /\ "dup" \in Functions("fb") /\ "dup" \in Functions("tty") /\ "dup" \notin Functions("kb")
  /\ "clone" \notin Functions("fb") /\ "clone" \in Functions("tty") /\ "clone" \in Functions("kb")
BY DEF Functions, fb_device, tty_device, kbd_device

\* What others share is counted for them too.
LEMMA SharedCount ==
  ASSUME NEW h, NEW short, NEW long, NEW k, NEW e, ListSound(h, long),
         Grows(short, long, k, e), Uses(h, e) # NULL, Users(h, short, Uses(h, e)) # {}
  PROVE  h[Uses(h, e)].dependents >= 2
<1> DEFINE u == Uses(h, e)
           n == Cardinality(Users(h, short, u))
           m == Cardinality(Users(h, long, u))
<1>1. short \in Seq(OpenDescriptor) /\ long[k] = e /\ k \in 1..Len(long) /\ e \in OpenDescriptor
  BY GrownElements DEF Grows
<1>2. n \in Nat /\ n >= 1
  BY <1>1, UsersCount
<1>3. m = n + 1
  BY UsersGrow
<1>4. u \in 1..Blocks
  BY <1>1, UsesBlock DEF ListSound
<1>5. Users(h, long, u) # {}
  BY <1>1 DEF Users
<1>6. CountsFor(h[u], m) /\ h[u].dependents \in Int
  BY <1>4, <1>5, UsedCount
<1> HIDE DEF u, n, m
<1>7. h[u].dependents >= 2
  BY <1>2, <1>3, <1>6 DEF CountsFor
<1> QED
  BY <1>7 DEF u

\* e's inner block h1, and then e's own one.
LEMMA CloseDrops ==
  ASSUME NEW h, NEW short, NEW long, NEW k, NEW e, IsHeap(h), ListSound(h, long),
         Grows(short, long, k, e)
  PROVE  Drops(h, short, Close(h, e), e)
<1> DEFINE u == Uses(h, e)
           h2 == Close(h, e)
<1>1. e \in OpenDescriptor /\ Holds(h, e)
  BY GrownElements DEF ListSound, Grows
<1>2. u # NULL /\ Users(h, short, u) # {} => h[u].dependents >= 2
  BY SharedCount
<1>3. CASE e.device = "ramdisk"
  <2>1. u = e.data /\ u \in 1..Blocks /\ IsUsed(h[u]) /\ h2 = Dropped(h, u)
    BY <1>1, <1>3 DEF Uses, Holds, Close, IsUsed
  <2> HIDE DEF u, h2
  <2>2. LessOne(h, h2, u)
    BY <2>1, DroppedBlock
  <2> QED
    BY <1>2, <2>1, <2>2 DEF LessOne, Drops, u, h2
<1>4. CASE e.device # "ramdisk" /\ e.data = NULL
  <2>1. u = NULL /\ h2 = h
    BY <1>4 DEF Uses, Close, device_close
  <2> QED
    BY <2>1 DEF Drops
<1>5. CASE e.device # "ramdisk" /\ e.data # NULL
  <2> DEFINE b == e.data
             inner == IF "close" \notin Functions(h[b].device) THEN h
                      ELSE IF h[b].device = "fb" THEN Dropped(h, u)
                      ELSE tty_close(h, u)
  <2>1. h2 = Dropped(inner, b) /\ u = h[b].data
    BY <1>5 DEF Close, device_close, Uses
  <2>2. /\ b \in 1..Blocks /\ IsDeviceFile(h[b])
        /\ \/ h[b].device = "kb" /\ u = NULL
           \/ h[b].device = "fb" /\ u \in 1..Blocks /\ IsFb(h[u])
           \/ h[b].device = "tty" /\ u \in 1..Blocks /\ IsTty(h[u])
    BY <1>1, <1>5, <2>1, EntryFields DEF Holds
  <2>3. u # b /\ IsUsed(h[b])
    BY <2>2, FreeBlocks, SizeTypes DEF IsUsed
  <2>4. CASE h[b].device = "kb"
    <3>1. inner = h /\ u = NULL
      BY <2>2, <2>4, HasFunctions
    <3> HIDE DEF inner, h2, u
    <3>2. LessOne(h, h2, b)
      BY <2>1, <2>2, <2>3, <3>1, DroppedBlock
    <3> QED
      BY <3>1, <3>2 DEF LessOne, Drops, h2, u
  <2>5. CASE h[b].device # "kb"
    <3>1. u \in 1..Blocks /\ IsUsed(h[u]) /\ u # NULL
      BY <2>2, <2>5, SizeTypes DEF IsUsed
    <3>2. LessOne(h, inner, u)
      <4>1. CASE h[b].device = "fb"
        BY <3>1, <4>1, HasFunctions, DroppedBlock
      <4>2. CASE h[b].device = "tty"
        BY <3>1, <4>2, HasFunctions, TtyClosedBlock
      <4> QED
        BY <2>2, <2>5, <4>1, <4>2
    <3> HIDE DEF inner, h2, u
    <3>3. IsHeap(inner) /\ inner[b] = h[b]
      BY <2>2, <2>3, <3>2 DEF LessOne
    <3>4. LessOne(inner, h2, b)
      BY <2>1, <2>2, <2>3, <3>3, DroppedBlock
    <3>5. h2[u] = inner[u]
      BY <2>3, <3>1, <3>4 DEF LessOne
    <3>6. \A c \in 1..Blocks : c # u /\ c # b => h2[c] = h[c]
      BY <3>2, <3>4 DEF LessOne
    <3>7. IsHeap(h2)
      BY <3>4 DEF LessOne
    <3>8. h[u].dependents >= 2 => Alike(h[u], h2[u]) /\ CountsMore(h[u], h2[u], -1)
      BY <3>2, <3>5, Zenon DEF LessOne
    <3> QED
      BY <1>2, <3>6, <3>7, <3>8 DEF Drops, h2, u
  <2> QED
    BY <2>4, <2>5
<1> QED
  BY <1>3, <1>4, <1>5

LEMMA CloseWithin ==
  ASSUME NEW h, NEW short, NEW long, NEW k, NEW e, IsHeap(h), ListSound(h, long),
         Grows(short, long, k, e)
  PROVE  Within(h, long, Close(h, e), short)
BY CloseDrops, ShrinkWithin

-----------------------------------------------------------------------------
(* Counts that begin at or above zero.                                     *)

Slots(U, n) == {b \in U : Cardinality({c \in U : c < b}) < n}

\* There are n blocks to take, and what they hold is g.
Clean(h, g, n) ==
  /\ Cardinality(Unused(h)) >= n
  /\ \A b \in Slots(Unused(h), n) : g[b] \in Nat

LEMMA SlotsOfRest ==
  ASSUME NEW U \in SUBSET Nat, IsFiniteSet(U), NEW m \in U, \A b \in U : m <= b, NEW n \in Nat
  PROVE  Slots(U \ {m}, n) \subseteq Slots(U, n + 1) /\ m \in Slots(U, n + 1)
<1>1. ASSUME NEW b \in Slots(U \ {m}, n)
      PROVE  b \in Slots(U, n + 1)
  <2> DEFINE S == {c \in U : c < b}
             T == {c \in U \ {m} : c < b}
  <2>1. b \in U /\ b # m /\ Cardinality(T) < n
    BY DEF Slots
  <2>2. m < b /\ m \in S /\ T = S \ {m}
    BY <2>1
  <2>3. S \in SUBSET U
    OBVIOUS
  <2>4. IsFiniteSet(S)
    BY <2>3, FS_Subset
  <2> HIDE DEF S, T
  <2>5. IsFiniteSet(T) /\ Cardinality(T) = Cardinality(S) - 1
    BY <2>2, <2>4, FS_RemoveElement
  <2>6. Cardinality(S) \in Nat /\ Cardinality(T) \in Nat
    BY <2>4, <2>5, FS_CardinalityType
  <2>7. Cardinality(S) < n + 1
    BY <2>1, <2>5, <2>6
  <2> QED
    BY <2>1, <2>7 DEF Slots, S
<1>2. {c \in U : c < m} = {}
  <2>1. \A c \in U : c \in Nat
    OBVIOUS
  <2>2. \A c \in U : ~(c < m)
    BY <2>1
  <2> QED
    BY <2>2
<1>3. Cardinality({c \in U : c < m}) = 0
  BY <1>2, FS_EmptySet
<1>4. m \in Slots(U, n + 1)
  BY <1>3 DEF Slots
<1> QED
  BY <1>1, <1>4

LEMMA CleanTakes ==
  ASSUME NEW h, NEW g, NEW n \in Nat, Clean(h, g, n + 1)
  PROVE  /\ Unused(h) # {} /\ g[New(h)] \in Nat
         /\ \A h2 : Unused(h2) = Unused(h) \ {New(h)} => Clean(h2, g, n)
<1> DEFINE U == Unused(h)
           m == New(h)
<1>1. U \in SUBSET Nat /\ IsFiniteSet(U) /\ Cardinality(U) \in Nat
  BY UnusedType
<1>2. Cardinality(U) >= n + 1
  BY DEF Clean
<1>3. U # {}
  <2>1. Cardinality(U) # 0
    <3> HIDE DEF U
    <3> QED
      BY <1>1, <1>2
  <2> QED
    BY <2>1, FS_EmptySet
<1>4. m \in U /\ \A b \in U : m <= b
  BY <1>3, NewIsUnused
<1> HIDE DEF U, m
<1>5. Slots(U \ {m}, n) \subseteq Slots(U, n + 1) /\ m \in Slots(U, n + 1)
  BY <1>1, <1>4, SlotsOfRest
<1>6. g[m] \in Nat /\ \A b \in Slots(U \ {m}, n) : g[b] \in Nat
  BY <1>5 DEF Clean, U
<1>7. Cardinality(U \ {m}) = Cardinality(U) - 1
  BY <1>1, <1>4, FS_RemoveElement
<1>8. Cardinality(U \ {m}) >= n
  BY <1>1, <1>2, <1>7
<1>9. ASSUME NEW h2, Unused(h2) = U \ {m}
      PROVE  Clean(h2, g, n)
  BY <1>6, <1>8, <1>9, Zenon DEF Clean
<1> QED
  BY <1>3, <1>6, <1>9 DEF U, m

LEMMA CleanSame ==
  ASSUME NEW h, NEW h2, NEW g, NEW n, Clean(h, g, n), Unused(h2) = Unused(h)
  PROVE  Clean(h2, g, n)
BY Zenon DEF Clean

\* A count is a uint64_t, and that of a terminal is incremented from what its
\* block held before.  Below zero stands for so near 2^64 that the count wraps:
\* it would then come to zero while descriptors still share the terminal.
CountsFromZero == Garbage \subseteq Nat

LEMMA DirtIsClean ==
  ASSUME CountsFromZero, NEW n, NEW g \in Dirt(n), Cardinality(Unused(heap)) >= n
  PROVE  Clean(heap, g, n)
BY DEF Clean, Dirt, Slots, CountsFromZero

-----------------------------------------------------------------------------
(* What is opened or cloned takes blocks that were free.                   *)

Leaks(h, h2) == IsHeap(h2) /\ \A b \in 1..Blocks : h[b] # Free => h2[b] = h[b]

Fresh(h, h2, e) ==
  /\ Leaks(h, h2) /\ e \in OpenDescriptor /\ Holds(h2, e)
  /\ Uses(h2, e) # NULL => h[Uses(h2, e)] = Free /\ CountsFor(h2[Uses(h2, e)], 1)
  /\ e.device = "devices" /\ e.data # NULL => h[e.data] = Free

LEMMA LeaksBoth ==
  ASSUME NEW h, NEW h1, NEW h2, Leaks(h, h1), Leaks(h1, h2)
  PROVE  Leaks(h, h2)
BY DEF Leaks

LEMMA LeakWithin ==
  ASSUME NEW h, NEW list, NEW h2, ListSound(h, list), Leaks(h, h2)
  PROVE  Within(h, list, h2, list)
<1>1. Same(h, h2, Owned(h, list))
  BY OwnedIs DEF Leaks, Same
<1>2. ListSound(h2, list) /\ Owned(h2, list) = Owned(h, list)
  BY <1>1, ListSame
<1> QED
  BY <1>2 DEF Within, Leaks

LEMMA FreshWithin ==
  ASSUME NEW h, NEW short, NEW h2, NEW long, NEW k, NEW e,
         ListSound(h, short), Grows(short, long, k, e), Fresh(h, h2, e)
  PROVE  Within(h, short, h2, long)
<1>1. \A b \in Owned(h, short) : b \in 1..Blocks /\ h[b] # Free /\ h2[b] = h[b]
  BY OwnedIs DEF Fresh, Leaks
<1>2. AllAlike(h, h2, Owned(h, short))
  BY <1>1, Zenon DEF AllAlike, Alike
<1>3. ASSUME NEW b \in 1..Blocks, Users(h, short, b) # {}
      PROVE  CountsMore(h[b], h2[b], IF Uses(h2, e) = b THEN 1 ELSE 0)
  <2>1. b \in Owned(h, short) /\ h[b].dependents \in Int
    BY <1>3, UsedCount
  <2>2. h[b] # Free /\ h2[b] = h[b] /\ b # NULL
    BY <1>1, <2>1, SizeTypes
  <2>3. Uses(h2, e) # b
    BY <2>2 DEF Fresh
  <2>4. h[b].dependents = h[b].dependents + 0
    BY <2>1
  <2>5. CountsMore(h[b], h2[b], 0)
    BY <2>2, <2>4, Zenon DEF CountsMore
  <2> QED
    BY <2>3, <2>5
<1>4. Adds(h, short, h2, e)
  BY <1>2, <1>3 DEF Adds, Fresh, Leaks
<1> QED
  BY <1>4, GrowWithin

-----------------------------------------------------------------------------
(* Opening.                                                                *)

\* What opening a file of a file system gives.
Gives(h, open, device) ==
  /\ Leaks(h, open.heap)
  /\ open.ok => \A id \in Int : Fresh(h, open.heap, Descriptor(id, device, open.data))

LEMMA NewDescriptor ==
  ASSUME NEW id \in Int, NEW device \in {"ramdisk", "devices"}, NEW data \in 0..Blocks
  PROVE  /\ Descriptor(id, device, data) \in OpenDescriptor
         /\ Descriptor(id, device, data).device = device
         /\ Descriptor(id, device, data).data = data
BY DEF Descriptor, OpenDescriptor

LEMMA Results ==
  /\ \A h, data : Opened(h, data).ok /\ Opened(h, data).heap = h /\ Opened(h, data).data = data
  /\ \A h : ~Failed(h).ok /\ Failed(h).heap = h
BY DEF Opened, Failed

LEMMA NewBlocks ==
  /\ \A file, path : IsFile(OpenFile(file, path)) /\ OpenFile(file, path).dependents = 1
                     /\ OpenFile(file, path).kind = "file"
  /\ IsFb(FrameBuffer(1)) /\ FrameBuffer(1).dependents = 1
  /\ \A n \in Nat : IsTty(Terminal(n + 1)) /\ CountsFor(Terminal(n + 1), 1)
  /\ \A device \in {"fb", "kb", "tty"}, data \in 0..Blocks, n \in Int :
       /\ IsDeviceFile(DeviceFile(device, data, n))
       /\ DeviceFile(device, data, n).device = device /\ DeviceFile(device, data, n).data = data
  /\ \A device \in {"xd", "none"}, n \in Int : IsLeft(DeviceFile(device, NULL, n))
<1>1. \A file, path : IsFile(OpenFile(file, path)) /\ OpenFile(file, path).dependents = 1
                     /\ OpenFile(file, path).kind = "file"
  BY DEF OpenFile, IsFile
<1>2. IsFb(FrameBuffer(1)) /\ FrameBuffer(1).dependents = 1
  BY DEF FrameBuffer, IsFb
<1>3. ASSUME NEW n \in Nat
      PROVE  IsTty(Terminal(n + 1)) /\ CountsFor(Terminal(n + 1), 1)
  <2>1. n + 1 \in Int /\ n + 1 >= 1
    OBVIOUS
  <2> DEFINE m == n + 1
  <2> HIDE DEF m
  <2>2. m \in Int /\ m >= 1
    BY <2>1 DEF m
  <2>3. IsTty(Terminal(m)) /\ CountsFor(Terminal(m), 1)
    BY <2>2 DEF Terminal, IsTty, CountsFor
  <2> QED
    BY <2>3 DEF m
<1>4. ASSUME NEW device \in {"fb", "kb", "tty"}, NEW data \in 0..Blocks, NEW n \in Int
      PROVE  /\ IsDeviceFile(DeviceFile(device, data, n))
             /\ DeviceFile(device, data, n).device = device
             /\ DeviceFile(device, data, n).data = data
  BY DEF DeviceFile, IsDeviceFile
<1>5. \A device \in {"xd", "none"}, n \in Int : IsLeft(DeviceFile(device, NULL, n))
  BY DEF DeviceFile, IsLeft
<1> QED
  BY <1>1, <1>2, <1>3, <1>4, <1>5

LEMMA PutLeaks ==
  ASSUME NEW h, IsHeap(h), Unused(h) # {}, NEW v, IsUsed(v) \/ IsLeft(v)
  PROVE  Leaks(h, Put(h, v))
<1>1. h[New(h)] = Free
  BY NewIsUnused
<1> QED
  BY <1>1, PutBlock DEF Leaks

LEMMA FailedGives ==
  ASSUME NEW h, NEW h2, Leaks(h, h2), NEW device
  PROVE  Gives(h, Failed(h2), device)
BY Results DEF Gives

LEMMA HeapLeaks ==
  ASSUME NEW h, IsHeap(h)
  PROVE  Leaks(h, h)
BY DEF Leaks

\* A file of the ramdisk has the block v of its own.
LEMMA FileGives ==
  ASSUME NEW h, IsHeap(h), Unused(h) # {}, NEW v, IsFile(v), v.dependents >= 1
  PROVE  Gives(h, Opened(Put(h, v), New(h)), "ramdisk")
<1> DEFINE b == New(h)
           h2 == Put(h, v)
<1>1. b \in 1..Blocks /\ h[b] = Free /\ b # NULL /\ b \in 0..Blocks
  <2>1. b \in 1..Blocks /\ h[b] = Free /\ b # NULL
    BY NewIsUnused
  <2> HIDE DEF b
  <2> QED
    BY <2>1, SizeTypes
<1>2. IsUsed(v)
  BY DEF IsUsed
<1>3. h2[b] = v /\ Leaks(h, h2)
  BY <1>2, PutBlock, PutLeaks
<1>4. CountsFor(v, 1)
  BY DEF CountsFor, IsFile
<1> HIDE DEF b, h2
<1>5. ASSUME NEW id \in Int
      PROVE  Fresh(h, h2, Descriptor(id, "ramdisk", b))
  <2> DEFINE e == Descriptor(id, "ramdisk", b)
  <2>1. e \in OpenDescriptor /\ e.device = "ramdisk" /\ e.data = b
    BY <1>1, NewDescriptor
  <2> HIDE DEF e
  <2>2. Uses(h2, e) = b
    BY <2>1 DEF Uses
  <2>3. Holds(h2, e)
    BY <1>1, <1>3, <2>1 DEF Holds
  <2>4. Fresh(h, h2, e)
    BY <1>1, <1>3, <1>4, <2>1, <2>2, <2>3 DEF Fresh
  <2> QED
    BY <2>4 DEF e
<1> QED
  BY <1>3, <1>5, Results DEF Gives, b, h2

LEMMA ramdisk_open_gives ==
  ASSUME NEW h, IsHeap(h), Unused(h) # {}, NEW path, NEW flags
  PROVE  Gives(h, ramdisk_open(h, path, flags), "ramdisk")
<1>1. CASE ramdisk_open_fails(path, flags)
  BY <1>1, HeapLeaks, FailedGives DEF ramdisk_open
<1>2. CASE ~ramdisk_open_fails(path, flags)
  <2> DEFINE v == OpenFile(ramdisk_get_path_header(path), path)
  <2>1. IsFile(v) /\ v.dependents >= 1
    BY NewBlocks
  <2>2. ramdisk_open(h, path, flags) = Opened(Put(h, v), New(h))
    BY <1>2 DEF ramdisk_open
  <2> HIDE DEF v
  <2> QED
    BY <2>1, <2>2, FileGives
<1> QED
  BY <1>1, <1>2

\* A device file, and the block of its device.
LEMMA DeviceGives ==
  ASSUME NEW h, NEW h2, Leaks(h, h2), NEW b \in 1..Blocks, h[b] = Free, IsDeviceFile(h2[b]),
         \/ h2[b].device = "kb" /\ h2[b].data = NULL
         \/ /\ h2[b].device = "fb" /\ h2[b].data \in 1..Blocks /\ IsFb(h2[h2[b].data])
         \/ /\ h2[b].device = "tty" /\ h2[b].data \in 1..Blocks /\ IsTty(h2[h2[b].data]),
         h2[b].data # NULL => h[h2[b].data] = Free /\ CountsFor(h2[h2[b].data], 1)
  PROVE  Gives(h, Opened(h2, b), "devices")
<1>1. b # NULL /\ b \in 0..Blocks
  BY SizeTypes
<1>2. ASSUME NEW id \in Int
      PROVE  Fresh(h, h2, Descriptor(id, "devices", b))
  <2> DEFINE e == Descriptor(id, "devices", b)
  <2>1. e \in OpenDescriptor /\ e.device = "devices" /\ e.data = b
    BY <1>1, NewDescriptor
  <2> HIDE DEF e
  <2>2. Uses(h2, e) = h2[b].data
    BY <1>1, <2>1 DEF Uses
  <2>3. Holds(h2, e)
    BY <1>1, <2>1 DEF Holds
  <2>4. Fresh(h, h2, e)
    BY <1>1, <2>1, <2>2, <2>3 DEF Fresh
  <2> QED
    BY <2>4 DEF e
<1> QED
  BY <1>2, Results DEF Gives

\* A block h1 holds v, and is then given what it is to hold.
LEMMA Rewritten ==
  ASSUME NEW h, NEW h1, Leaks(h, h1), NEW b \in 1..Blocks, h[b] = Free, NEW v, IsDeviceFile(v),
         NEW h2, SetsBlock(h1, h2, b, v)
  PROVE  Leaks(h, h2) /\ h2[b] = v /\ \A c \in 1..Blocks : c # b => h2[c] = h1[c]
<1>1. IsHeap(h1) /\ IsBlock(v)
  BY DEF Leaks, IsBlock, IsUsed
<1>2. IsHeap(h2) /\ h2[b] = v /\ \A c \in 1..Blocks : c # b => h2[c] = h1[c]
  BY <1>1, SetBlock
<1> QED
  BY <1>2 DEF Leaks

\* The device's own block w, behind the device file b.
LEMMA WithInner ==
  ASSUME NEW h, NEW h1, Leaks(h, h1), NEW b \in 1..Blocks, h[b] = Free, h1[b] # Free,
         \A c \in 1..Blocks : c # b => h1[c] = h[c], Unused(h1) # {},
         NEW device, NEW w, CountsFor(w, 1),
         \/ device = "fb" /\ IsFb(w)
         \/ device = "tty" /\ IsTty(w),
         NEW n \in Int, NEW h3, SetsBlock(Put(h1, w), h3, b, DeviceFile(device, New(h1), n))
  PROVE  Gives(h, Opened(h3, b), "devices")
<1> DEFINE c == New(h1)
           h2 == Put(h1, w)
           v == DeviceFile(device, c, n)
<1>1. c \in 1..Blocks /\ h1[c] = Free /\ c # NULL
  BY NewIsUnused
<1>2. IsHeap(h1) /\ IsUsed(w)
  BY DEF Leaks, IsUsed
<1>3. h2[c] = w /\ Leaks(h1, h2)
  BY <1>2, PutBlock, PutLeaks
<1> HIDE DEF c
<1>4. c # b /\ h[c] = Free /\ c \in 0..Blocks
  BY <1>1, SizeTypes
<1>5. IsDeviceFile(v) /\ v.device = device /\ v.data = c
  BY <1>4, NewBlocks
<1>6. Leaks(h, h2)
  BY <1>3, LeaksBoth
<1>7. SetsBlock(h2, h3, b, v)
  BY DEF c
<1> HIDE DEF h2, v
<1>8. Leaks(h, h3) /\ h3[b] = v /\ h3[c] = h2[c]
  BY <1>1, <1>4, <1>5, <1>6, <1>7, Rewritten
<1>9. h3[c] = w
  BY <1>3, <1>8
<1> QED
  BY <1>1, <1>4, <1>5, <1>8, <1>9, DeviceGives

LEMMA device_open_helper_gives ==
  ASSUME NEW h, IsHeap(h), NEW g, Clean(h, g, 2), NEW type \in {"xd", "fb", "kb", "tty"},
         NEW number, NEW path, NEW flags, type = "xd" => ramdisk_open_fails(path, flags)
  PROVE  Gives(h, device_open_helper(h, type, number, path, flags, g), "devices")
<1> DEFINE b == New(h)
           v == DeviceFile(type, NULL, g[b])
           h1 == Put(h, v)
           c == New(h1)
           open == DeviceOpen(h1, type, path, flags, g)
           h3 == [open.heap EXCEPT ![b] = DeviceFile(type, open.data, g[b] + 1)]
           opens == device_open_helper(h, type, number, path, flags, g)
<1>1. CASE number \notin Ids(type)
  BY <1>1, HeapLeaks, FailedGives DEF device_open_helper
<1>2. CASE number \in Ids(type)
  <2>1. opens = IF ~open.ok THEN open ELSE Opened(h3, b)
    BY <1>2, Zenon DEF device_open_helper
  <2>2. /\ Unused(h) # {} /\ g[b] \in Nat
        /\ \A h2 : Unused(h2) = Unused(h) \ {b} => Clean(h2, g, 1)
    <3>1. 1 \in Nat /\ 1 + 1 = 2
      OBVIOUS
    <3> QED
      BY <3>1, CleanTakes, Zenon
  <2>3. IsUsed(v) \/ IsLeft(v)
    <3>1. g[b] \in Int /\ NULL \in 0..Blocks
      BY <2>2, SizeTypes
    <3> HIDE DEF b
    <3> QED
      BY <3>1, NewBlocks DEF IsUsed
  <2>4. /\ IsHeap(h1) /\ h1[b] = v
        /\ \A d \in 1..Blocks : d # b => h1[d] = h[d]
        /\ Unused(h1) = Unused(h) \ {b} /\ Leaks(h, h1)
    <3> HIDE DEF v
    <3> QED
      BY <2>2, <2>3, PutBlock, PutLeaks
  <2>5. Clean(h1, g, 1)
    BY <2>2, <2>4
  <2>6. Unused(h1) # {} /\ g[c] \in Nat
    <3>1. 0 \in Nat /\ 0 + 1 = 1
      OBVIOUS
    <3> HIDE DEF h1
    <3> QED
      BY <2>5, <3>1, CleanTakes, Zenon
  <2>7. b \in 1..Blocks /\ h[b] = Free /\ h1[b] # Free
    <3>1. b \in 1..Blocks /\ h[b] = Free
      BY <2>2, NewIsUnused
    <3>2. v # Free
      BY FreeBlocks, <2>3 DEF IsUsed, IsLeft, Free
    <3> QED
      BY <2>4, <3>1, <3>2
  <2>8. g[b] + 1 \in Int
    BY <2>2
  <2> HIDE DEF v, h1
  <2>9. CASE type = "xd"
    <3>1. open = Failed(h1)
      BY <2>9 DEF DeviceOpen, ramdisk_open
    <3>2. opens = Failed(h1)
      BY <2>1, <3>1, Results
    <3> HIDE DEF opens
    <3> QED
      BY <2>4, <3>2, FailedGives DEF opens
  <2>10. CASE type = "kb"
    <3>1. open = Opened(h1, NULL)
      BY <2>10 DEF DeviceOpen, keyboard_open
    <3>2. open.ok /\ open.heap = h1 /\ open.data = NULL
      BY <3>1, Results
    <3> HIDE DEF open
    <3> DEFINE w == DeviceFile("kb", NULL, g[b] + 1)
    <3>3. opens = Opened(h3, b) /\ h3 = [h1 EXCEPT ![b] = w]
      BY <2>1, <2>10, <3>2
    <3>4. IsDeviceFile(w) /\ w.device = "kb" /\ w.data = NULL
      <4>1. NULL \in 0..Blocks
        BY SizeTypes
      <4> QED
        BY <2>8, <4>1, NewBlocks
    <3> HIDE DEF w, opens, h3, b
    <3>5. SetsBlock(h1, h3, b, w)
      BY <2>7, <3>3 DEF SetsBlock
    <3>6. Leaks(h, h3) /\ h3[b] = w
      BY <2>4, <2>7, <3>4, <3>5, Rewritten
    <3>7. Gives(h, Opened(h3, b), "devices")
      BY <2>7, <3>4, <3>6, DeviceGives
    <3> QED
      BY <3>3, <3>7 DEF opens
  <2>11. CASE type = "fb" /\ "O_DIRECTORY" \in flags
    <3>1. open = Failed(h1)
      BY <2>11 DEF DeviceOpen, fb_open
    <3>2. opens = Failed(h1)
      BY <2>1, <3>1, Results
    <3> HIDE DEF opens
    <3> QED
      BY <2>4, <3>2, FailedGives DEF opens
  <2>12. ASSUME NEW w, open = Opened(Put(h1, w), c), CountsFor(w, 1),
                \/ type = "fb" /\ IsFb(w)
                \/ type = "tty" /\ IsTty(w)
         PROVE  Gives(h, opens, "devices")
    <3>1. open.ok /\ open.heap = Put(h1, w) /\ open.data = c
      BY <2>12, Results
    <3> HIDE DEF open
    <3>2. opens = Opened(h3, b) /\ h3 = [Put(h1, w) EXCEPT ![b] = DeviceFile(type, c, g[b] + 1)]
      BY <2>1, <3>1
    <3> HIDE DEF opens, h3, b
    <3>3. SetsBlock(Put(h1, w), h3, b, DeviceFile(type, c, g[b] + 1))
      BY <2>7, <3>2 DEF SetsBlock
    <3> DEFINE n == g[b] + 1
    <3>4. n \in Int
      BY <2>8
    <3> HIDE DEF n
    <3>5. SetsBlock(Put(h1, w), h3, b, DeviceFile(type, New(h1), n))
      BY <3>3 DEF n
    <3>6. Gives(h, Opened(h3, b), "devices")
      BY <2>4, <2>6, <2>7, <2>12, <3>4, <3>5, WithInner
    <3> QED
      BY <3>2, <3>6 DEF opens
  <2>13. CASE type = "fb" /\ "O_DIRECTORY" \notin flags
    <3> DEFINE w == FrameBuffer(1)
    <3>1. open = Opened(Put(h1, w), c)
      BY <2>13 DEF DeviceOpen, fb_open
    <3>2. IsFb(w) /\ CountsFor(w, 1)
      BY NewBlocks DEF CountsFor
    <3> HIDE DEF w, open, opens
    <3> QED
      BY <2>12, <2>13, <3>1, <3>2 DEF opens
  <2>14. CASE type = "tty"
    <3> DEFINE w == Terminal(g[c] + 1)
    <3>1. open = Opened(Put(h1, w), c)
      BY <2>14 DEF DeviceOpen, tty_open
    <3>2. IsTty(w) /\ CountsFor(w, 1)
      BY <2>6, NewBlocks
    <3> HIDE DEF w, open, opens
    <3> QED
      BY <2>12, <2>14, <3>1, <3>2 DEF opens
  <2> QED
    BY <2>9, <2>10, <2>11, <2>13, <2>14
<1> QED
  BY <1>1, <1>2

LEMMA Mounted ==
  ASSUME NEW path, get_path_device(path) # {}
  PROVE  /\ MountOf(path).filesystem \in {"ramdisk", "devices"}
         /\ Len(MountOf(path).path) \in Nat
<1> DEFINE dev == [path |-> <<"dev">>, filesystem |-> "devices"]
           ram == [path |-> <<"mnt", "ramdisk">>, filesystem |-> "ramdisk"]
<1>1. mounts = <<dev>> \o (<<ram>> \o <<>>)
  BY Zenon DEF mounts, mount_at
<1>2. Len(mounts) = 2 /\ mounts[1] = dev /\ mounts[2] = ram
  <2> HIDE DEF dev, ram
  <2> QED
    BY <1>1
<1>3. PICK k \in 1..Len(mounts) : MountOf(path) = mounts[k]
  <2> DEFINE k == CHOOSE j \in get_path_device(path) : TRUE
  <2>1. k \in get_path_device(path)
    OBVIOUS
  <2>2. k \in 1..Len(mounts)
    BY <2>1 DEF get_path_device
  <2> QED
    BY <2>2 DEF MountOf
<1>4. MountOf(path) = dev \/ MountOf(path) = ram
  <2>1. k = 1 \/ k = 2
    BY <1>2, <1>3
  <2> QED
    BY <1>2, <1>3, <2>1, Zenon
<1>5. Len(dev.path) \in Nat /\ Len(ram.path) \in Nat
  OBVIOUS
<1> QED
  BY <1>4, <1>5

LEMMA BelowIsPath ==
  ASSUME NEW path \in PathArg, get_path_device(path) # {}
  PROVE  Below(path) \in Seq(STRING)
<1> DEFINE m == Len(MountOf(path).path)
<1>1. path \in Seq(STRING)
  BY FilesAssumption
<1>2. m \in Nat
  BY Mounted
<1> HIDE DEF m
<1>3. SubSeq(path, m + 1, Len(path)) \in Seq(STRING)
  BY <1>1, <1>2
<1> QED
  BY <1>3 DEF Below, m

LEMMA device_open_gives ==
  ASSUME NEW h, IsHeap(h), NEW g, Clean(h, g, 2), NEW path \in Seq(STRING), NEW flags, NEW empty
  PROVE  Gives(h, device_open(h, path, flags, empty, g), "devices")
<1>1. CASE Len(path) # 1 \/ path[1] \notin DOMAIN DeviceName
  BY <1>1, HeapLeaks, FailedGives DEF device_open
<1>2. CASE ~(Len(path) # 1 \/ path[1] \notin DOMAIN DeviceName)
  <2> DEFINE name == DeviceName[path[1]]
             number == IF name.type = "tty" /\ empty THEN 0 ELSE name.number
  <2>1. device_open(h, path, flags, empty, g)
          = device_open_helper(h, name.type, number, path, flags, g)
    BY <1>2, Zenon DEF device_open
  <2>2. name.type \in {"xd", "kb", "fb", "tty"}
    BY <1>2, FilesAssumption
  <2>3. name.type = "xd" => ramdisk_open_fails(path, flags)
    <3>1. path = <<path[1]>> /\ path # <<>>
      BY <1>2
    <3>2. name.type = "xd" => ramdisk_get_path_header(<<path[1]>>) = NULL
      BY <1>2, FilesAssumption
    <3>3. name.type = "xd" => ramdisk_get_path_header(path) = NULL
      BY <3>1, <3>2
    <3> QED
      BY <3>1, <3>3 DEF ramdisk_open_fails
  <2> DEFINE type == name.type
  <2>4. type \in {"xd", "fb", "kb", "tty"} /\ (type = "xd" => ramdisk_open_fails(path, flags))
    BY <2>2, <2>3
  <2> HIDE DEF type, number
  <2>5. Gives(h, device_open_helper(h, type, number, path, flags, g), "devices")
    BY <2>4, device_open_helper_gives
  <2> QED
    BY <2>1, <2>5 DEF type
<1> QED
  BY <1>1, <1>2

LEMMA OpenGives ==
  ASSUME IsHeap(heap), NEW g, Clean(heap, g, 2), NEW path \in PathArg, NEW flags, NEW empty
  PROVE  Gives(heap, Open(path, flags, empty, g), MountOf(path).filesystem)
<1>1. CASE get_path_device(path) = {}
  BY <1>1, HeapLeaks, FailedGives DEF Open
<1>2. CASE get_path_device(path) # {} /\ MountOf(path).filesystem = "ramdisk"
  <2>1. Unused(heap) # {}
    <3>1. 1 \in Nat /\ 1 + 1 = 2
      OBVIOUS
    <3> QED
      BY <3>1, CleanTakes, Zenon
  <2>2. Open(path, flags, empty, g) = ramdisk_open(heap, Below(path), flags)
    BY <1>2 DEF Open
  <2> QED
    BY <1>2, <2>1, <2>2, ramdisk_open_gives
<1>3. CASE get_path_device(path) # {} /\ MountOf(path).filesystem # "ramdisk"
  <2>1. MountOf(path).filesystem = "devices"
    BY <1>3, Mounted
  <2>2. Open(path, flags, empty, g) = device_open(heap, Below(path), flags, empty, g)
    BY <1>3 DEF Open
  <2>3. Below(path) \in Seq(STRING)
    BY <1>3, BelowIsPath
  <2> QED
    BY <2>1, <2>2, <2>3, device_open_gives
<1> QED
  BY <1>1, <1>2, <1>3

-----------------------------------------------------------------------------
(* Duplicating.                                                            *)

LEMMA SameBlock ==
  ASSUME NEW v, NEW w, w = v
  PROVE  Alike(v, w) /\ (v.dependents \in Int => CountsMore(v, w, 0))
<1>1. Alike(v, w)
  BY Zenon DEF Alike
<1>2. ASSUME v.dependents \in Int
      PROVE  CountsMore(v, w, 0)
  <2>1. v.dependents = v.dependents + 0
    BY <1>2
  <2> QED
    BY <2>1, Zenon DEF CountsMore
<1> QED
  BY <1>1, <1>2

LEMMA DupFileAdds ==
  ASSUME NEW h, IsHeap(h), NEW short, ListSound(h, short), NEW j \in 1..Len(short),
         NEW e \in OpenDescriptor, short[j].device = "ramdisk",
         e.device = "ramdisk", e.data = short[j].data
  PROVE  Adds(h, short, Counted(h, short[j].data), e)
<1> DEFINE b == short[j].data
           h2 == Counted(h, b)
<1>1. short[j] \in OpenDescriptor /\ Holds(h, short[j])
  BY EntriesOf DEF ListSound
<1>2. b \in 1..Blocks /\ IsFile(h[b]) /\ b # NULL
  BY <1>1, SizeTypes DEF Holds
<1>3. j \in Users(h, short, b) /\ b \in Owned(h, short)
  BY <1>2 DEF Users, Uses, Owned
<1>4. Recounted(h, h2, b, 1)
  BY <1>2, CountedBlock DEF IsUsed
<1> HIDE DEF h2
<1>5. IsFile(h2[b]) /\ Uses(h2, e) = b
  BY <1>2, <1>4 DEF Recounted, Alike, Uses
<1>6. Holds(h2, e)
  BY <1>2, <1>5 DEF Holds
<1>7. \A c \in 1..Blocks : c # b => h2[c] = h[c]
  BY <1>4 DEF Recounted
<1>8. AllAlike(h, h2, Owned(h, short))
  <2>1. ASSUME NEW c \in Owned(h, short)
        PROVE  Alike(h[c], h2[c])
    <3>1. c \in 1..Blocks
      BY OwnedIs
    <3>2. c # b => Alike(h[c], h2[c])
      BY <1>7, <3>1, SameBlock
    <3> QED
      BY <1>4, <3>2 DEF Recounted
  <2> QED
    BY <2>1 DEF AllAlike
<1>9. ASSUME NEW c \in 1..Blocks, Users(h, short, c) # {}
      PROVE  CountsMore(h[c], h2[c], IF Uses(h2, e) = c THEN 1 ELSE 0)
  <2>1. h[c].dependents \in Int
    BY <1>9, UsedCount
  <2>2. c # b => CountsMore(h[c], h2[c], 0)
    BY <1>7, <2>1, SameBlock
  <2>3. c = b => CountsMore(h[c], h2[c], 1)
    BY <1>4 DEF Recounted
  <2> QED
    BY <1>5, <2>2, <2>3
<1>10. IsHeap(h2)
  BY <1>4 DEF Recounted
<1>11. \A c \in 1..Blocks : h[c] # Free /\ c \notin Owned(h, short) => h2[c] = h[c]
  BY <1>3, <1>7
<1>12. Users(h, short, Uses(h2, e)) # {}
  BY <1>3, <1>5
<1> HIDE DEF b
<1>13. e.device # "devices"
  OBVIOUS
<1> QED
  BY <1>6, <1>8, <1>9, <1>10, <1>11, <1>12, <1>13, Zenon DEF Adds, h2, b

\* A count of a device file is no other's count.
LEMMA DeviceFileCounted ==
  ASSUME NEW h, IsHeap(h), NEW list, ListSound(h, list), NEW b \in 1..Blocks,
         IsDeviceFile(h[b])
  PROVE  /\ Recounted(h, Counted(h, b), b, 1)
         /\ \A c \in 1..Blocks : Alike(h[c], Counted(h, b)[c])
         /\ \A c \in 1..Blocks : Users(h, list, c) # {} =>
              c # b /\ Counted(h, b)[c] = h[c] /\ h[c].dependents \in Int
<1> DEFINE h2 == Counted(h, b)
<1>1. Recounted(h, h2, b, 1)
  BY CountedBlock DEF IsUsed
<1> HIDE DEF h2
<1>2. \A c \in 1..Blocks : c # b => h2[c] = h[c]
  BY <1>1 DEF Recounted
<1>3. ASSUME NEW c \in 1..Blocks
      PROVE  Alike(h[c], h2[c])
  <2>1. c # b => Alike(h[c], h2[c])
    BY <1>2, SameBlock
  <2> QED
    BY <1>1, <2>1 DEF Recounted
<1>4. ASSUME NEW c \in 1..Blocks, Users(h, list, c) # {}
      PROVE  c # b /\ h2[c] = h[c] /\ h[c].dependents \in Int
  <2>1. (IsFile(h[c]) \/ IsFb(h[c]) \/ IsTty(h[c])) /\ h[c].dependents \in Int
    BY <1>4, UsedCount
  <2>2. c # b
    BY <2>1, FreeBlocks
  <2> QED
    BY <1>2, <2>1, <2>2
<1> QED
  BY <1>1, <1>3, <1>4 DEF h2

LEMMA DupKeyboardAdds ==
  ASSUME NEW h, IsHeap(h), NEW short, ListSound(h, short), NEW j \in 1..Len(short),
         NEW e \in OpenDescriptor, short[j].device = "devices", short[j].data # NULL,
         e.device = "devices", e.data = NULL
  PROVE  Adds(h, short, Counted(h, short[j].data), e)
<1> DEFINE b == short[j].data
           h2 == Counted(h, b)
<1>1. short[j] \in OpenDescriptor /\ Holds(h, short[j])
  BY EntriesOf DEF ListSound
<1>2. b \in 1..Blocks /\ IsDeviceFile(h[b])
  BY <1>1, EntryFields DEF Holds
<1>3. b \in Owned(h, short)
  BY DEF Owned
<1>4. /\ Recounted(h, h2, b, 1)
      /\ \A c \in 1..Blocks : Alike(h[c], h2[c])
      /\ \A c \in 1..Blocks : Users(h, short, c) # {} =>
           c # b /\ h2[c] = h[c] /\ h[c].dependents \in Int
  BY <1>2, DeviceFileCounted
<1> HIDE DEF h2
<1>5. Uses(h2, e) = NULL /\ Holds(h2, e)
  BY DEF Uses, Holds
<1>6. AllAlike(h, h2, Owned(h, short))
  BY <1>4, OwnedIs DEF AllAlike
<1>7. ASSUME NEW c \in 1..Blocks, Users(h, short, c) # {}
      PROVE  CountsMore(h[c], h2[c], IF Uses(h2, e) = c THEN 1 ELSE 0)
  <2>1. CountsMore(h[c], h2[c], 0)
    BY <1>4, <1>7, SameBlock
  <2>2. Uses(h2, e) # c
    BY <1>5, SizeTypes
  <2> QED
    BY <2>1, <2>2
<1>8. IsHeap(h2) /\ \A c \in 1..Blocks : h[c] # Free /\ c \notin Owned(h, short) => h2[c] = h[c]
  BY <1>3, <1>4 DEF Recounted
<1> QED
  BY <1>5, <1>6, <1>7, <1>8, Zenon DEF Adds, h2

LEMMA DupDeviceAdds ==
  ASSUME NEW h, IsHeap(h), NEW short, ListSound(h, short), NEW j \in 1..Len(short),
         NEW e \in OpenDescriptor, short[j].device = "devices", short[j].data # NULL,
         h[short[j].data].device \in {"fb", "tty"}, Unused(h) # {},
         e.device = "devices", e.data = New(h)
  PROVE  Adds(h, short,
              Put(Counted(Counted(h, short[j].data), h[short[j].data].data),
                  DeviceFile(h[short[j].data].device, h[short[j].data].data, 1)),
              e)
<1> DEFINE b == short[j].data
           i == h[b].data
           device == h[b].device
           h1 == Counted(h, b)
           h2 == Counted(h1, i)
           v == DeviceFile(device, i, 1)
           h3 == Put(h2, v)
           new == New(h)
<1>1. short[j] \in OpenDescriptor /\ Holds(h, short[j])
  BY EntriesOf DEF ListSound
<1>2. /\ b \in 1..Blocks /\ IsDeviceFile(h[b]) /\ i \in 1..Blocks
      /\ (device = "fb" /\ IsFb(h[i])) \/ (device = "tty" /\ IsTty(h[i]))
  BY <1>1, EntryFields DEF Holds
<1>3. b \in Owned(h, short) /\ i \in Owned(h, short) /\ j \in Users(h, short, i) /\ i # NULL
  <2>1. Uses(h, short[j]) = i /\ i # NULL
    BY <1>2, SizeTypes DEF Uses
  <2> QED
    BY <2>1 DEF Owned, Users
<1>4. /\ Recounted(h, h1, b, 1)
      /\ \A c \in 1..Blocks : Alike(h[c], h1[c])
      /\ \A c \in 1..Blocks : Users(h, short, c) # {} =>
           c # b /\ h1[c] = h[c] /\ h[c].dependents \in Int
  BY <1>2, DeviceFileCounted
<1>5. IsDeviceFile(v) /\ v.device = device /\ v.data = i
  <2>1. i \in 0..Blocks /\ 1 \in Int /\ device \in {"fb", "kb", "tty"}
    BY <1>2, SizeTypes
  <2> HIDE DEF i, device
  <2> QED
    BY <2>1, NewBlocks
<1> HIDE DEF h1, h2, i, v, h3, device, new
<1>6. i # b /\ h1[i] = h[i] /\ IsHeap(h1)
  BY <1>2, <1>3, <1>4 DEF Recounted
<1>7. Recounted(h1, h2, i, 1)
  BY <1>2, <1>6, CountedBlock DEF h2, IsUsed
<1>8. Unused(h2) = Unused(h) /\ New(h2) = new /\ IsHeap(h2)
  BY <1>4, <1>7 DEF Recounted, New, new
<1>9. /\ IsHeap(h3) /\ h3[new] = v
      /\ \A c \in 1..Blocks : c # new => h3[c] = h2[c]
  BY <1>5, <1>8, PutBlock DEF h3, IsUsed
<1>10. new \in 1..Blocks /\ h[new] = Free /\ new # NULL
  BY NewIsUnused DEF new
<1>11. \A c \in Owned(h, short) : c \in 1..Blocks /\ c # new
  BY <1>10, OwnedIs
<1>12. \A c \in 1..Blocks : c # new /\ c # i /\ c # b => h3[c] = h[c]
  BY <1>4, <1>7, <1>9 DEF Recounted
<1>13. h3[b] = h1[b] /\ h3[i] = h2[i]
  BY <1>2, <1>3, <1>6, <1>7, <1>9, <1>11 DEF Recounted
<1>14. Alike(h[i], h3[i]) /\ CountsMore(h[i], h3[i], 1)
  BY <1>6, <1>7, <1>13 DEF Recounted
<1>15. Alike(h[b], h3[b])
  BY <1>2, <1>4, <1>13
<1>16. Uses(h3, e) = i
  BY <1>5, <1>9, <1>10 DEF Uses, new
<1>17. Holds(h3, e)
  <2>1. (device = "fb" /\ IsFb(h3[i])) \/ (device = "tty" /\ IsTty(h3[i]))
    BY <1>2, <1>14 DEF Alike, i, device
  <2> QED
    BY <1>2, <1>5, <1>9, <1>10, <2>1 DEF Holds, new, i
<1>18. AllAlike(h, h3, Owned(h, short))
  <2>1. ASSUME NEW c \in Owned(h, short)
        PROVE  Alike(h[c], h3[c])
    <3>1. c # i /\ c # b => Alike(h[c], h3[c])
      BY <1>11, <1>12, SameBlock
    <3> QED
      BY <1>14, <1>15, <3>1
  <2> QED
    BY <2>1 DEF AllAlike
<1>19. ASSUME NEW c \in 1..Blocks, Users(h, short, c) # {}
       PROVE  CountsMore(h[c], h3[c], IF Uses(h3, e) = c THEN 1 ELSE 0)
  <2>1. c # b /\ h[c].dependents \in Int /\ c \in Owned(h, short)
    BY <1>4, <1>19, UsedCount
  <2>2. c # i => CountsMore(h[c], h3[c], 0)
    BY <1>11, <1>12, <2>1, SameBlock
  <2> QED
    BY <1>14, <1>16, <2>2
<1>20. \A c \in 1..Blocks : h[c] # Free /\ c \notin Owned(h, short) => h3[c] = h[c]
  BY <1>3, <1>10, <1>12
<1>21. Users(h, short, Uses(h3, e)) # {} /\ h[e.data] = Free
  BY <1>3, <1>10, <1>16 DEF new
<1>22. Adds(h, short, h3, e)
  BY <1>9, <1>17, <1>18, <1>19, <1>20, <1>21, Zenon DEF Adds
<1> QED
  BY <1>22 DEF h3, h2, h1, i, v, device

LEMMA DupAdds ==
  ASSUME NEW h, IsHeap(h), NEW short, ListSound(h, short), NEW j \in 1..Len(short),
         short[j].data # NULL, Unused(h) # {}, NEW id \in Int
  PROVE  LET e == Descriptor(id, short[j].device, Dup(h, short[j]).data)
         IN e \in OpenDescriptor /\ Adds(h, short, Dup(h, short[j]).heap, e)
<1> DEFINE old == short[j]
           b == old.data
           dup == Dup(h, old)
           e == Descriptor(id, old.device, dup.data)
<1>1. old \in OpenDescriptor /\ Holds(h, old)
  BY EntriesOf DEF ListSound
<1>2. b \in 1..Blocks /\ b \in 0..Blocks /\ (old.device = "ramdisk" \/ old.device = "devices")
  BY <1>1, EntryFields
<1>3. CASE old.device = "ramdisk"
  <2>1. dup = Opened(Counted(h, b), b)
    BY <1>3 DEF Dup
  <2>2. dup.heap = Counted(h, b) /\ dup.data = b
    BY <2>1, Results
  <2> HIDE DEF dup
  <2>3. e \in OpenDescriptor /\ e.device = "ramdisk" /\ e.data = b
    BY <1>2, <1>3, <2>2, NewDescriptor
  <2> HIDE DEF e
  <2>4. Adds(h, short, Counted(h, b), e)
    BY <1>3, <2>3, DupFileAdds
  <2> QED
    BY <2>2, <2>3, <2>4 DEF e, dup
<1>4. CASE old.device = "devices" /\ h[b].device = "kb"
  <2>1. dup = Opened(Counted(h, b), NULL)
    BY <1>4, HasFunctions DEF Dup, device_dup
  <2>2. dup.heap = Counted(h, b) /\ dup.data = NULL
    BY <2>1, Results
  <2> HIDE DEF dup
  <2>3. e \in OpenDescriptor /\ e.device = "devices" /\ e.data = NULL
    <3>1. NULL \in 0..Blocks
      BY SizeTypes
    <3>2. dup.data \in 0..Blocks
      BY <2>2, <3>1, Zenon
    <3>3. old.device \in {"ramdisk", "devices"}
      BY <1>4
    <3>4. e \in OpenDescriptor /\ e.device = old.device /\ e.data = dup.data
      <4> DEFINE device == old.device
                 data == dup.data
      <4>1. device \in {"ramdisk", "devices"} /\ data \in 0..Blocks
        BY <3>2, <3>3
      <4> HIDE DEF device, data
      <4>2. /\ Descriptor(id, device, data) \in OpenDescriptor
            /\ Descriptor(id, device, data).device = device
            /\ Descriptor(id, device, data).data = data
        BY <4>1, NewDescriptor
      <4> QED
        BY <4>2 DEF device, data
    <3> QED
      BY <1>4, <2>2, <3>4, Zenon
  <2> HIDE DEF e
  <2>4. Adds(h, short, Counted(h, b), e)
    BY <1>4, <2>3, DupKeyboardAdds
  <2> QED
    BY <2>2, <2>3, <2>4 DEF e, dup
<1>5. CASE old.device = "devices" /\ h[b].device # "kb"
  <2>1. h[b].device \in {"fb", "tty"}
    BY <1>1, <1>5 DEF Holds
  <2> DEFINE h3 == Put(Counted(Counted(h, b), h[b].data),
                       DeviceFile(h[b].device, h[b].data, 1))
  <2>2. dup = Opened(h3, New(h))
    BY <1>5, <2>1, HasFunctions DEF Dup, device_dup
  <2>3. dup.heap = h3 /\ dup.data = New(h)
    BY <2>2, Results
  <2>4. New(h) \in 0..Blocks
    <3>1. New(h) \in 1..Blocks
      BY NewIsUnused
    <3> QED
      BY <3>1, SizeTypes
  <2> HIDE DEF dup
  <2>5. e \in OpenDescriptor /\ e.device = "devices" /\ e.data = New(h)
    BY <1>5, <2>3, <2>4, NewDescriptor
  <2> HIDE DEF e
  <2>6. Adds(h, short, h3, e)
    BY <1>5, <2>1, <2>5, DupDeviceAdds
  <2> QED
    BY <2>3, <2>5, <2>6 DEF e, dup
<1> QED
  BY <1>2, <1>3, <1>4, <1>5

-----------------------------------------------------------------------------
(* Cloning.                                                                *)

LEMMA SlotsGrow ==
  ASSUME NEW U \in SUBSET Nat, IsFiniteSet(U), NEW n \in Nat
  PROVE  Slots(U, n) \subseteq Slots(U, n + 1)
<1>1. ASSUME NEW b \in Slots(U, n)
      PROVE  b \in Slots(U, n + 1)
  <2> DEFINE S == {c \in U : c < b}
  <2>1. b \in U /\ Cardinality(S) < n /\ S \in SUBSET U
    BY DEF Slots
  <2>2. IsFiniteSet(S)
    BY <2>1, FS_Subset
  <2> HIDE DEF S
  <2>3. Cardinality(S) \in Nat
    BY <2>2, FS_CardinalityType
  <2>4. Cardinality(S) < n + 1
    BY <2>1, <2>3
  <2> QED
    BY <2>1, <2>4 DEF Slots, S
<1> QED
  BY <1>1

LEMMA CleanLess ==
  ASSUME NEW h, NEW g, NEW n \in Nat, Clean(h, g, n + 1)
  PROVE  Clean(h, g, n)
<1> DEFINE U == Unused(h)
<1>1. U \in SUBSET Nat /\ IsFiniteSet(U) /\ Cardinality(U) \in Nat
  BY UnusedType
<1> HIDE DEF U
<1>2. Slots(U, n) \subseteq Slots(U, n + 1)
  BY <1>1, SlotsGrow
<1>3. Cardinality(U) >= n + 1 /\ \A b \in Slots(U, n + 1) : g[b] \in Nat
  BY Zenon DEF Clean, U
<1>4. Cardinality(U) >= n
  BY <1>1, <1>3
<1>5. \A b \in Slots(U, n) : g[b] \in Nat
  BY <1>2, <1>3
<1> QED
  BY <1>4, <1>5, Zenon DEF Clean, U

\* What cloning gives, and that it takes at most two blocks.
ClonesTo(h, g, clone, device) ==
  /\ Gives(h, clone, device)
  /\ clone.ok => clone.data \in 0..Blocks
  /\ clone.ok => \A n \in Nat : Clean(h, g, (n + 1) + 1) => Clean(clone.heap, g, n)

LEMMA CloneFile ==
  ASSUME NEW h, IsHeap(h), NEW g, Clean(h, g, 2), NEW v, IsFile(v), v.dependents >= 1
  PROVE  ClonesTo(h, g, Opened(Put(h, v), New(h)), "ramdisk")
<1> DEFINE clone == Opened(Put(h, v), New(h))
           h2 == Put(h, v)
<1>1. clone.ok /\ clone.heap = h2 /\ clone.data = New(h)
  BY Results
<1>2. Unused(h) # {}
  <2>1. 1 \in Nat /\ 1 + 1 = 2
    OBVIOUS
  <2> QED
    BY <2>1, CleanTakes, Zenon
<1>3. New(h) \in 0..Blocks
  <2>1. New(h) \in 1..Blocks
    BY <1>2, NewIsUnused
  <2> QED
    BY <2>1, SizeTypes
<1>4. Unused(h2) = Unused(h) \ {New(h)}
  BY <1>2, PutBlock DEF IsUsed
<1>5. Gives(h, clone, "ramdisk")
  BY <1>2, FileGives
<1> HIDE DEF clone, h2
<1>6. ASSUME NEW n \in Nat, Clean(h, g, (n + 1) + 1)
      PROVE  Clean(h2, g, n)
  <2> DEFINE m == n + 1
  <2>1. m \in Nat
    OBVIOUS
  <2>2. Clean(h, g, m + 1)
    BY <1>6
  <2> HIDE DEF m
  <2>3. Clean(h2, g, m)
    BY <1>4, <2>1, <2>2, CleanTakes
  <2> QED
    BY <2>3, CleanLess DEF m
<1> QED
  BY <1>1, <1>3, <1>5, <1>6, Zenon DEF ClonesTo, clone

LEMMA CloneFails ==
  ASSUME NEW h, NEW g, NEW h2, Leaks(h, h2), NEW device
  PROVE  ClonesTo(h, g, Failed(h2), device)
BY FailedGives, Results DEF ClonesTo

LEMMA CloneKeyboard ==
  ASSUME NEW h, IsHeap(h), NEW g, Clean(h, g, 2), NEW n0 \in Int
  PROVE  ClonesTo(h, g, Opened(Put(h, DeviceFile("kb", NULL, n0)), New(h)), "devices")
<1> DEFINE v == DeviceFile("kb", NULL, n0)
           h2 == Put(h, v)
           b == New(h)
           clone == Opened(h2, b)
<1>1. clone.ok /\ clone.heap = h2 /\ clone.data = b
  BY Results
<1>2. Unused(h) # {}
  <2>1. 1 \in Nat /\ 1 + 1 = 2
    OBVIOUS
  <2> QED
    BY <2>1, CleanTakes, Zenon
<1>3. b \in 1..Blocks /\ h[b] = Free
  BY <1>2, NewIsUnused
<1>4. IsDeviceFile(v) /\ v.device = "kb" /\ v.data = NULL
  <2>1. NULL \in 0..Blocks
    BY SizeTypes
  <2> QED
    BY <2>1, NewBlocks
<1> HIDE DEF v
<1>5. Unused(h2) = Unused(h) \ {b} /\ h2[b] = v /\ Leaks(h, h2)
  BY <1>2, <1>4, PutBlock, PutLeaks DEF IsUsed
<1> HIDE DEF clone, h2, b
<1>6. Gives(h, Opened(h2, b), "devices")
  BY <1>3, <1>4, <1>5, DeviceGives
<1>7. ASSUME NEW n \in Nat, Clean(h, g, (n + 1) + 1)
      PROVE  Clean(h2, g, n)
  <2> DEFINE m == n + 1
  <2>1. m \in Nat
    OBVIOUS
  <2>2. Clean(h, g, m + 1)
    BY <1>7
  <2> HIDE DEF m
  <2>3. Clean(h2, g, m)
    BY <1>5, <2>1, <2>2, CleanTakes DEF b
  <2> QED
    BY <2>3, CleanLess DEF m
<1>8. b \in 0..Blocks
  BY <1>3, SizeTypes
<1>9. ClonesTo(h, g, clone, "devices")
  BY <1>1, <1>6, <1>7, <1>8, Zenon DEF ClonesTo, clone
<1> QED
  BY <1>9 DEF clone, h2, b, v

LEMMA RewrittenUnused ==
  ASSUME NEW h, IsHeap(h), NEW b, h[b] # Free, NEW v, IsDeviceFile(v),
         NEW h2, SetsBlock(h, h2, b, v)
  PROVE  Unused(h2) = Unused(h)
<1>1. v # Free /\ IsBlock(v)
  BY FreeBlocks DEF IsBlock, IsUsed
<1>2. b \in 1..Blocks /\ h2[b] = v /\ \A c \in 1..Blocks : c # b => h2[c] = h[c]
  BY <1>1, SetBlock
<1> QED
  BY <1>1, <1>2 DEF Unused

\* The copy of a terminal's device file, and its block w.
TerminalCopy(h, g, data, n, h1, w, h3) ==
  /\ h1 = Put(h, DeviceFile("tty", data, n))
  /\ w = Terminal(g[New(h1)] + 1)
  /\ h3 = [Put(h1, w) EXCEPT ![New(h)].data = New(h1)]

LEMMA CloneTerminal ==
  ASSUME NEW h, IsHeap(h), NEW g, Clean(h, g, 2), NEW data \in 0..Blocks, NEW n0 \in Int,
         NEW h1, NEW w, NEW h3, TerminalCopy(h, g, data, n0, h1, w, h3)
  PROVE  ClonesTo(h, g, Opened(h3, New(h)), "devices")
<1> DEFINE v == DeviceFile("tty", data, n0)
           b == New(h)
           c == New(h1)
           h2 == Put(h1, w)
           v2 == DeviceFile("tty", c, n0)
           clone == Opened(h3, b)
<1>1. clone.ok /\ clone.heap = h3 /\ clone.data = b
  BY Results
<1>2. Unused(h) # {} /\ \A h4 : Unused(h4) = Unused(h) \ {b} => Clean(h4, g, 1)
  <2>1. 1 \in Nat /\ 1 + 1 = 2
    OBVIOUS
  <2> QED
    BY <2>1, CleanTakes, Zenon
<1>3. b \in 1..Blocks /\ h[b] = Free
  BY <1>2, NewIsUnused
<1>4. IsDeviceFile(v) /\ v # Free
  <2>1. IsDeviceFile(v)
    BY NewBlocks
  <2> HIDE DEF v
  <2> QED
    BY <2>1, FreeBlocks
<1>5. h1 = Put(h, v)
  BY DEF TerminalCopy
<1> HIDE DEF v
<1>6. /\ Unused(h1) = Unused(h) \ {b} /\ h1[b] = v /\ Leaks(h, h1) /\ IsHeap(h1)
      /\ \A d \in 1..Blocks : d # b => h1[d] = h[d]
  BY <1>2, <1>4, <1>5, PutBlock, PutLeaks DEF IsUsed
<1>7. Unused(h1) # {} /\ g[c] \in Nat
  <2>1. 0 \in Nat /\ 0 + 1 = 1
    OBVIOUS
  <2>2. Clean(h1, g, 1)
    BY <1>2, <1>6
  <2> QED
    BY <2>1, <2>2, CleanTakes, Zenon
<1>8. IsTty(w) /\ CountsFor(w, 1)
  <2>1. w = Terminal(g[c] + 1)
    BY DEF TerminalCopy
  <2> HIDE DEF c
  <2> QED
    BY <1>7, <2>1, NewBlocks
<1>9. c \in 1..Blocks /\ h1[c] = Free /\ c \in Unused(h1)
  BY <1>7, NewIsUnused
<1>10. c # b
  BY <1>4, <1>6, <1>9
<1> HIDE DEF b, c, v2
<1>11. /\ IsHeap(h2) /\ h2[c] = w /\ Unused(h2) = Unused(h1) \ {c}
       /\ \A d \in 1..Blocks : d # c => h2[d] = h1[d]
  BY <1>6, <1>7, <1>8, PutBlock DEF IsUsed, c
<1>12. h2[b] = v
  BY <1>3, <1>6, <1>10, <1>11
<1>13. SetsBlock(h2, h3, b, v2)
  <2>1. h3 = [h2 EXCEPT ![b] = [h2[b] EXCEPT !.data = c]]
    BY Zenon DEF b, c, TerminalCopy
  <2>2. [v EXCEPT !.data = c] = v2
    BY DEF v, v2, DeviceFile
  <2>3. [h2[b] EXCEPT !.data = c] = v2
    BY <1>12, <2>2, Zenon
  <2>4. h3 = [h2 EXCEPT ![b] = v2]
    BY <2>1, <2>3, Zenon
  <2> QED
    BY <1>3, <2>4, Zenon DEF SetsBlock
<1>14. SetsBlock(Put(h1, w), h3, b, DeviceFile("tty", New(h1), n0))
  BY <1>13 DEF v2, c
<1>15. Gives(h, Opened(h3, b), "devices")
  <2>1. h1[b] # Free
    BY <1>4, <1>6
  <2> DEFINE device == "tty"
  <2>2. (device = "fb" /\ IsFb(w)) \/ (device = "tty" /\ IsTty(w))
    BY <1>8
  <2>3. SetsBlock(Put(h1, w), h3, b, DeviceFile(device, New(h1), n0))
    BY <1>14
  <2> HIDE DEF device
  <2> QED
    BY <1>3, <1>6, <1>7, <1>8, <2>1, <2>2, <2>3, WithInner
<1>16. Unused(h3) = Unused(h2)
  <2>1. IsDeviceFile(v2)
    <3>1. c \in 0..Blocks
      BY <1>9, SizeTypes
    <3> QED
      BY <3>1, NewBlocks DEF v2
  <2>2. IsHeap(h2) /\ h2[b] # Free
    BY <1>4, <1>11, <1>12
  <2> HIDE DEF h2
  <2> QED
    BY <1>13, <2>1, <2>2, RewrittenUnused, Zenon
<1>17. ASSUME NEW n \in Nat, Clean(h, g, (n + 1) + 1)
       PROVE  Clean(h3, g, n)
  <2> DEFINE m == n + 1
  <2>1. m \in Nat
    OBVIOUS
  <2>2. Clean(h, g, m + 1)
    BY <1>17
  <2> HIDE DEF m
  <2>3. Clean(h1, g, m)
    BY <1>6, <2>1, <2>2, CleanTakes DEF b
  <2>4. Clean(h1, g, n + 1)
    BY <2>3 DEF m
  <2>5. Unused(h3) = Unused(h1) \ {New(h1)}
    BY <1>11, <1>16 DEF c
  <2> QED
    BY <2>4, <2>5, CleanTakes
<1>18. b \in 0..Blocks
  BY <1>3, SizeTypes
<1> HIDE DEF clone
<1>19. ClonesTo(h, g, clone, "devices")
  BY <1>1, <1>15, <1>17, <1>18, Zenon DEF ClonesTo, clone
<1> QED
  BY <1>19 DEF clone, b

LEMMA CloneDevice ==
  ASSUME NEW h, IsHeap(h), NEW g, Clean(h, g, 2), NEW e \in OpenDescriptor, Holds(h, e),
         e.device = "devices"
  PROVE  ClonesTo(h, g, device_clone(h, e.data, g), "devices")
<1> DEFINE b == e.data
           clone == device_clone(h, b, g)
<1>1. Unused(h) # {} /\ g[New(h)] \in Nat
  <2>1. 1 \in Nat /\ 1 + 1 = 2
    OBVIOUS
  <2> QED
    BY <2>1, CleanTakes, Zenon
<1>2. CASE b = NULL
  <2> DEFINE v == DeviceFile("none", NULL, g[New(h)])
  <2>1. clone = Failed(Put(h, v))
    BY <1>2 DEF device_clone
  <2>2. IsLeft(v)
    <3>1. g[New(h)] \in Int
      BY <1>1
    <3> DEFINE n == g[New(h)]
    <3> HIDE DEF n
    <3>2. IsLeft(DeviceFile("none", NULL, n))
      BY <3>1, NewBlocks DEF n
    <3> QED
      BY <3>2 DEF n
  <2> HIDE DEF v, clone
  <2>3. Leaks(h, Put(h, v))
    BY <1>1, <2>2, PutLeaks
  <2>4. ClonesTo(h, g, clone, "devices")
    BY <2>1, <2>3, CloneFails
  <2> QED
    BY <2>4 DEF clone
<1>3. CASE b # NULL
  <2> DEFINE open == h[b]
             new == New(h)
             v == DeviceFile(open.device, open.data, open.dependents)
             h1 == Put(h, v)
             w == Terminal(g[New(h1)] + 1)
             h3 == [Put(h1, w) EXCEPT ![new].data = New(h1)]
  <2>1. clone = IF "clone" \notin Functions(open.device) THEN Failed(h1)
                ELSE IF open.device = "kb" THEN Opened(h1, new)
                ELSE Opened(h3, new)
    BY <1>3, Zenon DEF device_clone
  <2>2. /\ IsDeviceFile(open)
        /\ \/ open.device = "kb" /\ open.data = NULL
           \/ open.device = "fb"
           \/ open.device = "tty"
    BY <1>3 DEF Holds
  <2>3. open.data \in 0..Blocks /\ open.dependents \in Int
        /\ open.device \in {"fb", "kb", "tty"}
    BY <2>2 DEF IsDeviceFile
  <2>4. CASE open.device = "fb"
    <3>1. clone = Failed(h1)
      BY <2>1, <2>4, HasFunctions
    <3>2. IsDeviceFile(v)
      <4> HIDE DEF open
      <4> QED
        BY <2>3, NewBlocks
    <3> HIDE DEF v, clone
    <3>3. Leaks(h, h1)
      BY <1>1, <3>2, PutLeaks DEF IsUsed
    <3>4. ClonesTo(h, g, clone, "devices")
      BY <3>1, <3>3, CloneFails
    <3> QED
      BY <3>4 DEF clone
  <2>5. CASE open.device = "kb"
    <3>1. clone = Opened(h1, new)
      BY <2>1, <2>5, HasFunctions
    <3>2. v = DeviceFile("kb", NULL, open.dependents)
      BY <2>2, <2>5
    <3> HIDE DEF v, clone
    <3> DEFINE n == open.dependents
    <3>3. n \in Int /\ h1 = Put(h, DeviceFile("kb", NULL, n))
      BY <2>3, <3>2
    <3> HIDE DEF n, h1
    <3>4. ClonesTo(h, g, Opened(Put(h, DeviceFile("kb", NULL, n)), New(h)), "devices")
      BY <3>3, CloneKeyboard
    <3>5. ClonesTo(h, g, clone, "devices")
      BY <3>1, <3>3, <3>4
    <3> QED
      BY <3>5 DEF clone
  <2>6. CASE open.device = "tty"
    <3>1. clone = Opened(h3, new)
      BY <2>1, <2>6, HasFunctions
    <3> DEFINE n == open.dependents
               data == open.data
    <3>2. n \in Int /\ data \in 0..Blocks /\ h1 = Put(h, DeviceFile("tty", data, n))
      BY <2>3, <2>6
    <3> HIDE DEF n, data, h1, w, clone
    <3>3. TerminalCopy(h, g, data, n, h1, w, h3)
      BY <3>2, Zenon DEF TerminalCopy, w
    <3> HIDE DEF h3
    <3>4. ClonesTo(h, g, Opened(h3, New(h)), "devices")
      BY <3>2, <3>3, CloneTerminal
    <3>5. ClonesTo(h, g, clone, "devices")
      BY <3>1, <3>4
    <3> QED
      BY <3>5 DEF clone
  <2> QED
    BY <2>3, <2>4, <2>5, <2>6
<1> QED
  BY <1>2, <1>3

LEMMA CloneGives ==
  ASSUME NEW h, IsHeap(h), NEW g, Clean(h, g, 2), NEW e \in OpenDescriptor, Holds(h, e),
         e.device = "ramdisk" => h[e.data].dependents >= 1
  PROVE  ClonesTo(h, g, Clone(h, e, g), e.device)
<1>1. CASE e.device = "ramdisk"
  <2>1. IsFile(h[e.data]) /\ h[e.data].dependents >= 1
    BY <1>1 DEF Holds
  <2>2. Clone(h, e, g) = Opened(Put(h, h[e.data]), New(h))
    BY <1>1 DEF Clone
  <2> QED
    BY <1>1, <2>1, <2>2, CloneFile
<1>2. CASE e.device = "devices"
  <2>1. Clone(h, e, g) = device_clone(h, e.data, g)
    BY <1>2 DEF Clone
  <2> QED
    BY <1>2, <2>1, CloneDevice
<1> QED
  BY <1>1, <1>2, EntryFields

-----------------------------------------------------------------------------
(* Cloning a list.                                                         *)

\* What f leads to, descriptor by descriptor.
ClonesUpto(h, list, g, n, f) ==
  f = [i \in 0..n |-> IF i = 0 THEN Opened(h, <<>>) ELSE CloneNext(f[i - 1], list[i], g)]

ClonesInTurn(h, list, g, n, f) ==
  /\ f[0] = Opened(h, <<>>)
  /\ \A i \in 1..n : f[i] = CloneNext(f[i - 1], list[i], g)

LEMMA ClonesBoth ==
  ASSUME NEW h, NEW list, NEW g, NEW n \in Nat, NEW f, ClonesUpto(h, list, g, n, f)
  PROVE  ClonesInTurn(h, list, g, n, f)
BY DEF ClonesUpto, ClonesInTurn

LEMMA ClonesExist ==
  ASSUME NEW h, NEW list, NEW g, NEW m \in Nat
  PROVE  \E f : ClonesUpto(h, list, g, m, f)
<1> DEFINE none == Opened(h, <<>>)
           T == {n \in 0..m : \E f : ClonesUpto(h, list, g, n, f)}
<1> HIDE DEF none
<1>1. 0 \in T
  <2> DEFINE f == [i \in 0..0 |-> none]
  <2>1. ClonesUpto(h, list, g, 0, f)
    BY DEF ClonesUpto, none
  <2> QED
    BY <2>1
<1>2. ASSUME NEW n \in 1..m, n - 1 \in T
      PROVE  n \in T
  <2>1. PICK f : ClonesUpto(h, list, g, n - 1, f)
    BY <1>2
  <2>2. n - 1 \in Nat
    OBVIOUS
  <2>3. ClonesInTurn(h, list, g, n - 1, f)
    BY <2>1, <2>2, ClonesBoth
  <2> DEFINE k == [i \in 0..n |-> IF i = n THEN CloneNext(f[n - 1], list[n], g) ELSE f[i]]
  <2>4. k[0] = none
    BY <2>3 DEF ClonesInTurn, none
  <2>5. ASSUME NEW i \in 1..n
        PROVE  k[i] = CloneNext(k[i - 1], list[i], g)
    <3>1. k[i - 1] = f[i - 1]
      OBVIOUS
    <3>2. CASE i = n
      <4>1. k[i] = CloneNext(f[i - 1], list[i], g)
        BY <3>2
      <4> QED
        BY <3>1, <4>1, Zenon
    <3>3. CASE i # n
      <4>1. k[i] = f[i] /\ i \in 1..(n - 1)
        BY <3>3
      <4>2. f[i] = CloneNext(f[i - 1], list[i], g)
        BY <2>3, <4>1, Zenon DEF ClonesInTurn
      <4> QED
        BY <3>1, <4>1, <4>2, Zenon
    <3> QED
      BY <3>2, <3>3
  <2> HIDE DEF k
  <2>6. k = [i \in 0..n |-> k[i]]
    BY DEF k
  <2>7. ASSUME NEW i \in 0..n
        PROVE  k[i] = IF i = 0 THEN none ELSE CloneNext(k[i - 1], list[i], g)
    <3>1. CASE i = 0
      BY <2>4, <3>1, Zenon
    <3>2. CASE i # 0
      <4>1. i \in 1..n
        BY <3>2
      <4> QED
        BY <2>5, <3>2, <4>1, Zenon
    <3> QED
      BY <3>1, <3>2, Zenon
  <2>8. [i \in 0..n |-> k[i]]
          = [i \in 0..n |-> IF i = 0 THEN none ELSE CloneNext(k[i - 1], list[i], g)]
    BY <2>7, Zenon
  <2>9. k = [i \in 0..n |-> IF i = 0 THEN none ELSE CloneNext(k[i - 1], list[i], g)]
    BY <2>6, <2>8, Zenon
  <2>10. ClonesUpto(h, list, g, n, k)
    BY <2>9, Zenon DEF ClonesUpto, none
  <2> QED
    BY <2>10
<1> HIDE DEF T
<1>3. 0..m \subseteq T
  BY <1>1, <1>2, Upwards
<1> QED
  BY <1>3 DEF T

LEMMA ClonesAre ==
  ASSUME NEW h, NEW list, NEW g, Len(list) \in Nat
  PROVE  \E f : ClonesUpto(h, list, g, Len(list), f)
                /\ clone_file_descriptors(h, list, g) = f[Len(list)]
<1> DEFINE u == CHOOSE f : ClonesUpto(h, list, g, Len(list), f)
<1>1. \E f : ClonesUpto(h, list, g, Len(list), f)
  BY ClonesExist
<1>2. ClonesUpto(h, list, g, Len(list), u)
  BY <1>1, Zenon
<1>3. clone_file_descriptors(h, list, g) = u[Len(list)]
  BY Zenon DEF clone_file_descriptors, ClonesUpto
<1> QED
  BY <1>2, <1>3, Zenon

\* The first i descriptors of list are cloned, or one of them was not.
ClonedUpto(h, list, g, i, c) ==
  IF c.ok
  THEN /\ Within(h, <<>>, c.heap, c.data) /\ Len(c.data) = i
       /\ Clean(c.heap, g, 2 * (Len(list) - i))
  ELSE Leaks(h, c.heap)

LEMMA NoneSound ==
  ASSUME NEW h
  PROVE  ListSound(h, <<>>) /\ Owned(h, <<>>) = {} /\ Len(<<>>) = 0
<1> DEFINE none == <<>>
<1>1. none \in Seq(OpenDescriptor) /\ Len(none) = 0 /\ 1..Len(none) = {}
  OBVIOUS
<1> HIDE DEF none
<1>2. \A b : Users(h, none, b) = {}
  BY <1>1 DEF Users
<1>3. Owned(h, none) = {}
  BY <1>1 DEF Owned
<1>4. ListSound(h, none)
  BY <1>1, <1>2 DEF ListSound, Apart
<1> QED
  BY <1>1, <1>3, <1>4 DEF none

LEMMA WithinNothing ==
  ASSUME NEW h, NEW h2, NEW list, Within(h, <<>>, h2, list)
  PROVE  Leaks(h, h2) /\ \A b \in Owned(h2, list) : h[b] = Free
<1>1. Owned(h, <<>>) = {}
  BY NoneSound
<1> DEFINE none == <<>>
<1> HIDE DEF none
<1>2. Within(h, none, h2, list) /\ Owned(h, none) = {}
  BY <1>1 DEF none
<1> QED
  BY <1>2 DEF Within, Leaks

LEMMA AppendedGrows ==
  ASSUME NEW list \in Seq(OpenDescriptor), NEW e \in OpenDescriptor
  PROVE  Grows(list, Append(list, e), Len(list) + 1, e)
BY DEF Grows

LEMMA ClonedDescriptor ==
  ASSUME NEW e \in OpenDescriptor, NEW data \in 0..Blocks
  PROVE  /\ [e EXCEPT !.data = data] = Descriptor(e.descriptor_id, e.device, data)
         /\ e.descriptor_id \in Int
BY DEF OpenDescriptor, Descriptor

LEMMA CloneNextIs ==
  ASSUME NEW h, IsHeap(h), NEW list, ListSound(h, list), NEW g, NEW i \in 1..Len(list),
         NEW c, ClonedUpto(h, list, g, i - 1, c)
  PROVE  ClonedUpto(h, list, g, i, CloneNext(c, list[i], g))
<1> DEFINE e == list[i]
           clone == Clone(c.heap, e, g)
           next == CloneNext(c, e, g)
           k == Len(list) - i
<1>1. list \in Seq(OpenDescriptor) /\ e \in OpenDescriptor /\ Holds(h, e) /\ Len(list) \in Nat
  BY EntriesOf DEF ListSound
<1>2. CASE ~c.ok
  <2>1. next = c
    BY <1>2 DEF CloneNext
  <2> HIDE DEF next
  <2> QED
    BY <1>2, <2>1 DEF ClonedUpto, next
<1>3. CASE c.ok
  <2>1. Within(h, <<>>, c.heap, c.data) /\ Len(c.data) = i - 1
        /\ Clean(c.heap, g, 2 * (Len(list) - (i - 1)))
    BY <1>3 DEF ClonedUpto
  <2>2. Leaks(h, c.heap) /\ ListSound(c.heap, c.data) /\ IsHeap(c.heap)
    BY <2>1, WithinNothing DEF Within
  <2>3. Same(h, c.heap, Owned(h, list))
    BY <2>2, OwnedIs DEF Leaks, Same
  <2>4. ListSound(c.heap, list)
    BY <2>3, ListSame
  <2>5. Holds(c.heap, e)
    BY <2>4 DEF ListSound
  <2>6. e.device = "ramdisk" => c.heap[e.data].dependents >= 1
    <3>1. SUFFICES ASSUME e.device = "ramdisk"
                   PROVE  c.heap[e.data].dependents >= 1
      OBVIOUS
    <3> DEFINE b == e.data
               U == Users(c.heap, list, b)
    <3>2. b \in 1..Blocks /\ i \in U
      BY <2>5, <3>1 DEF Holds, Users, Uses
    <3>3. Cardinality(U) \in Nat /\ Cardinality(U) >= 1
      BY <1>1, <3>2, UsersCount
    <3>4. CountsFor(c.heap[b], Cardinality(U)) /\ c.heap[b].dependents \in Int
      BY <2>4, <3>2, UsedCount
    <3> HIDE DEF U
    <3> QED
      BY <3>3, <3>4 DEF CountsFor
  <2>7. k \in Nat /\ 2 * (Len(list) - (i - 1)) = (2 * k + 1) + 1 /\ 2 * k \in Nat
        /\ 2 * (Len(list) - i) = 2 * k
    BY <1>1
  <2>8. Clean(c.heap, g, (2 * k + 1) + 1)
    BY <2>1, <2>7, Zenon
  <2>9. Clean(c.heap, g, 2)
    <3> DEFINE T == {m \in 0..(2 * k) : Clean(c.heap, g, (((2 * k - m) + 1) + 1))}
    <3> HIDE DEF k
    <3>1. 0 \in T
      <4>1. 2 * k - 0 = 2 * k /\ 0 \in 0..(2 * k)
        BY <2>7
      <4> QED
        BY <2>8, <4>1
    <3>2. ASSUME NEW m \in 1..(2 * k), m - 1 \in T
          PROVE  m \in T
      <4> DEFINE r == ((2 * k - m) + 1) + 1
      <4>1. r \in Nat /\ ((2 * k - (m - 1)) + 1) + 1 = r + 1 /\ m \in 0..(2 * k)
        BY <2>7
      <4>2. Clean(c.heap, g, ((2 * k - (m - 1)) + 1) + 1)
        BY <3>2
      <4>3. Clean(c.heap, g, r + 1)
        BY <4>1, <4>2
      <4> HIDE DEF r
      <4>4. Clean(c.heap, g, r)
        BY <4>1, <4>3, CleanLess
      <4> QED
        BY <4>1, <4>4 DEF r
    <3> DEFINE n == 2 * k
    <3>3. n \in Nat /\ n \in 0..n
      BY <2>7
    <3>4. 0..n \subseteq T
      <4> HIDE DEF T
      <4> QED
        BY <3>1, <3>2, <3>3, Upwards
    <3>5. Clean(c.heap, g, ((2 * k - n) + 1) + 1)
      BY <3>3, <3>4
    <3>6. ((2 * k - n) + 1) + 1 = 2
      BY <2>7
    <3> QED
      BY <3>5, <3>6
  <2>10. ClonesTo(c.heap, g, clone, e.device)
    BY <1>1, <2>2, <2>5, <2>6, <2>9, CloneGives
  <2>11. next = [ok |-> clone.ok, heap |-> clone.heap,
                 data |-> Append(c.data, [e EXCEPT !.data = clone.data])]
    BY <1>3, Zenon DEF CloneNext
  <2> HIDE DEF clone, next, e
  <2>12. next.ok = clone.ok /\ next.heap = clone.heap
         /\ next.data = Append(c.data, [e EXCEPT !.data = clone.data])
    BY <2>11
  <2>13. CASE ~clone.ok
    <3>1. Leaks(h, clone.heap)
      BY <2>2, <2>10, LeaksBoth DEF ClonesTo, Gives
    <3>2. ClonedUpto(h, list, g, i, next)
      BY <2>12, <2>13, <3>1, Zenon DEF ClonedUpto
    <3> QED
      BY <3>2 DEF next, e
  <2>14. CASE clone.ok
    <3> DEFINE f == Descriptor(e.descriptor_id, e.device, clone.data)
               long == Append(c.data, f)
    <3>1. clone.data \in 0..Blocks /\ Gives(c.heap, clone, e.device)
      BY <2>10, <2>14 DEF ClonesTo
    <3>2. next.data = long /\ e.descriptor_id \in Int
      BY <1>1, <2>12, <3>1, ClonedDescriptor DEF e
    <3>3. Fresh(c.heap, clone.heap, f)
      BY <2>14, <3>1, <3>2 DEF Gives
    <3> HIDE DEF f
    <3>4. f \in OpenDescriptor /\ c.data \in Seq(OpenDescriptor)
      BY <2>2, <3>3 DEF Fresh, ListSound
    <3>5. Grows(c.data, long, Len(c.data) + 1, f)
      BY <3>4, AppendedGrows
    <3>6. Len(long) = i
      <4>1. Len(long) = Len(c.data) + 1
        BY <3>4
      <4> QED
        BY <2>1, <4>1
    <3> HIDE DEF long
    <3>7. Within(c.heap, c.data, clone.heap, long)
      BY <2>2, <3>3, <3>5, FreshWithin
    <3>8. Within(h, <<>>, clone.heap, long)
      BY <2>1, <3>7, WithinBoth
    <3>9. Clean(clone.heap, g, 2 * k)
      BY <2>7, <2>8, <2>10, <2>14 DEF ClonesTo
    <3>10. Clean(clone.heap, g, 2 * (Len(list) - i))
      BY <2>7, <3>9, Zenon
    <3>11. ClonedUpto(h, list, g, i, next)
      BY <2>12, <2>14, <3>2, <3>6, <3>8, <3>10, Zenon DEF ClonedUpto
    <3> QED
      BY <3>11 DEF next, e
  <2> QED
    BY <2>13, <2>14
<1> QED
  BY <1>2, <1>3

LEMMA ClonedList ==
  ASSUME NEW h, IsHeap(h), NEW list, ListSound(h, list), NEW g,
         Clean(h, g, 2 * Len(list))
  PROVE  ClonedUpto(h, list, g, Len(list), clone_file_descriptors(h, list, g))
<1> DEFINE n == Len(list)
           clone == clone_file_descriptors(h, list, g)
           none == <<>>
<1>1. n \in Nat /\ list \in Seq(OpenDescriptor)
  BY EntriesOf DEF ListSound
<1>2. PICK f : ClonesUpto(h, list, g, n, f) /\ clone = f[n]
  BY <1>1, ClonesAre
<1>3. ClonesInTurn(h, list, g, n, f)
  BY <1>1, <1>2, ClonesBoth
<1> HIDE DEF clone
<1> DEFINE T == {i \in 0..n : ClonedUpto(h, list, g, i, f[i])}
<1>4. 0 \in T
  <2>1. f[0] = Opened(h, none)
    BY <1>3, Zenon DEF ClonesInTurn
  <2>2. f[0].ok /\ f[0].heap = h /\ f[0].data = none
    BY <2>1, Results
  <2>3. ListSound(h, none) /\ Len(none) = 0
    BY NoneSound
  <2>4. Within(h, none, h, none)
    BY <2>3, WithinNone
  <2>5. 2 * (Len(list) - 0) = 2 * Len(list) /\ 0 \in 0..n
    BY <1>1
  <2>6. Clean(h, g, 2 * (Len(list) - 0))
    BY <2>5, Zenon
  <2> DEFINE zero == 0
  <2>7. f[zero].ok /\ f[zero].heap = h /\ f[zero].data = none /\ Len(none) = zero
    BY <2>2, <2>3
  <2>8. Clean(h, g, 2 * (Len(list) - zero)) /\ zero \in 0..n
    BY <2>5, <2>6
  <2> HIDE DEF zero, n
  <2>9. ClonedUpto(h, list, g, zero, f[zero])
    <3>1. Within(h, <<>>, f[zero].heap, f[zero].data)
      BY <2>4, <2>7, Zenon DEF none
    <3> QED
      BY <2>7, <2>8, <3>1, Zenon DEF ClonedUpto
  <2> QED
    BY <2>8, <2>9 DEF zero
<1>5. ASSUME NEW i \in 1..n, i - 1 \in T
      PROVE  i \in T
  <2>1. f[i] = CloneNext(f[i - 1], list[i], g)
    BY <1>3 DEF ClonesInTurn
  <2>2. ClonedUpto(h, list, g, i - 1, f[i - 1])
    BY <1>5
  <2>3. ClonedUpto(h, list, g, i, CloneNext(f[i - 1], list[i], g))
    BY <2>2, CloneNextIs
  <2> QED
    BY <2>1, <2>3
<1> HIDE DEF T, n
<1>6. 0..n \subseteq T
  BY <1>1, <1>4, <1>5, Upwards
<1>7. n \in T
  BY <1>1, <1>6
<1>8. ClonedUpto(h, list, g, n, f[n])
  BY <1>7 DEF T
<1> QED
  BY <1>2, <1>8, Zenon DEF n, clone

-----------------------------------------------------------------------------
(* Where a descriptor is put.                                              *)

LEMMA PlaceIsThere ==
  ASSUME NEW list \in Seq(OpenDescriptor)
  PROVE  /\ Place(list) + 1 \in 1..(Len(list) + 1)
         /\ list # <<>> => Place(list) \in 1..Len(list)
<1> DEFINE gaps == {k \in 1..(Len(list) - 1) : GapAfter(list, k)}
<1>1. Len(list) \in Nat /\ (list # <<>> => Len(list) \in 1..Len(list))
  OBVIOUS
<1>2. gaps \subseteq Nat /\ gaps \subseteq 1..(Len(list) - 1)
  OBVIOUS
<1>3. Place(list) = IF gaps = {} THEN Len(list) ELSE Least(gaps)
  BY DEF Place
<1> HIDE DEF gaps
<1>4. CASE gaps = {}
  BY <1>1, <1>3, <1>4
<1>5. CASE gaps # {}
  <2>1. Least(gaps) \in gaps
    BY <1>2, <1>5, LeastIsLeast
  <2>2. Place(list) \in 1..(Len(list) - 1)
    BY <1>2, <1>3, <1>5, <2>1
  <2> QED
    BY <1>1, <2>2
<1> QED
  BY <1>4, <1>5

LEMMA NextIdIsInt ==
  ASSUME NEW list \in Seq(OpenDescriptor)
  PROVE  NextId(list) \in Int
<1>1. CASE list = <<>>
  BY <1>1 DEF NextId
<1>2. CASE list # <<>>
  <2>1. Place(list) \in 1..Len(list)
    BY <1>2, PlaceIsThere
  <2>2. list[Place(list)].descriptor_id \in Int
    BY <2>1, EntriesOf, EntryFields
  <2>3. \A i \in Int : Incremented(i) \in Int
    BY SizeTypes DEF Incremented
  <2>4. NextId(list) = Incremented(list[Place(list)].descriptor_id)
    BY <1>2, Zenon DEF NextId
  <2> QED
    BY <2>2, <2>3, <2>4
<1> QED
  BY <1>1, <1>2

-----------------------------------------------------------------------------
(* The calls.                                                              *)

LEMMA ListTypes ==
  ASSUME FilesInv, NEW p \in Process
  PROVE  /\ ListOf(p) \in Seq(OpenDescriptor) /\ Len(ListOf(p)) \in Nat
         /\ ListSound(heap, ListOf(p)) /\ Len(ListOf(p)) <= MaxOpen
         /\ IsHeap(heap) /\ Within(heap, ListOf(p), heap, ListOf(p))
<1>1. /\ ListSound(heap, ListOf(p)) /\ Len(ListOf(p)) <= MaxOpen
      /\ IsHeap(heap)
  BY DEF FilesInv
<1>2. ListOf(p) \in Seq(OpenDescriptor)
  BY <1>1 DEF ListSound
<1> QED
  BY <1>1, <1>2, WithinNone

LEMMA kfopenIsSound ==
  ASSUME CountsFromZero, FilesInv, NEW p \in Process, kfopen(p)
  PROVE  FilesInv'
<1> DEFINE list == ListOf(p)
<1>1. /\ list \in Seq(OpenDescriptor) /\ Len(list) \in Nat
      /\ ListSound(heap, list) /\ Len(list) <= MaxOpen /\ IsHeap(heap)
  BY ListTypes
<1>0. PICK path \in PathArg, flags \in FlagArg :
        \E open \in Outcomes(path, flags) :
          Become(open.heap, p,
                 IF ~open.ok THEN list
                 ELSE InsertedAt(list, Place(list) + 1,
                                 Descriptor(NextId(list), MountOf(path).filesystem,
                                            open.data)))
  BY Zenon DEF kfopen, ListOf
<1>2. PICK open \in Outcomes(path, flags) :
        Become(open.heap, p,
               IF ~open.ok THEN list
               ELSE InsertedAt(list, Place(list) + 1,
                               Descriptor(NextId(list), MountOf(path).filesystem,
                                          open.data)))
  BY <1>0, Zenon
<1>3. Cardinality(Unused(heap)) >= 2 /\ Len(list) + 1 <= MaxOpen
  BY DEF kfopen, Calls, MayAdd, ListOf
<1> DEFINE e == Descriptor(NextId(list), MountOf(path).filesystem, open.data)
           long == InsertedAt(list, Place(list) + 1, e)
<1>4. Gives(heap, open, MountOf(path).filesystem)
  <2>1. PICK empty \in BOOLEAN, g \in Dirt(2) : open = Open(path, flags, empty, g)
    BY DEF Outcomes
  <2>2. Clean(heap, g, 2)
    BY <1>3, DirtIsClean
  <2> QED
    BY <1>1, <2>1, <2>2, OpenGives
<1>5. NextId(list) \in Int /\ Place(list) + 1 \in 1..(Len(list) + 1)
  BY <1>1, NextIdIsInt, PlaceIsThere
<1>6. CASE ~open.ok
  <2>1. Become(open.heap, p, list)
    BY <1>2, <1>6, Zenon
  <2>2. Leaks(heap, open.heap)
    BY <1>4, Zenon DEF Gives
  <2>3. Within(heap, list, open.heap, list)
    BY <1>1, <2>2, LeakWithin
  <2> QED
    BY <1>1, <2>1, <2>3, BecomesWithin
<1>7. CASE open.ok
  <2>1. Become(open.heap, p, long)
    BY <1>2, <1>7, Zenon
  <2>2. Fresh(heap, open.heap, e)
    BY <1>4, <1>5, <1>7, Zenon DEF Gives
  <2>3. e \in OpenDescriptor
    BY <2>2, Zenon DEF Fresh
  <2> HIDE DEF e
  <2>4. Grows(list, long, Place(list) + 1, e)
    BY <1>1, <1>5, <2>3, InsertedGrows
  <2>5. Within(heap, list, open.heap, long)
    BY <1>1, <2>2, <2>4, FreshWithin
  <2>6. Len(long) <= MaxOpen
    BY <1>3, <2>4 DEF Grows
  <2> HIDE DEF long
  <2> QED
    BY <2>1, <2>5, <2>6, BecomesWithin
<1> QED
  BY <1>6, <1>7

LEMMA kfcloseIsSound ==
  ASSUME FilesInv, NEW p \in Process, kfclose(p)
  PROVE  FilesInv'
<1> DEFINE list == ListOf(p)
<1>1. /\ list \in Seq(OpenDescriptor) /\ Len(list) \in Nat
      /\ ListSound(heap, list) /\ Len(list) <= MaxOpen /\ IsHeap(heap)
  BY ListTypes
<1>2. PICK k \in 1..Len(list) : Become(Close(heap, list[k]), p, Removed(list, k))
  BY DEF kfclose, ListOf
<1>3. Grows(Removed(list, k), list, k, list[k])
  BY <1>1, <1>2, RemovedGrows
<1>4. Within(heap, list, Close(heap, list[k]), Removed(list, k))
  BY <1>1, <1>3, CloseWithin
<1>5. Len(Removed(list, k)) <= MaxOpen
  BY <1>1, <1>3, SizeTypes DEF Grows
<1> QED
  BY <1>2, <1>4, <1>5, BecomesWithin

LEMMA Unheld ==
  ASSUME NEW h, Cardinality(Unused(h)) >= 1
  PROVE  Unused(h) # {}
<1> DEFINE U == Unused(h)
<1>1. Cardinality({}) = 0
  BY FS_EmptySet
<1>2. Cardinality(U) # 0
  <2>1. Cardinality(U) \in Nat
    BY UnusedType
  <2> HIDE DEF U
  <2>2. Cardinality(U) >= 1
    BY DEF U
  <2> QED
    BY <2>1, <2>2
<1> QED
  BY <1>1, <1>2

LEMMA kdup2IsSound ==
  ASSUME FilesInv, NEW p \in Process, kdup2(p)
  PROVE  FilesInv'
<1> DEFINE list == ListOf(p)
<1>1. /\ list \in Seq(OpenDescriptor) /\ Len(list) \in Nat
      /\ ListSound(heap, list) /\ Len(list) <= MaxOpen /\ IsHeap(heap)
  BY ListTypes
<1>2. PICK oldfd \in FdArg, newfd \in FdArg, k \in 1..Len(list), j \in 1..Len(list) :
        LET old == list[k]
            dup == Dup(heap, old)
            new == Descriptor(newfd, old.device, dup.data)
            isOpen == list[j].descriptor_id = newfd
            behind == IF list[j].descriptor_id > newfd THEN j ELSE j + 1
        IN /\ IsFound(list, oldfd, k)
           /\ StopsAt(list, newfd, j)
           /\ isOpen \/ MayAdd(p, 1)
           /\ old.data # NULL
           /\ heap[old.data].dependents < MaxCount
           /\ IF isOpen
              THEN Become(Close(dup.heap, list[j]), p, [list EXCEPT ![j] = new])
              ELSE Become(dup.heap, p, InsertedAt(list, behind, new))
  BY Zenon DEF kdup2, ListOf
<1> DEFINE old == list[k]
           dup == Dup(heap, old)
           new == Descriptor(newfd, old.device, dup.data)
           isOpen == list[j].descriptor_id = newfd
           behind == IF list[j].descriptor_id > newfd THEN j ELSE j + 1
<1>3. /\ Unused(heap) # {} /\ k \in 1..Len(list) /\ j \in 1..Len(list)
      /\ old.data # NULL /\ newfd \in Int
      /\ isOpen \/ Len(list) + 1 <= MaxOpen
  <2>1. /\ k \in 1..Len(list) /\ j \in 1..Len(list)
        /\ isOpen \/ MayAdd(p, 1)
        /\ old.data # NULL
    BY <1>2, Zenon
  <2>2. Calls(p, 1)
    BY DEF kdup2
  <2>3. newfd \in Int
    BY FilesAssumption
  <2> HIDE DEF list, isOpen, old
  <2>4. Unused(heap) # {}
    BY <2>2, Unheld DEF Calls
  <2>5. MayAdd(p, 1) => Len(list) + 1 <= MaxOpen
    BY Zenon DEF MayAdd, list, ListOf
  <2> QED
    BY <2>1, <2>3, <2>4, <2>5
<1>4. new \in OpenDescriptor /\ Adds(heap, list, dup.heap, new)
  BY <1>1, <1>3, DupAdds
<1>5. CASE isOpen
  <2> DEFINE long == InsertedAt(list, j, new)
             short == [list EXCEPT ![j] = new]
  <2>1. Become(Close(dup.heap, list[j]), p, short)
    BY <1>2, <1>5, Zenon
  <2>2. j \in 1..(Len(list) + 1)
    BY <1>1, <1>3
  <2> HIDE DEF new, dup
  <2>3. Grows(list, long, j, new)
    BY <1>1, <1>4, <2>2, InsertedGrows
  <2>4. Within(heap, list, dup.heap, long)
    BY <1>1, <1>4, <2>3, GrowWithin
  <2>5. Grows(short, long, j + 1, list[j])
    BY <1>1, <1>3, <1>4, ReplacedGrows
  <2>6. Len(short) <= MaxOpen
    BY <1>1
  <2> HIDE DEF long, short
  <2>7. IsHeap(dup.heap) /\ ListSound(dup.heap, long)
    BY <2>4, Zenon DEF Within
  <2>8. Within(dup.heap, long, Close(dup.heap, list[j]), short)
    BY <2>5, <2>7, CloseWithin
  <2>9. Within(heap, list, Close(dup.heap, list[j]), short)
    BY <2>4, <2>8, WithinBoth
  <2> QED
    BY <2>1, <2>6, <2>9, BecomesWithin
<1>6. CASE ~isOpen
  <2> DEFINE long == InsertedAt(list, behind, new)
  <2>1. Become(dup.heap, p, long)
    BY <1>2, <1>6, Zenon
  <2>2. behind \in 1..(Len(list) + 1)
    BY <1>1, <1>3
  <2> HIDE DEF new, dup, behind
  <2>3. Grows(list, long, behind, new)
    BY <1>1, <1>4, <2>2, InsertedGrows
  <2>4. Within(heap, list, dup.heap, long)
    BY <1>1, <1>4, <2>3, GrowWithin
  <2>5. Len(long) <= MaxOpen
    BY <1>3, <1>6, <2>3 DEF Grows
  <2> HIDE DEF long
  <2> QED
    BY <2>1, <2>4, <2>5, BecomesWithin
<1> QED
  BY <1>5, <1>6

\* A process has no list any more.
LEMMA EndIsSound ==
  ASSUME FilesInv, NEW p \in Process, NEW h, Leaks(heap, h), End(p, h)
  PROVE  FilesInv'
<1> DEFINE none == <<>>
<1>1. ListSound(h, none) /\ Owned(h, none) = {} /\ Len(none) = 0
  BY NoneSound
<1>2. Become(h, p, none)
  BY DEF End
<1> HIDE DEF none
<1>3. \A q \in Process \ {p} : Same(heap, h, Owned(heap, ListOf(q)))
  <2> TAKE q \in Process \ {p}
  <2>1. ListSound(heap, ListOf(q))
    BY DEF FilesInv
  <2>2. \A b \in Owned(heap, ListOf(q)) : b \in 1..Blocks /\ heap[b] # Free
    BY <2>1, OwnedIs
  <2> QED
    BY <2>2 DEF Leaks, Same
<1>4. \A q \in Process \ {p} : Owned(h, none) \cap Owned(heap, ListOf(q)) = {}
  BY <1>1
<1>5. IsHeap(h) /\ Len(none) <= MaxOpen
  BY <1>1, SizeTypes DEF Leaks
<1> QED
  BY <1>1, <1>2, <1>3, <1>4, <1>5, Becomes

LEMMA kforkIsSound ==
  ASSUME CountsFromZero, FilesInv, NEW p \in Process, NEW c \in Process, kfork(p, c)
  PROVE  FilesInv'
<1> DEFINE list == ListOf(p)
<1>1. /\ list \in Seq(OpenDescriptor) /\ Len(list) \in Nat
      /\ ListSound(heap, list) /\ Len(list) <= MaxOpen /\ IsHeap(heap)
  BY ListTypes
<1>2. PICK g \in Dirt(2 * Len(list)) :
        LET clone == clone_file_descriptors(heap, list, g)
        IN IF clone.ok THEN Become(clone.heap, c, clone.data) ELSE End(p, clone.heap)
  BY Zenon DEF kfork, ListOf
<1> DEFINE clone == clone_file_descriptors(heap, list, g)
<1>3. Cardinality(Unused(heap)) >= 2 * Len(list)
  BY DEF kfork, Calls, ListOf
<1>4. Clean(heap, g, 2 * Len(list))
  BY <1>3, DirtIsClean
<1>5. ClonedUpto(heap, list, g, Len(list), clone)
  BY <1>1, <1>4, ClonedList
<1>6. clone.ok => Become(clone.heap, c, clone.data)
  BY <1>2, Zenon
<1>7. ~clone.ok => End(p, clone.heap)
  BY <1>2, Zenon
<1> HIDE DEF clone
<1>8. CASE clone.ok
  <2>1. Within(heap, <<>>, clone.heap, clone.data) /\ Len(clone.data) = Len(list)
    BY <1>5, <1>8, Zenon DEF ClonedUpto
  <2>2. Leaks(heap, clone.heap) /\ \A b \in Owned(clone.heap, clone.data) : heap[b] = Free
    BY <2>1, WithinNothing
  <2>3. ASSUME NEW q \in Process \ {c}
        PROVE  /\ Same(heap, clone.heap, Owned(heap, ListOf(q)))
               /\ Owned(clone.heap, clone.data) \cap Owned(heap, ListOf(q)) = {}
    <3>1. ListSound(heap, ListOf(q))
      BY DEF FilesInv
    <3>2. \A b \in Owned(heap, ListOf(q)) : b \in 1..Blocks /\ heap[b] # Free
      BY <3>1, OwnedIs
    <3> QED
      BY <2>2, <3>2 DEF Leaks, Same
  <2>4. IsHeap(clone.heap) /\ ListSound(clone.heap, clone.data) /\ Len(clone.data) <= MaxOpen
    BY <1>1, <2>1 DEF Within
  <2>5. Become(clone.heap, c, clone.data)
    BY <1>6, <1>8
  <2> QED
    BY <2>3, <2>4, <2>5, Becomes
<1>9. CASE ~clone.ok
  <2>1. Leaks(heap, clone.heap)
    BY <1>5, <1>9, Zenon DEF ClonedUpto
  <2> QED
    BY <1>7, <1>9, <2>1, EndIsSound
<1> QED
  BY <1>8, <1>9

LEMMA kstatIsSound ==
  ASSUME CountsFromZero, FilesInv, NEW p \in Process, kstat(p)
  PROVE  FilesInv'
<1> DEFINE list == ListOf(p)
<1>1. /\ list \in Seq(OpenDescriptor) /\ Len(list) \in Nat
      /\ ListSound(heap, list) /\ Len(list) <= MaxOpen /\ IsHeap(heap)
  BY ListTypes
<1>0. PICK path \in PathArg :
        \E open \in Outcomes(path, {}) :
          LET e == Descriptor(0, MountOf(path).filesystem, open.data)
          IN Become(IF open.ok THEN Close(open.heap, e) ELSE open.heap, p, list)
  BY Zenon DEF kstat, ListOf
<1>2. PICK open \in Outcomes(path, {}) :
        LET e == Descriptor(0, MountOf(path).filesystem, open.data)
        IN Become(IF open.ok THEN Close(open.heap, e) ELSE open.heap, p, list)
  BY <1>0, Zenon
<1> DEFINE e == Descriptor(0, MountOf(path).filesystem, open.data)
<1>3. Gives(heap, open, MountOf(path).filesystem)
  <2>1. Cardinality(Unused(heap)) >= 2
    BY DEF kstat, Calls
  <2> DEFINE flags == {}
  <2>2. PICK empty \in BOOLEAN, g \in Dirt(2) : open = Open(path, flags, empty, g)
    BY DEF Outcomes
  <2>3. Clean(heap, g, 2)
    BY <2>1, DirtIsClean
  <2> HIDE DEF flags
  <2> QED
    BY <1>1, <2>2, <2>3, OpenGives
<1>4. CASE ~open.ok
  <2>1. Become(open.heap, p, list)
    BY <1>2, <1>4, Zenon
  <2>2. Leaks(heap, open.heap)
    BY <1>3, Zenon DEF Gives
  <2>3. Within(heap, list, open.heap, list)
    BY <1>1, <2>2, LeakWithin
  <2> QED
    BY <1>1, <2>1, <2>3, BecomesWithin
<1>5. CASE open.ok
  <2> DEFINE long == InsertedAt(list, 1, e)
  <2>1. Become(Close(open.heap, e), p, list)
    BY <1>2, <1>5, Zenon
  <2>2. Fresh(heap, open.heap, e)
    <3>1. 0 \in Int
      OBVIOUS
    <3> QED
      BY <1>3, <1>5, <3>1, Zenon DEF Gives
  <2>3. e \in OpenDescriptor /\ 1 \in 1..(Len(list) + 1)
    BY <1>1, <2>2 DEF Fresh
  <2> HIDE DEF e
  <2>4. Grows(list, long, 1, e)
    BY <1>1, <2>3, InsertedGrows
  <2> HIDE DEF long
  <2> DEFINE k == 1
  <2>5. Grows(list, long, k, e)
    BY <2>4
  <2> HIDE DEF k
  <2>6. Within(heap, list, open.heap, long)
    BY <1>1, <2>2, <2>5, FreshWithin
  <2>7. IsHeap(open.heap) /\ ListSound(open.heap, long)
    BY <2>6, Zenon DEF Within
  <2>8. Within(open.heap, long, Close(open.heap, e), list)
    BY <2>5, <2>7, CloseWithin
  <2>9. Within(heap, list, Close(open.heap, e), list)
    BY <2>6, <2>8, WithinBoth
  <2> QED
    BY <1>1, <2>1, <2>9, BecomesWithin
<1> QED
  BY <1>4, <1>5

\* What is read changes a position only.
Repositioned(b) ==
  /\ \E p \in Process : \E k \in 1..Len(ListOf(p)) :
       ListOf(p)[k].device = "ramdisk" /\ ListOf(p)[k].data = b
  /\ \E pos : heap' = [heap EXCEPT ![b].read_pos = pos]
  /\ UNCHANGED file_descriptors

LEMMA Positions ==
  ASSUME NEW v, IsFile(v), NEW pos, NEW w, w = [v EXCEPT !.read_pos = pos]
  PROVE  IsFile(w) /\ w.kind = v.kind /\ w.dependents = v.dependents + 0
BY DEF IsFile

LEMMA RepositionedIsSound ==
  ASSUME FilesInv, NEW b \in 1..Blocks, Repositioned(b)
  PROVE  FilesInv'
<1>0. PICK p \in Process : \E k \in 1..Len(ListOf(p)) :
        ListOf(p)[k].device = "ramdisk" /\ ListOf(p)[k].data = b
  BY DEF Repositioned
<1>1. PICK k \in 1..Len(ListOf(p)) :
        ListOf(p)[k].device = "ramdisk" /\ ListOf(p)[k].data = b
  BY <1>0
<1>2. PICK pos : heap' = [heap EXCEPT ![b].read_pos = pos]
  BY DEF Repositioned
<1>3. IsFile(heap[b])
  BY <1>1, ListTypes DEF ListSound, Holds
<1> DEFINE w == [heap[b] EXCEPT !.read_pos = pos]
<1>4. IsFile(w) /\ w.kind = heap[b].kind /\ w.dependents = heap[b].dependents + 0
  BY <1>3, Positions
<1>5. heap' = [heap EXCEPT ![b] = w]
  BY <1>2
<1> HIDE DEF w
<1>6. IsHeap(heap)
  BY DEF FilesInv
<1>7. SetsBlock(heap, heap', b, w) /\ IsBlock(w)
  BY <1>4, <1>5, Zenon DEF SetsBlock, IsBlock, IsUsed
<1>8. IsHeap(heap') /\ heap'[b] = w /\ \A c \in 1..Blocks : c # b => heap'[c] = heap[c]
  BY <1>6, <1>7, SetBlock
<1>9. \A c \in 1..Blocks : Alike(heap[c], heap'[c])
  <2> TAKE c \in 1..Blocks
  <2>1. CASE c = b
    <3>1. ~IsFb(heap[b]) /\ ~IsTty(heap[b]) /\ ~IsDeviceFile(heap[b])
      BY <1>3 DEF IsFile, IsFb, IsTty, IsDeviceFile
    <3> QED
      BY <1>4, <1>8, <2>1, <3>1 DEF Alike
  <2>2. CASE c # b
    BY <1>8, <2>2, Zenon DEF Alike
  <2> QED
    BY <2>1, <2>2
<1>10. ASSUME NEW q \in Process
       PROVE  ListSound(heap', ListOf(q)) /\ Owned(heap', ListOf(q)) = Owned(heap, ListOf(q))
  <2>1. ListSound(heap, ListOf(q))
    BY ListTypes
  <2>2. AllAlike(heap, heap', Owned(heap, ListOf(q)))
    BY <1>9, <2>1, OwnedIs DEF AllAlike
  <2>3. ASSUME NEW c \in 1..Blocks, Users(heap, ListOf(q), c) # {}
        PROVE  CountsMore(heap[c], heap'[c], 0)
    <3>1. CASE c = b
      BY <1>4, <1>8, <3>1, Zenon DEF CountsMore
    <3>2. CASE c # b
      <4>1. heap'[c] = heap[c] /\ heap[c].dependents \in Int
        BY <1>8, <2>1, <2>3, <3>2, UsedCount
      <4> QED
        BY <4>1, SameBlock
    <3> QED
      BY <3>1, <3>2
  <2> QED
    BY <2>1, <2>2, <2>3, ListAlike
<1>11. \A q \in Process : ListOf(q)' = ListOf(q)
  BY DEF Repositioned, ListOf
<1>12. file_descriptors' = file_descriptors
  BY DEF Repositioned
<1>13. \A c \in 1..Blocks :
         heap'[c] = Free \/ \E q \in Process : c \in Owned(heap, ListOf(q))
  <2> TAKE c \in 1..Blocks
  <2>1. CASE c = b
    <3>1. b # NULL
      BY SizeTypes
    <3>2. ListSound(heap, ListOf(p))
      BY ListTypes
    <3>3. b \in Owned(heap, ListOf(p))
      BY <1>1, <3>1, <3>2, OwnedIs
    <3> QED
      BY <2>1, <3>3
  <2>2. CASE c # b
    BY <1>8, <2>2 DEF FilesInv
  <2> QED
    BY <2>1, <2>2
<1> QED
  BY <1>8, <1>10, <1>11, <1>12, <1>13 DEF FilesInv

LEMMA OpenFilesAre ==
  ASSUME FilesInv, NEW p \in Process, NEW fd, NEW b \in OpenFiles(p, fd)
  PROVE  /\ b \in 1..Blocks
         /\ \E q \in Process : \E k \in 1..Len(ListOf(q)) :
              ListOf(q)[k].device = "ramdisk" /\ ListOf(q)[k].data = b
<1>1. PICK k \in 1..Len(ListOf(p)) :
        ListOf(p)[k].device = "ramdisk" /\ ListOf(p)[k].data = b
  <2>1. PICK k \in {j \in 1..Len(ListOf(p)) : IsFound(ListOf(p), fd, j)
                                              /\ ListOf(p)[j].device = "ramdisk"} :
          b = ListOf(p)[k].data
    BY DEF OpenFiles, ListOf
  <2> QED
    BY <2>1
<1>2. b \in 1..Blocks
  BY <1>1, ListTypes DEF ListSound, Holds
<1> QED
  BY <1>1, <1>2

LEMMA kfreadIsSound ==
  ASSUME FilesInv, NEW p \in Process, kfread(p)
  PROVE  FilesInv'
<1>1. PICK fd \in FdArg, bytes \in Bytes, b \in 1..Blocks :
        /\ b \in OpenFiles(p, fd)
        /\ heap' = [heap EXCEPT ![b].read_pos =
                      @ + ramdisk_read(heap[b].file, heap[b].read_pos, bytes)]
        /\ file_descriptors' = file_descriptors
  BY OpenFilesAre DEF kfread
<1> DEFINE pos == heap[b].read_pos + ramdisk_read(heap[b].file, heap[b].read_pos, bytes)
<1>2. heap' = [heap EXCEPT ![b].read_pos = pos]
  <2>1. b \in 1..Blocks /\ DOMAIN heap = 1..Blocks /\ IsFile(heap[b])
    BY <1>1, OpenFilesAre, ListTypes DEF IsHeap, ListSound, Holds
  <2> QED
    BY <1>1, <2>1
<1> HIDE DEF pos
<1>3. b \in 1..Blocks /\ Repositioned(b)
  BY <1>1, <1>2, OpenFilesAre DEF Repositioned
<1> QED
  BY <1>3, RepositionedIsSound

LEMMA kfgetdents64IsSound ==
  ASSUME FilesInv, NEW p \in Process, kfgetdents64(p)
  PROVE  FilesInv'
<1>1. PICK fd \in FdArg, count \in Bytes, b \in 1..Blocks :
        /\ b \in OpenFiles(p, fd)
        /\ heap' = [heap EXCEPT ![b].read_pos =
                      @ + Len(ramdisk_read_dirents64(heap[b].file, heap[b].read_pos, count))]
        /\ file_descriptors' = file_descriptors
  BY OpenFilesAre DEF kfgetdents64
<1> DEFINE pos == heap[b].read_pos
                    + Len(ramdisk_read_dirents64(heap[b].file, heap[b].read_pos, count))
<1>2. heap' = [heap EXCEPT ![b].read_pos = pos]
  <2>1. b \in 1..Blocks /\ DOMAIN heap = 1..Blocks /\ IsFile(heap[b])
    BY <1>1, OpenFilesAre, ListTypes DEF IsHeap, ListSound, Holds
  <2> QED
    BY <1>1, <2>1
<1> HIDE DEF pos
<1>3. b \in 1..Blocks /\ Repositioned(b)
  BY <1>1, <1>2, OpenFilesAre DEF Repositioned
<1> QED
  BY <1>3, RepositionedIsSound

LEMMA kflseekIsSound ==
  ASSUME FilesInv, NEW p \in Process, kflseek(p)
  PROVE  FilesInv'
<1>1. PICK fd \in FdArg, b \in 1..Blocks :
        /\ b \in OpenFiles(p, fd)
        /\ \E pos : heap' = [heap EXCEPT ![b].read_pos = pos]
        /\ file_descriptors' = file_descriptors
  BY OpenFilesAre DEF kflseek
<1>2. Repositioned(b)
  BY <1>1, OpenFilesAre DEF Repositioned
<1> QED
  BY <1>2, RepositionedIsSound

LEMMA NothingMoves ==
  ASSUME FilesInv, UNCHANGED <<file_descriptors, heap>>
  PROVE  FilesInv'
BY DEF FilesInv, ListOf

LEMMA EndsAsItIs ==
  ASSUME FilesInv, NEW p \in Process, End(p, heap)
  PROVE  FilesInv'
<1>1. Leaks(heap, heap)
  BY HeapLeaks DEF FilesInv
<1> QED
  BY <1>1, EndIsSound

LEMMA SelectPassIsSound ==
  ASSUME FilesInv, NEW p \in Process, SelectPass(p)
  PROVE  FilesInv'
<1>1. End(p, heap) \/ UNCHANGED <<running, file_descriptors, heap>>
  BY Zenon DEF SelectPass
<1> QED
  BY <1>1, EndsAsItIs, NothingMoves

LEMMA FilesStart == FilesInit => FilesInv
<1> SUFFICES ASSUME FilesInit PROVE FilesInv
  OBVIOUS
<1> DEFINE none == <<>>
<1>1. heap = [b \in 1..Blocks |-> Free] /\ file_descriptors = [p \in Process |-> none]
  BY DEF FilesInit
<1>2. none \in Seq(OpenDescriptor)
  OBVIOUS
<1>3. ListSound(heap, none) /\ Owned(heap, none) = {} /\ Len(none) = 0
  BY NoneSound
<1> HIDE DEF none
<1>4. IsHeap(heap)
  BY <1>1 DEF IsHeap, IsBlock
<1>5. \A p \in Process : ListOf(p) = none
  BY <1>1 DEF ListOf
<1> QED
  BY <1>1, <1>2, <1>3, <1>4, <1>5, SizeTypes DEF FilesInv

LEMMA FilesStep ==
  ASSUME CountsFromZero, FilesInv, [FilesNext]_filesVars
  PROVE  FilesInv'
<1>1. CASE UNCHANGED filesVars
  BY <1>1, NothingMoves DEF filesVars
<1>2. CASE tty_push
  BY <1>2, NothingMoves DEF tty_push
<1>3. ASSUME NEW p \in Process,
             \/ kfopen(p) \/ kfclose(p) \/ kdup2(p) \/ (\E c \in Process : kfork(p, c))
             \/ kstat(p) \/ kfread(p) \/ kfgetdents64(p) \/ kflseek(p) \/ NullIsUsed(p)
             \/ tty_read(p) \/ kselect(p) \/ SelectPass(p) \/ process_exit(p)
      PROVE  FilesInv'
  <2>1. CASE kfopen(p)
    BY <2>1, kfopenIsSound
  <2>2. CASE kfclose(p)
    BY <2>2, kfcloseIsSound
  <2>3. CASE kdup2(p)
    BY <2>3, kdup2IsSound
  <2>4. CASE \E c \in Process : kfork(p, c)
    BY <2>4, kforkIsSound
  <2>5. CASE kstat(p)
    BY <2>5, kstatIsSound
  <2>6. CASE kfread(p)
    BY <2>6, kfreadIsSound
  <2>7. CASE kfgetdents64(p)
    BY <2>7, kfgetdents64IsSound
  <2>8. CASE kflseek(p)
    BY <2>8, kflseekIsSound
  <2>9. CASE NullIsUsed(p)
    BY <2>9, EndsAsItIs DEF NullIsUsed
  <2>10. CASE tty_read(p)
    BY <2>10, NothingMoves DEF tty_read
  <2>11. CASE kselect(p)
    BY <2>11, NothingMoves DEF kselect
  <2>12. CASE SelectPass(p)
    BY <2>12, SelectPassIsSound
  <2>13. CASE process_exit(p)
    BY <2>13, EndsAsItIs DEF process_exit
  <2> QED
    BY <1>3, <2>1, <2>2, <2>3, <2>4, <2>5, <2>6, <2>7, <2>8, <2>9, <2>10, <2>11, <2>12,
       <2>13
<1> QED
  BY <1>1, <1>2, <1>3, Zenon DEF FilesNext

-----------------------------------------------------------------------------
(* What the lists lead to is what Sound speaks of.                         *)

LEMMA ListedIs ==
  ASSUME FilesInv, NEW d \in Listed
  PROVE  /\ d[1] \in Process /\ d[2] \in 1..Len(ListOf(d[1])) /\ d = <<d[1], d[2]>>
         /\ EntryOf(d) = ListOf(d[1])[d[2]] /\ EntryOf(d) \in OpenDescriptor
         /\ Holds(heap, EntryOf(d)) /\ ListSound(heap, ListOf(d[1]))
<1>1. d[1] \in Process /\ d[2] \in 1..MaxOpen /\ d = <<d[1], d[2]>>
      /\ d[2] <= Len(file_descriptors[d[1]])
  BY DEF Listed
<1>2. ListOf(d[1]) \in Seq(OpenDescriptor) /\ Len(ListOf(d[1])) \in Nat
      /\ ListSound(heap, ListOf(d[1]))
  BY <1>1, ListTypes
<1>3. d[2] \in 1..Len(ListOf(d[1]))
  BY <1>1, <1>2, SizeTypes DEF ListOf
<1>4. EntryOf(d) = ListOf(d[1])[d[2]]
  BY DEF EntryOf, ListOf
<1>5. ListOf(d[1])[d[2]] \in OpenDescriptor
  BY <1>2, <1>3, EntriesOf
<1>6. Holds(heap, ListOf(d[1])[d[2]])
  BY <1>2, <1>3 DEF ListSound
<1> QED
  BY <1>1, <1>2, <1>3, <1>4, <1>5, <1>6

LEMMA IsListed ==
  ASSUME FilesInv, NEW p \in Process, NEW k \in 1..Len(ListOf(p))
  PROVE  <<p, k>> \in Listed /\ EntryOf(<<p, k>>) = ListOf(p)[k]
<1>1. Len(ListOf(p)) \in Nat /\ Len(ListOf(p)) <= MaxOpen
  BY ListTypes
<1>2. k \in 1..MaxOpen /\ k <= Len(ListOf(p))
  BY <1>1, SizeTypes
<1> QED
  BY <1>2 DEF Listed, EntryOf, ListOf

LEMMA DescriptorSound ==
  ASSUME FilesInv, NEW d \in Listed
  PROVE  LET e == EntryOf(d)
         IN IF e.device = "ramdisk" THEN heap[e.data].kind = "file"
            ELSE e.data # NULL =>
                   /\ heap[e.data].kind = "device"
                   /\ heap[e.data].device \in {"fb", "tty"} =>
                        heap[heap[e.data].data].kind = heap[e.data].device
                   /\ \A other \in Listed \ {d} : EntryOf(other).data # e.data
<1> DEFINE e == EntryOf(d)
<1>1. /\ d[1] \in Process /\ d[2] \in 1..Len(ListOf(d[1])) /\ d = <<d[1], d[2]>>
      /\ e = ListOf(d[1])[d[2]] /\ e \in OpenDescriptor
      /\ Holds(heap, e) /\ ListSound(heap, ListOf(d[1]))
  BY ListedIs
<1> HIDE DEF e
<1>2. CASE e.device = "ramdisk"
  <2>1. heap[e.data].kind = "file"
    BY <1>1, <1>2 DEF Holds, IsFile
  <2> QED
    BY <1>2, <2>1 DEF e
<1>3. CASE e.device # "ramdisk" /\ e.data = NULL
  BY <1>3 DEF e
<1>4. CASE e.device # "ramdisk" /\ e.data # NULL
  <2>1. e.device = "devices" /\ IsDeviceFile(heap[e.data]) /\ e.data \in 1..Blocks
    BY <1>1, <1>4, EntryFields DEF Holds
  <2>2. heap[e.data].kind = "device"
    BY <2>1 DEF IsDeviceFile
  <2>3. heap[e.data].device \in {"fb", "tty"} =>
          heap[heap[e.data].data].kind = heap[e.data].device
    BY <1>1, <1>4 DEF Holds, IsFb, IsTty
  <2>4. ASSUME NEW other \in Listed \ {d}, EntryOf(other).data = e.data
        PROVE  FALSE
    <3> DEFINE o == EntryOf(other)
    <3>1. /\ other[1] \in Process /\ other[2] \in 1..Len(ListOf(other[1]))
          /\ other = <<other[1], other[2]>>
          /\ o = ListOf(other[1])[other[2]] /\ o \in OpenDescriptor
          /\ Holds(heap, o) /\ ListSound(heap, ListOf(other[1]))
      BY ListedIs
    <3> HIDE DEF o
    <3>2. o.data = e.data
      BY <2>4 DEF o
    <3>3. CASE other[1] # d[1]
      <4>1. e.data \in Owned(heap, ListOf(d[1])) /\ e.data \in Owned(heap, ListOf(other[1]))
        BY <1>1, <1>4, <3>1, <3>2, OwnedIs
      <4> QED
        BY <1>1, <3>1, <3>3, <4>1 DEF FilesInv
    <3>4. CASE other[1] = d[1]
      <4>1. other[2] # d[2]
        BY <1>1, <2>4, <3>1, <3>4, Zenon
      <4>2. o.device = "devices"
        BY <2>1, <3>1, <3>2, FreeBlocks, EntryFields DEF Holds
      <4>3. Apart(ListOf(d[1]))
        BY <1>1 DEF ListSound
      <4> QED
        BY <1>1, <1>4, <2>1, <3>1, <3>2, <3>4, <4>1, <4>2, <4>3, Zenon DEF Apart
    <3> QED
      BY <3>3, <3>4
  <2> QED
    BY <1>4, <2>2, <2>3, <2>4, Zenon DEF e
<1> QED
  BY <1>2, <1>3, <1>4

\* A device's own block belongs to one process, whose descriptors share it.
LEMMA SharingIs ==
  ASSUME FilesInv, NEW b \in 1..Blocks, heap[b].kind \in {"fb", "tty"}
  PROVE  \E p \in Process :
           /\ Users(heap, ListOf(p), b) # {}
           /\ Sharing(b) = {<<p, k>> : k \in Users(heap, ListOf(p), b)}
<1>1. heap[b] # Free
  BY DEF Free
<1>2. PICK p \in Process : b \in Owned(heap, ListOf(p))
  BY <1>1 DEF FilesInv
<1>3. ~IsFile(heap[b]) /\ ~IsDeviceFile(heap[b]) /\ b # NULL
  BY SizeTypes DEF IsFile, IsDeviceFile
<1>4. /\ ListOf(p) \in Seq(OpenDescriptor) /\ ListSound(heap, ListOf(p))
      /\ \A k \in 1..Len(ListOf(p)) : ListOf(p)[k] \in OpenDescriptor /\ Holds(heap, ListOf(p)[k])
  BY ListTypes, EntriesOf DEF ListSound
<1>5. Users(heap, ListOf(p), b) # {}
  <2>1. PICK k \in 1..Len(ListOf(p)) :
          b # NULL /\ (b = ListOf(p)[k].data \/ b = Uses(heap, ListOf(p)[k]))
    BY <1>2 DEF Owned
  <2>2. b # ListOf(p)[k].data
    BY <1>3, <1>4, DataBlock
  <2> QED
    BY <2>1, <2>2 DEF Users
<1>6. ASSUME NEW k \in Users(heap, ListOf(p), b)
      PROVE  <<p, k>> \in Sharing(b)
  <2> DEFINE e == ListOf(p)[k]
             d == <<p, k>>
  <2>1. k \in 1..Len(ListOf(p)) /\ Uses(heap, e) = b
    BY DEF Users
  <2>2. d \in Listed /\ EntryOf(d) = e
    BY <2>1, IsListed
  <2>3. e \in OpenDescriptor /\ Holds(heap, e)
    BY <1>4, <2>1
  <2> HIDE DEF e, d
  <2>4. e.device # "ramdisk" /\ e.data # NULL
    BY <1>3, <2>1, <2>3 DEF Uses, Holds
  <2>5. heap[e.data].data = b /\ e.device = "devices"
    BY <2>1, <2>3, <2>4, EntryFields DEF Uses
  <2>6. heap[e.data].device \in {"fb", "tty"}
    BY <1>3, <2>3, <2>4, <2>5 DEF Holds
  <2>7. d \in Sharing(b)
    BY <2>2, <2>4, <2>5, <2>6, Zenon DEF Sharing, DataOf
  <2> QED
    BY <2>7 DEF d
<1>7. ASSUME NEW d \in Sharing(b)
      PROVE  \E k \in Users(heap, ListOf(p), b) : d = <<p, k>>
  <2>1. d \in Listed /\ EntryOf(d).device = "devices" /\ EntryOf(d).data # NULL
        /\ heap[EntryOf(d).data].data = b
    BY DEF Sharing, DataOf
  <2>2. /\ d[1] \in Process /\ d[2] \in 1..Len(ListOf(d[1])) /\ d = <<d[1], d[2]>>
        /\ EntryOf(d) = ListOf(d[1])[d[2]] /\ ListSound(heap, ListOf(d[1]))
    BY <2>1, ListedIs
  <2>3. Uses(heap, ListOf(d[1])[d[2]]) = b
    BY <2>1, <2>2 DEF Uses
  <2>4. b \in Owned(heap, ListOf(d[1]))
    BY <1>3, <2>2, <2>3, OwnedIs
  <2>5. d[1] = p
    BY <1>2, <2>2, <2>4 DEF FilesInv
  <2>6. d[2] \in Users(heap, ListOf(p), b)
    BY <2>2, <2>3, <2>5 DEF Users
  <2> QED
    BY <2>2, <2>5, <2>6, Zenon
<1>8. Sharing(b) = {<<p, k>> : k \in Users(heap, ListOf(p), b)}
  BY <1>6, <1>7
<1> QED
  BY <1>5, <1>8

LEMMA PairsCount ==
  ASSUME NEW U, IsFiniteSet(U), NEW p
  PROVE  Cardinality({<<p, k>> : k \in U}) = Cardinality(U)
<1> DEFINE T == {<<p, k>> : k \in U}
           f == [k \in U |-> <<p, k>>]
<1>1. f \in Bijection(U, T)
  <2>1. \A k, j \in U : f[k] = f[j] => k = j
    OBVIOUS
  <2>2. \A d \in T : \E k \in U : f[k] = d
    OBVIOUS
  <2>3. f \in [U -> T]
    OBVIOUS
  <2> QED
    BY <2>1, <2>2, <2>3, Fun_IsBij
<1>2. ExistsBijection(U, T)
  BY <1>1 DEF ExistsBijection
<1> QED
  BY <1>2, FS_Bijection

LEMMA SharedSound ==
  ASSUME FilesInv, NEW b \in 1..Blocks
  PROVE  /\ heap[b].kind = "fb" => heap[b].dependents = Cardinality(Sharing(b))
         /\ heap[b].kind = "tty" => heap[b].dependents >= Cardinality(Sharing(b))
<1> SUFFICES ASSUME heap[b].kind \in {"fb", "tty"}
             PROVE  CountsFor(heap[b], Cardinality(Sharing(b)))
  BY DEF CountsFor
<1>1. PICK p \in Process :
        /\ Users(heap, ListOf(p), b) # {}
        /\ Sharing(b) = {<<p, k>> : k \in Users(heap, ListOf(p), b)}
  BY SharingIs
<1>2. ListOf(p) \in Seq(OpenDescriptor) /\ ListSound(heap, ListOf(p))
  BY ListTypes
<1>3. IsFiniteSet(Users(heap, ListOf(p), b))
  BY <1>2, UsersCount
<1>4. Cardinality(Sharing(b)) = Cardinality(Users(heap, ListOf(p), b))
  BY <1>1, <1>3, PairsCount
<1>5. CountsFor(heap[b], Cardinality(Users(heap, ListOf(p), b)))
  BY <1>1, <1>2, UsedCount
<1> QED
  BY <1>4, <1>5

LEMMA FilesInvSound == FilesInv => Sound
<1> SUFFICES ASSUME FilesInv PROVE Sound
  OBVIOUS
<1> QED
  BY DescriptorSound, SharedSound, Zenon DEF Sound

(***************************************************************************)
(* Through open, dup2, fork, close, stat, select and the end of a process, *)
(* in any order: a descriptor's blocks are there and are its own, and the  *)
(* counts are those of the descriptors that share a block (ramdisk.c:      *)
(* 152-163, device.c:204-275, tty.c:243-274, video.c:817-840).             *)
(***************************************************************************)
THEOREM FilesAreSound ==
  ASSUME CountsFromZero
  PROVE  FilesSpec => []Sound
<1>1. FilesInit => FilesInv
  BY FilesStart
<1>2. FilesInv /\ [FilesNext]_filesVars => FilesInv'
  BY FilesStep
<1>3. FilesInv => Sound
  BY FilesInvSound
<1> QED
  BY <1>1, <1>2, <1>3, PTL DEF FilesSpec
=============================================================================

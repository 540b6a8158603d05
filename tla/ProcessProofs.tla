--------------------------- MODULE ProcessProofs ---------------------------
(***************************************************************************)
(* Proofs about Process.  Types hold for every value of the constants; the *)
(* safety properties, if no two processes wait for the same one.           *)
(***************************************************************************)
EXTENDS Process, FiniteSetTheorems, SequenceTheorems, TLAPS

-----------------------------------------------------------------------------
(* Operators.                                                              *)

\* first_free_pid counts positions of a finite list.
LEMMA FirstFreePidType ==
  ASSUME TypeOK
  PROVE  first_free_pid \in Nat
<1> DEFINE K == {k \in 1..Len(process_list) :
                   \A j \in 1..k : pid[process_list[j]] = j - 1}
<1>1. Len(process_list) \in Nat
  BY LenProperties DEF TypeOK
<1>2. IsFiniteSet(1..Len(process_list))
  BY <1>1, FS_Interval
<1>3. IsFiniteSet(K)
  BY <1>2, FS_Subset
<1>4. Cardinality(K) \in Nat
  BY <1>3, FS_CardinalityType
<1> QED
  BY <1>4 DEF first_free_pid

\* A block put behind position k of a list of blocks gives a list of blocks.
LEMMA InsertedType ==
  ASSUME NEW s \in Seq(Block), NEW b \in Block, NEW k \in 1..Len(s)
  PROVE  SubSeq(s, 1, k) \o <<b>> \o SubSeq(s, k + 1, Len(s)) \in Seq(Block)
<1>1. Len(s) \in Nat /\ \A i \in 1..Len(s) : s[i] \in Block
  BY LenProperties, ElementOfSeq
<1>2. SubSeq(s, 1, k) \in Seq(Block)
  BY <1>1, SubSeqProperties
<1>3. SubSeq(s, k + 1, Len(s)) \in Seq(Block)
  BY <1>1, SubSeqProperties
<1>4. <<b>> \in Seq(Block)
  OBVIOUS
<1>5. SubSeq(s, 1, k) \o <<b>> \in Seq(Block)
  BY <1>2, <1>4, ConcatProperties
<1> QED
  BY <1>3, <1>5, ConcatProperties

\* Unlinking a block leaves a list of blocks.
LEMMA UnlinkedType ==
  ASSUME TypeOK, NEW k \in 1..Len(process_list)
  PROVE  Unlinked(k) \in Seq(Block)
<1> DEFINE s == process_list
<1>1. s \in Seq(Block) /\ Len(s) \in Nat /\ \A i \in 1..Len(s) : s[i] \in Block
  BY LenProperties, ElementOfSeq DEF TypeOK
<1>2. SubSeq(s, 1, k - 1) \in Seq(Block)
  BY <1>1, SubSeqProperties
<1>3. SubSeq(s, k + 1, Len(s)) \in Seq(Block)
  BY <1>1, SubSeqProperties
<1> QED
  BY <1>2, <1>3, ConcatProperties DEF Unlinked

LEMMA AddProcessType ==
  ASSUME TypeOK, NEW b \in Block, NEW p \in Nat, add_process(b, p)
  PROVE  /\ process_list' \in Seq(Block)
         /\ queue' \in Block \cup {NULL}
         /\ queue_tail' \in Block \cup {NULL}
         /\ queue_next' \in [Block -> Block \cup {NULL}]
<1>1. CASE InsertBeforeTail(b, p)
  <2>1. PICK k \in 2..Len(process_list) :
          process_list' = SubSeq(process_list, 1, k) \o <<b>>
                            \o SubSeq(process_list, k + 1, Len(process_list))
    BY <1>1 DEF InsertBeforeTail
  <2>2. process_list \in Seq(Block) /\ k \in 1..Len(process_list)
    BY <2>1 DEF TypeOK
  <2>3. process_list' \in Seq(Block)
    BY <2>1, <2>2, InsertedType
  <2> QED
    BY <1>1, <2>3 DEF InsertBeforeTail, TypeOK
<1>2. CASE AppendAndEnqueue(b, p)
  <2>1. process_list' \in Seq(Block)
    BY <1>2, AppendProperties DEF AppendAndEnqueue, TypeOK
  <2>2. queue' \in Block \cup {NULL} /\ queue_tail' \in Block \cup {NULL}
    BY <1>2, Zenon DEF AppendAndEnqueue, TypeOK
  <2>3. queue_next' \in [Block -> Block \cup {NULL}]
    <3>1. CASE queue_next' = [queue_next EXCEPT ![b] = NULL]
      BY <3>1 DEF TypeOK
    <3>2. CASE queue_next' = [queue_next EXCEPT ![b] = NULL, ![queue_tail] = b]
      BY <3>2 DEF TypeOK
    <3> QED
      BY <1>2, <3>1, <3>2 DEF AppendAndEnqueue
  <2> QED
    BY <2>1, <2>2, <2>3
<1> QED
  BY <1>1, <1>2 DEF add_process

LEMMA CreateType ==
  ASSUME TypeOK, NEW b \in Block, NEW st \in Status, NEW g \in Int,
         create_process(b, st, g)
  PROVE  /\ process_list' \in Seq(Block)
         /\ queue' \in Block \cup {NULL}
         /\ queue_tail' \in Block \cup {NULL}
         /\ queue_next' \in [Block -> Block \cup {NULL}]
         /\ current_process' \in Block
         /\ allocated' \in SUBSET Block
         /\ pid' \in [Block -> Nat]
         /\ ppid' \in [Block -> Int]
         /\ status' \in [Block -> Status]
         /\ queued_signals' \in [Block -> Seq(Signal)]
         /\ pc' \in [Block -> {"user", "loop", "reap"}]
         /\ target' \in [Block -> Block \cup {NULL}]
<1>1. first_free_pid \in Nat
  BY FirstFreePidType
<1>2. add_process(b, first_free_pid)
  BY DEF create_process
<1>3. <<>> \in Seq(Signal)
  OBVIOUS
<1> QED
  BY <1>1, <1>2, <1>3, AddProcessType DEF create_process, TypeOK

LEMMA SignalType ==
  ASSUME TypeOK, NEW n, NEW sig \in Signal, signal_process(n, sig)
  PROVE  queued_signals' \in [Block -> Seq(Signal)]
<1>1. CASE UNCHANGED queued_signals
  BY <1>1 DEF TypeOK
<1>2. ASSUME NEW q \in Block,
             queued_signals' =
               [queued_signals EXCEPT ![q] = <<sig>> \o queued_signals[q]]
      PROVE  queued_signals' \in [Block -> Seq(Signal)]
  <2>1. <<sig>> \o queued_signals[q] \in Seq(Signal)
    BY ConcatProperties DEF TypeOK
  <2> QED
    BY <1>2, <2>1 DEF TypeOK
<1> QED
  BY <1>1, <1>2 DEF signal_process

LEMMA DropType ==
  ASSUME TypeOK, NEW p \in Block, DropIgnored(p)
  PROVE  queued_signals' \in [Block -> Seq(Signal)]
<1>1. queued_signals[p] \in Seq(Signal)
  BY DEF TypeOK
<1>2. queued_signals[p] # <<>> => Tail(queued_signals[p]) \in Seq(Signal)
  BY <1>1, HeadTailProperties
<1> QED
  BY <1>1, <1>2 DEF DropIgnored, TypeOK

LEMMA ExitType ==
  ASSUME TypeOK, NEW p \in Block, process_exit(p)
  PROVE  TypeOK'
<1>1. <<>> \in Seq(Signal)
  OBVIOUS
<1> QED
  BY <1>1 DEF process_exit, TypeOK, Status, KernelMode, queueVars, listVars

LEMMA SwitchType ==
  ASSUME TypeOK, Switch
  PROVE  TypeOK'
<1>1. CASE queue = NULL
  BY <1>1 DEF Switch, TypeOK, KernelMode, queueVars, listVars, waitVars
<1>2. CASE queue # NULL
  <2>1. queue \in Block
    BY <1>2 DEF TypeOK
  <2>2. current_process' \in Block /\ kernel' \in KernelMode
    BY <1>2, <2>1 DEF Switch, KernelMode
  <2>3. /\ queue' \in Block \cup {NULL}
        /\ queue_tail' \in Block \cup {NULL}
        /\ queue_next' \in [Block -> Block \cup {NULL}]
    <3>1. CASE SwitchFromExited
      BY <2>1, <3>1 DEF SwitchFromExited, TypeOK
    <3>2. CASE SwitchBetweenTwo
      BY <2>1, <3>2 DEF SwitchBetweenTwo, TypeOK
    <3>3. CASE SwitchRotate
      BY <2>1, <3>3 DEF SwitchRotate, TypeOK
    <3> QED
      BY <1>2, <3>1, <3>2, <3>3 DEF Switch
  <2> QED
    BY <2>2, <2>3 DEF Switch, TypeOK, listVars, waitVars
<1> QED
  BY <1>1, <1>2

-----------------------------------------------------------------------------
(* Types.                                                                  *)

LEMMA InitType == Init => TypeOK
<1>1. <<>> \in Seq(Signal) /\ <<Idle>> \in Seq(Block)
  BY BlockAssumption
<1> QED
  BY <1>1, BlockAssumption DEF Init, TypeOK, Status, KernelMode

LEMMA NextType == TypeOK /\ [Next]_vars => TypeOK'
<1> SUFFICES ASSUME TypeOK, [Next]_vars
             PROVE  TypeOK'
  OBVIOUS
<1>1. CASE kmain
  <2>1. PICK b \in Block, g \in StackGarbage : create_process(b, "INITIAL", g)
    BY <1>1 DEF kmain
  <2>2. g \in Int /\ "INITIAL" \in Status
    BY <2>1, ArgAssumption DEF Status
  <2> QED
    BY <1>1, <2>1, <2>2, CreateType DEF kmain, TypeOK, KernelMode
<1>2. CASE Tick
  BY <1>2, SwitchType DEF Tick
<1>3. CASE Reschedule
  BY <1>3, SwitchType DEF Reschedule
<1>4. ASSUME NEW p \in Block, kfork(p)
      PROVE  TypeOK'
  <2>1. PICK b \in Block : create_process(b, "FORKED", pid[p])
    BY <1>4 DEF kfork
  <2>2. pid[p] \in Int /\ "FORKED" \in Status
    BY DEF TypeOK, Status
  <2> QED
    BY <1>4, <2>1, <2>2, CreateType DEF kfork, TypeOK, KernelMode
<1>5. ASSUME NEW p \in Block, Exit(p)
      PROVE  TypeOK'
  BY <1>5, ExitType DEF Exit
<1>6. ASSUME NEW p \in Block, SegFault(p)
      PROVE  TypeOK'
  <2>1. queued_signals' \in [Block -> Seq(Signal)]
    BY <1>6, SignalType, SignalAssumption DEF SegFault
  <2> QED
    BY <1>6, <2>1
    DEF SegFault, TypeOK, KernelMode, queueVars, listVars, waitVars
<1>7. ASSUME NEW p \in Block, page_fault_error(p)
      PROVE  TypeOK'
  BY <1>6, <1>7 DEF page_fault_error
<1>8. ASSUME NEW p \in Block, WaitFault(p)
      PROVE  TypeOK'
  BY <1>6, <1>8 DEF WaitFault
<1>9. ASSUME NEW p \in Block, NEW n \in PidArg, NEW sig \in Signal,
             process_kill(p, n, sig)
      PROVE  TypeOK'
  <2>1. queued_signals' \in [Block -> Seq(Signal)]
    BY <1>9, SignalType DEF process_kill, TypeOK
  <2> QED
    BY <1>9, <2>1
    DEF process_kill, TypeOK, KernelMode, queueVars, listVars, waitVars
<1>10. ASSUME NEW p \in Block, NEW n \in PidArg, WaitStart(p, n)
       PROVE  TypeOK'
  <2>1. kernel' \in KernelMode
    BY <1>10 DEF WaitStart, TypeOK, KernelMode
  <2>2. UNCHANGED <<queueVars, listVars, status, queued_signals>>
    BY <1>10 DEF WaitStart
  <2>3. CASE UNCHANGED waitVars
    BY <2>1, <2>2, <2>3 DEF TypeOK, queueVars, listVars, waitVars
  <2>4. CASE /\ \E t \in Block : target' = [target EXCEPT ![p] = t]
             /\ pc' = [pc EXCEPT ![p] = "loop"]
    <3>1. target' \in [Block -> Block \cup {NULL}] /\ pc' \in [Block -> {"user", "loop", "reap"}]
      BY <2>4 DEF TypeOK
    <3> QED
      BY <2>1, <2>2, <3>1 DEF TypeOK, queueVars, listVars
  <2>5. UNCHANGED waitVars \/ pc' = [pc EXCEPT ![p] = "loop"]
    BY <1>10 DEF WaitStart
  <2>6. UNCHANGED waitVars \/ \E t \in Block : target' = [target EXCEPT ![p] = t]
    BY <1>10 DEF WaitStart
  <2> QED
    BY <2>3, <2>4, <2>5, <2>6
<1>11. ASSUME NEW p \in Block, WaitTest(p)
       PROVE  TypeOK'
  BY <1>11 DEF WaitTest, TypeOK, queueVars, listVars
<1>12. ASSUME NEW p \in Block, WaitReap(p)
       PROVE  TypeOK'
  <2>1. process_list' \in Seq(Block)
    BY <1>12, UnlinkedType DEF WaitReap
  <2> QED
    BY <1>12, <2>1 DEF WaitReap, TypeOK, KernelMode, queueVars
<1>13. ASSUME NEW p \in Block, SysReturn(p)
       PROVE  TypeOK'
  <2>1. CASE process_exit(p)
    BY <2>1, ExitType
  <2>2. CASE ~process_exit(p)
    BY <1>13, <2>2, DropType
    DEF SysReturn, TypeOK, KernelMode, queueVars, listVars, waitVars
  <2> QED
    BY <2>1, <2>2
<1>14. ASSUME NEW p \in Block, Dispatch(p)
       PROVE  TypeOK'
  <2>1. CASE process_exit(p)
    BY <2>1, ExitType
  <2>2. CASE ~process_exit(p)
    <3>1. queued_signals' \in [Block -> Seq(Signal)]
      BY <1>14, <2>2, DropType DEF Dispatch
    <3>2. status' \in [Block -> Status] /\ kernel' \in KernelMode
      BY <1>14, <2>2 DEF Dispatch, TypeOK, Status, KernelMode
    <3> QED
      BY <1>14, <2>2, <3>1, <3>2
      DEF Dispatch, TypeOK, queueVars, listVars, waitVars
  <2> QED
    BY <2>1, <2>2
<1>15. CASE UNCHANGED vars
  BY <1>15 DEF vars, TypeOK
<1> QED
  BY <1>1, <1>2, <1>3, <1>4, <1>5, <1>7, <1>8, <1>9, <1>10, <1>11, <1>12,
     <1>13, <1>14, <1>15
  DEF Next

(***************************************************************************)
(* Every state of the kernel's process tables is well typed, whatever the  *)
(* programs do, shared waits included: pids are natural numbers, links and *)
(* the local of process_wait are NULL or a block, and somebody always runs *)
(* (process.c:20-855).                                                     *)
(***************************************************************************)
THEOREM TypeCorrect == Spec => []TypeOK
<1> QED
  BY InitType, NextType, PTL DEF Spec

-----------------------------------------------------------------------------
(* Reachability through the links.                                         *)

\* A queue of one process reaches nobody else.
LEMMA OneInQueue ==
  ASSUME TypeOK, queue # NULL, queue_next[queue] = NULL, NEW x, InQueue(x)
  PROVE  x = queue
<1>1. {queue} \in SUBSET Block /\ Closed({queue})
  BY DEF TypeOK, Closed
<1> QED
  BY <1>1 DEF InQueue, Reaches

\* Who is in the queue behind its head is in every set that holds the second
\* process and is closed under the links, that of the head apart.
LEMMA BehindHead ==
  ASSUME TypeOK, queue # NULL,
         NEW x, InQueue(x), x # queue,
         NEW S \in SUBSET Block,
         queue_next[queue] \in S,
         \A y \in S \ {queue} : queue_next[y] \in S \cup {NULL}
  PROVE  x \in S
<1> DEFINE T == S \cup {queue}
<1>1. T \in SUBSET Block
  BY DEF TypeOK
<1>2. Closed(T)
  BY DEF Closed
<1> QED
  BY <1>1, <1>2 DEF InQueue, Reaches

\* Among the processes that have not exited, reachability stays when a link
\* that was NULL is set.
LEMMA ReachGrows ==
  ASSUME LinksOK,
         NEW a, a \in Live, NEW x, Reaches(a, x),
         \A y \in Live : queue_next[y] = NULL \/ queue_next'[y] = queue_next[y]
  PROVE  a # NULL /\ \A S \in SUBSET Block : a \in S /\ Closed(S)' => x \in S
<1>1. a # NULL
  BY DEF Reaches
<1>2. ASSUME NEW S \in SUBSET Block, a \in S, Closed(S)'
      PROVE  x \in S
  <2> DEFINE T == S \cap Live
  <2>1. T \in SUBSET Block /\ a \in T
    BY <1>2
  <2>2. ASSUME NEW y \in T
        PROVE  queue_next[y] \in T \cup {NULL}
    <3>1. CASE queue_next[y] = NULL
      BY <3>1
    <3>2. CASE queue_next[y] # NULL
      <4>1. queue_next'[y] \in S \cup {NULL}
        BY <1>2 DEF Closed
      <4> QED
        BY <3>2, <4>1 DEF LinksOK
    <3> QED
      BY <3>1, <3>2
  <2>3. Closed(T)
    BY <2>2 DEF Closed
  <2> QED
    BY <2>1, <2>3 DEF Reaches
<1> QED
  BY <1>1, <1>2

-----------------------------------------------------------------------------
(* The ready queue when a step leaves its pointers alone.                  *)

LEMMA QueueStable ==
  ASSUME LinksOK, HeadOK, TailOK,
         UNCHANGED queueVars,
         Live' \subseteq Live, Live \subseteq Live' \cup {current_process}
  PROVE  LinksOK' /\ HeadOK' /\ TailOK'
<1>1. /\ queue' = queue
      /\ queue_tail' = queue_tail
      /\ queue_next' = queue_next
      /\ current_process' = current_process
  BY DEF queueVars
<1>2. LinksOK'
  BY <1>1 DEF LinksOK
<1>3. HeadOK'
  BY <1>1 DEF HeadOK
<1>4. /\ InQueue(queue_tail)' = InQueue(queue_tail)
      /\ Reaches(current_process, queue_tail)' = Reaches(current_process, queue_tail)
  BY <1>1 DEF InQueue, Reaches, Closed
<1>5. TailOK'
  BY <1>1, <1>4 DEF TailOK
<1> QED
  BY <1>2, <1>3, <1>5

LEMMA RunningStable ==
  ASSUME RunningNotLost,
         UNCHANGED queueVars,
         \A b \in allocated' : status'[b] = "RUNNING" =>
           b = current_process \/ (b \in allocated /\ status[b] = "RUNNING")
  PROVE  RunningNotLost'
<1>1. /\ queue' = queue
      /\ queue_next' = queue_next
      /\ current_process' = current_process
  BY DEF queueVars
<1>2. \A b : InQueue(b)' = InQueue(b)
  BY <1>1 DEF InQueue, Reaches, Closed
<1> QED
  BY <1>1, <1>2 DEF RunningNotLost

-----------------------------------------------------------------------------
(* schedule().                                                             *)

LEMMA SwitchLinks ==
  ASSUME TypeOK, LinksOK, HeadOK, TailOK, current_process \in allocated, Switch
  PROVE  LinksOK' /\ HeadOK'
<1>0. Live' = Live
  BY DEF Switch, Live, listVars
<1>1. CASE queue = NULL
  BY <1>0, <1>1, BlockAssumption DEF Switch, queueVars, LinksOK, HeadOK
<1>2. CASE queue # NULL
  <2>0. /\ queue \in Live
        /\ queue \in Block
        /\ Live \subseteq Block
        /\ current_process' = queue
        /\ queue_next \in [Block -> Block \cup {NULL}]
    BY <1>2 DEF Switch, HeadOK, TypeOK, Live
  <2>1. CASE SwitchFromExited
    BY <1>0, <1>2, <2>0, <2>1, BlockAssumption
    DEF SwitchFromExited, LinksOK, HeadOK
  <2>2. CASE SwitchBetweenTwo
    <3>1. current_process \in Live
      BY <2>2 DEF SwitchBetweenTwo, Live
    <3> QED
      BY <1>0, <1>2, <2>0, <2>2, <3>1, BlockAssumption
      DEF SwitchBetweenTwo, LinksOK, HeadOK
  <2>3. CASE SwitchRotate
    <3>1. current_process \in Live
      BY <2>3 DEF SwitchRotate, Live
    <3>2. /\ queue_tail \in Live
          /\ queue_tail # queue
          /\ queue_next[queue_tail] = NULL
          /\ queue_next[current_process] = NULL
      BY <1>2, <2>3, <3>1 DEF SwitchRotate, TailOK
    <3>3. queue_next' = [queue_next EXCEPT ![queue_tail] = current_process,
                                           ![queue] = NULL]
      BY <2>3 DEF SwitchRotate
    <3>4. \A x \in Live : queue_next'[x] =
            IF x = queue THEN NULL
            ELSE IF x = queue_tail THEN current_process ELSE queue_next[x]
      BY <2>0, <3>2, <3>3
    <3>5. LinksOK'
      BY <1>0, <1>2, <2>0, <3>1, <3>2, <3>4, BlockAssumption DEF LinksOK, HeadOK
    <3>6. HeadOK'
      BY <1>0, <1>2, <2>0, <2>3, <3>1, <3>2, <3>4, BlockAssumption
      DEF LinksOK, HeadOK, SwitchRotate
    <3> QED
      BY <3>5, <3>6
  <2> QED
    BY <1>2, <2>1, <2>2, <2>3 DEF Switch
<1> QED
  BY <1>1, <1>2

\* Who was behind the head of the queue is in the queue after the switch.
LEMMA SwitchReach ==
  ASSUME TypeOK, LinksOK, HeadOK, TailOK, current_process \in allocated,
         queue # NULL, queue_next[queue] # NULL, Switch
  PROVE  /\ queue' = queue_next[queue]
         /\ \A x : InQueue(x) /\ x # queue => InQueue(x)'
         /\ queue_tail # queue
         /\ InQueue(queue_tail)
<1>0. /\ queue \in Live
      /\ queue \in Block
      /\ queue_next \in [Block -> Block \cup {NULL}]
      /\ queue_tail \in Block
      /\ queue_next[queue_tail] = NULL
      /\ queue_tail # current_process
      /\ queue_tail # queue
      /\ InQueue(queue_tail)
  BY DEF HeadOK, TailOK, TypeOK, Live
<1>1. /\ queue' = queue_next[queue]
      /\ \A y \in Block \ {queue, queue_tail} : queue_next'[y] = queue_next[y]
  BY <1>0 DEF Switch, SwitchFromExited, SwitchBetweenTwo, SwitchRotate
<1>2. ASSUME NEW x, InQueue(x), x # queue
      PROVE  InQueue(x)'
  <2> SUFFICES ASSUME NEW S \in SUBSET Block, queue_next[queue] \in S, Closed(S)'
               PROVE  x \in S
    BY <1>1 DEF InQueue, Reaches
  <2>1. \A y \in S \ {queue} : queue_next[y] \in S \cup {NULL}
    BY <1>0, <1>1 DEF Closed
  <2> QED
    BY <1>2, <2>1, BehindHead
<1> QED
  BY <1>0, <1>1, <1>2

LEMMA SwitchTail ==
  ASSUME TypeOK, LinksOK, HeadOK, TailOK, current_process \in allocated, Switch
  PROVE  TailOK'
<1>0. Live' = Live
  BY DEF Switch, Live, listVars
<1>1. CASE queue = NULL
  BY <1>1 DEF Switch, queueVars, TailOK
<1>2. CASE queue # NULL
  <2>0. /\ queue \in Live
        /\ queue \in Block
        /\ queue # current_process
        /\ current_process' = queue
        /\ current_process \in Block
        /\ queue_tail \in Block
        /\ queue_next \in [Block -> Block \cup {NULL}]
    BY <1>2 DEF Switch, HeadOK, TailOK, TypeOK, Live
  <2>1. CASE queue_next[queue] = NULL
    <3>1. CASE SwitchFromExited
      BY <2>1, <3>1 DEF SwitchFromExited, TailOK
    <3>2. CASE SwitchBetweenTwo
      <4>1. /\ queue' = current_process
            /\ queue_tail' = queue_tail
            /\ queue_next' = queue_next
        BY <2>0, <2>1, <3>2 DEF SwitchBetweenTwo
      <4>2. current_process \in Live
        BY <3>2 DEF SwitchBetweenTwo, Live
      <4>3. \A a, x : Reaches(a, x)' = Reaches(a, x)
        BY <4>1 DEF Reaches, Closed
      <4>4. InQueue(queue_tail) => queue_tail = queue
        BY <1>2, <2>1, OneInQueue
      <4>5. queue_tail \in Live
        BY <1>2, <4>2 DEF TailOK
      <4>6. CASE queue_tail = queue
        <5>1. queue_next[current_process] = NULL /\ queue_next[queue_tail] = NULL
          BY <1>2, <4>6 DEF TailOK
        <5>2. Reaches(queue, queue)
          BY <1>2 DEF Reaches
        <5>3. Reaches(current_process, queue_tail)'
          BY <2>0, <4>1, <4>3, <4>6, <5>2
        <5> QED
          BY <1>0, <2>0, <2>1, <4>1, <4>5, <4>6, <5>1, <5>3 DEF TailOK
      <4>7. CASE queue_tail # queue
        <5>1. Reaches(current_process, queue_tail)
          BY <1>2, <4>4, <4>7 DEF TailOK
        <5>2. InQueue(queue_tail)'
          BY <4>1, <4>3, <5>1 DEF InQueue
        <5>3. queue_next[queue_tail] = NULL
          BY <1>2 DEF TailOK
        <5> QED
          BY <1>0, <2>0, <2>1, <4>1, <4>5, <4>7, <5>2, <5>3 DEF TailOK
      <4> QED
        BY <4>6, <4>7
    <3>3. CASE SwitchRotate
      BY <2>1, <3>3 DEF SwitchRotate
    <3> QED
      BY <1>2, <3>1, <3>2, <3>3 DEF Switch
  <2>2. CASE queue_next[queue] # NULL
    <3>. PICK t : t = queue_tail
      OBVIOUS
    <3>. PICK c : c = current_process
      OBVIOUS
    <3>0. /\ queue' = queue_next[queue]
          /\ queue_next[queue] \in Live
          /\ InQueue(t)'
          /\ t # queue
      BY <1>2, <2>0, <2>2, SwitchReach DEF LinksOK
    <3>1. CASE SwitchFromExited
      <4>1. /\ queue_tail' = queue_tail
            /\ queue_next' = [queue_next EXCEPT ![queue] = NULL]
        BY <3>1 DEF SwitchFromExited
      <4>2. queue_tail \in Live /\ queue_next[queue_tail] = NULL
        BY <1>2, <2>2 DEF TailOK
      <4>3. queue_next'[queue] = NULL /\ queue_next'[queue_tail] = NULL
        BY <2>0, <4>1, <4>2
      <4>4. InQueue(queue_tail)'
        BY <3>0, <4>1 DEF InQueue
      <4> QED
        BY <1>0, <2>0, <3>0, <4>1, <4>2, <4>3, <4>4 DEF TailOK
    <3>2. CASE SwitchBetweenTwo
      BY <2>2, <3>2 DEF SwitchBetweenTwo
    <3>3. CASE SwitchRotate
      <4>1. /\ queue_tail' = current_process
            /\ queue_next' = [queue_next EXCEPT ![queue_tail] = current_process,
                                                ![queue] = NULL]
        BY <3>3 DEF SwitchRotate
      <4>2. current_process \in Live
        BY <3>3 DEF SwitchRotate, Live
      <4>3. queue_tail # current_process /\ queue_next[current_process] = NULL
        BY <1>2, <2>2 DEF TailOK
      <4>4. /\ queue_next'[queue] = NULL
            /\ queue_next'[current_process] = NULL
            /\ queue_next'[queue_tail] = current_process
        BY <2>0, <3>0, <4>1, <4>3
      <4>5. c # NULL /\ queue_next'[t] = c
        BY <2>0, <4>4, BlockAssumption
      <4>6. InQueue(c)'
        BY <3>0, <4>5 DEF InQueue, Reaches, Closed
      <4>7. InQueue(queue_tail)'
        BY <4>1, <4>6 DEF InQueue
      <4> QED
        BY <1>0, <2>0, <3>0, <4>1, <4>2, <4>4, <4>7 DEF TailOK
    <3> QED
      BY <1>2, <3>1, <3>2, <3>3 DEF Switch
  <2> QED
    BY <2>1, <2>2
<1> QED
  BY <1>1, <1>2

LEMMA SwitchRunning ==
  ASSUME TypeOK, LinksOK, HeadOK, TailOK, RunningNotLost,
         current_process \in allocated, Switch
  PROVE  RunningNotLost'
<1>0. allocated' = allocated /\ status' = status
  BY DEF Switch, listVars
<1>1. CASE queue = NULL
  <2>1. UNCHANGED queueVars
    BY <1>1 DEF Switch
  <2> QED
    BY <1>0, <2>1, RunningStable DEF RunningNotLost
<1>2. CASE queue # NULL
  <2> SUFFICES ASSUME NEW b \in allocated, status[b] = "RUNNING",
                      b # current_process'
               PROVE  InQueue(b)'
    BY <1>0 DEF RunningNotLost
  <2>1. current_process' = queue
    BY <1>2 DEF Switch
  <2>2. /\ queue \in Block
        /\ queue_tail \in Block
        /\ current_process \in Block
        /\ queue_next \in [Block -> Block \cup {NULL}]
    BY <1>2 DEF HeadOK, TailOK, TypeOK, Live
  <2>3. CASE b = current_process
    <3>1. CASE queue_next[queue] = NULL
      <4>1. queue' = b
        BY <1>2, <2>3, <3>1 DEF Switch, SwitchFromExited, SwitchBetweenTwo, SwitchRotate
      <4> QED
        BY <2>2, <2>3, <4>1, BlockAssumption DEF InQueue, Reaches
    <3>2. CASE queue_next[queue] # NULL
      <4>. PICK t : t = queue_tail
        OBVIOUS
      <4>1. InQueue(t)' /\ t # queue /\ t \in Block
        BY <1>2, <2>2, <3>2, SwitchReach
      <4>2. queue_next'[t] = b
        BY <1>2, <2>2, <2>3, <3>2, <4>1
        DEF Switch, SwitchFromExited, SwitchBetweenTwo, SwitchRotate
      <4> QED
        BY <2>2, <2>3, <4>1, <4>2, BlockAssumption DEF InQueue, Reaches, Closed
    <3> QED
      BY <3>1, <3>2
  <2>4. CASE b # current_process
    <3>1. InQueue(b) /\ b # queue
      BY <2>1, <2>4 DEF RunningNotLost
    <3>2. queue_next[queue] # NULL
      BY <1>2, <3>1, OneInQueue
    <3> QED
      BY <1>2, <3>1, <3>2, SwitchReach
  <2> QED
    BY <2>3, <2>4
<1> QED
  BY <1>1, <1>2

-----------------------------------------------------------------------------
(* create_process.                                                         *)

\* What create_process does to the ready queue, in one of three ways.
LEMMA CreateLinks ==
  ASSUME TypeOK, LinksOK, HeadOK, TailOK, current_process \in Live,
         NEW b \in Block, NEW st \in Status \ {"EXITED"}, NEW g,
         create_process(b, st, g)
  PROVE  /\ Live' = Live \cup {b}
         /\ b \notin Live
         /\ b # current_process /\ current_process' = current_process
         /\ queue_next'[b] = NULL
         /\ \/ /\ queue' = queue
               /\ queue_tail' = queue_tail
               /\ \A y \in Live : queue_next'[y] = queue_next[y]
            \/ /\ queue = NULL
               /\ queue' = b
               /\ queue_tail' = b
               /\ \A y \in Live : queue_next'[y] = queue_next[y]
            \/ /\ queue # NULL
               /\ queue' = queue
               /\ queue_tail' = b
               /\ queue_tail \in Live
               /\ queue_next[queue_tail] = NULL
               /\ queue_next'[queue_tail] = b
               /\ \A y \in Live \ {queue_tail} : queue_next'[y] = queue_next[y]
<1>1. /\ b \notin Live
      /\ b # current_process /\ current_process' = current_process
      /\ Live \subseteq Block
      /\ queue_next \in [Block -> Block \cup {NULL}]
  BY DEF create_process, Live, TypeOK
<1>2. Live' = Live \cup {b}
  BY DEF create_process, Live, TypeOK, Status
<1>3. CASE InsertBeforeTail(b, first_free_pid)
  BY <1>1, <1>2, <1>3 DEF InsertBeforeTail
<1>4. CASE AppendAndEnqueue(b, first_free_pid)
  <2>1. CASE queue = NULL
    BY <1>1, <1>2, <1>4, <2>1 DEF AppendAndEnqueue
  <2>2. CASE queue # NULL
    <3>1. queue_tail \in Live /\ queue_next[queue_tail] = NULL
      BY <2>2 DEF TailOK
    <3>2. /\ queue_next' = [queue_next EXCEPT ![b] = NULL, ![queue_tail] = b]
          /\ queue_tail' = b
          /\ queue' = queue
      BY <1>4, <2>2 DEF AppendAndEnqueue
    <3> QED
      BY <1>1, <1>2, <2>2, <3>1, <3>2
  <2> QED
    BY <2>1, <2>2
<1> QED
  BY <1>3, <1>4 DEF create_process, add_process

LEMMA CreateQueue ==
  ASSUME TypeOK, LinksOK, HeadOK, TailOK, RunningNotLost,
         current_process \in Live,
         NEW b \in Block, NEW st \in Status \ {"EXITED", "RUNNING"}, NEW g,
         create_process(b, st, g)
  PROVE  LinksOK' /\ HeadOK' /\ TailOK' /\ RunningNotLost'
<1> PICK t : t = queue_tail
  OBVIOUS
<1> PICK c : c = current_process
  OBVIOUS
<1>0. /\ Live' = Live \cup {b}
      /\ b \notin Live
      /\ b # current_process /\ current_process' = current_process
      /\ queue_next'[b] = NULL
      /\ Live \subseteq Block
  BY CreateLinks DEF Live, TypeOK
<1>1. LinksOK'
  BY <1>0, CreateLinks, BlockAssumption DEF LinksOK
<1>2. HeadOK'
  BY <1>0, CreateLinks, BlockAssumption DEF LinksOK, HeadOK, TailOK
<1>3. \A y \in Live : queue_next[y] = NULL \/ queue_next'[y] = queue_next[y]
  BY CreateLinks
<1>4. ASSUME queue # NULL, NEW x, InQueue(x)
      PROVE  InQueue(x)'
  <2>1. queue' = queue /\ queue \in Live
    BY <1>4, CreateLinks DEF HeadOK
  <2> QED
    BY <1>3, <1>4, <2>1, ReachGrows DEF InQueue, Reaches
<1>5. ASSUME NEW x, Reaches(c, x)
      PROVE  Reaches(c, x)'
  BY <1>3, <1>5, ReachGrows DEF Reaches
<1>6. RunningNotLost'
  <2> SUFFICES ASSUME NEW x \in allocated', status'[x] = "RUNNING"
               PROVE  x = current_process \/ InQueue(x)'
    BY <1>0 DEF RunningNotLost
  <2>1. x \in allocated /\ status[x] = "RUNNING"
    BY DEF create_process, TypeOK
  <2>2. x = current_process \/ InQueue(x)
    BY <2>1 DEF RunningNotLost
  <2> QED
    BY <1>4, <2>2 DEF InQueue, Reaches
<1>7. TailOK'
  <2>1. CASE queue_tail' = queue_tail /\ queue' = queue
    <3>1. CASE queue = NULL
      BY <2>1, <3>1 DEF TailOK
    <3>2. CASE queue # NULL
      <4>1. \A y \in Live : queue_next'[y] = queue_next[y]
        BY <1>0, <2>1, CreateLinks DEF TailOK
      <4>2. queue_tail \in Live /\ queue \in Live
        BY <3>2 DEF TailOK, HeadOK
      <4>3. InQueue(t) => InQueue(queue_tail)'
        BY <1>4, <2>1, <3>2 DEF InQueue
      <4>4. Reaches(c, t) => Reaches(current_process, queue_tail)'
        BY <1>0, <1>5, <2>1
      <4> QED
        BY <1>0, <2>1, <3>2, <4>1, <4>2, <4>3, <4>4 DEF TailOK
    <3> QED
      BY <3>1, <3>2
  <2>2. CASE queue = NULL /\ queue' = b /\ queue_tail' = b
    <3>1. InQueue(queue_tail)'
      BY <2>2, BlockAssumption DEF InQueue, Reaches
    <3>2. queue_next'[current_process] = NULL
      BY <1>0, <2>2, CreateLinks DEF HeadOK
    <3> QED
      BY <1>0, <2>2, <3>1, <3>2 DEF TailOK
  <2>3. CASE /\ queue # NULL
             /\ queue' = queue
             /\ queue_tail' = b
             /\ queue_tail \in Live
             /\ queue_next'[queue_tail] = b
             /\ \A y \in Live \ {queue_tail} : queue_next'[y] = queue_next[y]
    <3>0. queue \in Live /\ queue_next[queue_tail] = NULL
      BY <2>3 DEF HeadOK, TailOK
    <3>1. queue' # b
      BY <1>0, <2>3, <3>0
    <3>2. CASE InQueue(t)
      <4>1. InQueue(b)'
        BY <1>4, <2>3, <3>2, BlockAssumption DEF InQueue, Reaches, Closed
      <4>2. InQueue(queue_tail)'
        BY <2>3, <4>1 DEF InQueue
      <4> QED
        BY <1>0, <2>3, <3>0, <3>1, <4>2 DEF TailOK
    <3>3. CASE ~InQueue(t)
      <4>1. queue_next[queue] = NULL /\ Reaches(c, t)
        BY <2>3, <3>3 DEF TailOK
      <4>2. queue # queue_tail
        BY <2>3, <3>3 DEF InQueue, Reaches
      <4>3. Reaches(c, b)'
        BY <1>5, <2>3, <4>1, BlockAssumption DEF Reaches, Closed
      <4>4. Reaches(current_process, queue_tail)'
        BY <1>0, <2>3, <4>3
      <4>5. queue_next'[queue] = NULL
        BY <2>3, <3>0, <4>1, <4>2
      <4> QED
        BY <1>0, <2>3, <3>0, <3>1, <4>4, <4>5 DEF TailOK
    <3> QED
      BY <3>2, <3>3
  <2> QED
    BY <2>1, <2>2, <2>3, CreateLinks
<1> QED
  BY <1>1, <1>2, <1>6, <1>7

-----------------------------------------------------------------------------
(* The idle process, and the locals of process_wait.                       *)

\* The list starts with pid 0, so the first free pid is another.
LEMMA FirstFreePidPositive ==
  ASSUME TypeOK, IdleOK
  PROVE  first_free_pid > 0
<1> DEFINE K == {k \in 1..Len(process_list) :
                   \A j \in 1..k : pid[process_list[j]] = j - 1}
<1>1. Len(process_list) \in Nat \ {0}
  BY EmptySeq DEF TypeOK, IdleOK
<1>2. IsFiniteSet(1..Len(process_list))
  BY <1>1, FS_Interval
<1>3. IsFiniteSet(K)
  BY <1>2, FS_Subset
<1>4. 1 \in K
  BY <1>1 DEF IdleOK
<1>5. Cardinality(K) \in Nat /\ Cardinality(K) # 0
  BY <1>3, <1>4, FS_CardinalityType, FS_EmptySet
<1> QED
  BY <1>5 DEF first_free_pid

\* What is appended to a list leaves its first element where it is.
LEMMA FirstOfConcat ==
  ASSUME NEW S, NEW u \in Seq(S), NEW v \in Seq(S), Len(u) >= 1
  PROVE  /\ u \o v \in Seq(S)
         /\ Len(u \o v) >= 1
         /\ u \o v # <<>>
         /\ (u \o v)[1] = u[1]
<1>1. Len(u) \in Nat /\ Len(v) \in Nat
  BY LenProperties
<1>2. 1 \in 1..(Len(u) + Len(v)) /\ 1 <= Len(u)
  BY <1>1
<1>3. (u \o v)[1] = u[1]
  BY <1>2, ConcatProperties
<1>4. u \o v \in Seq(S) /\ Len(u \o v) = Len(u) + Len(v)
  BY ConcatProperties
<1> QED
  BY <1>1, <1>3, <1>4, EmptySeq

\* add_process never puts a process in front of the first one.
LEMMA AddKeepsFirst ==
  ASSUME TypeOK, process_list # <<>>, NEW b \in Block, NEW p, add_process(b, p)
  PROVE  process_list' # <<>> /\ process_list'[1] = process_list[1]
<1> DEFINE s == process_list
<1>1. /\ s \in Seq(Block)
      /\ Len(s) \in Nat \ {0}
      /\ \A i \in 1..Len(s) : s[i] \in Block
  BY EmptySeq, ElementOfSeq DEF TypeOK
<1>2. CASE InsertBeforeTail(b, p)
  <2>1. PICK k \in 2..Len(s) :
          s' = SubSeq(s, 1, k) \o <<b>> \o SubSeq(s, k + 1, Len(s))
    BY <1>2 DEF InsertBeforeTail
  <2> DEFINE u == SubSeq(s, 1, k)
             v == SubSeq(s, k + 1, Len(s))
  <2>2. k \in Int /\ 1 \in 1..k
    BY <1>1, <2>1
  <2>3. u \in Seq(Block) /\ Len(u) >= 1 /\ u[1] = s[1]
    BY <1>1, <2>1, <2>2, SubSeqProperties
  <2>4. v \in Seq(Block)
    BY <1>1, <2>1, SubSeqProperties
  <2>5. <<b>> \in Seq(Block)
    OBVIOUS
  <2> HIDE DEF u, v
  <2>6. /\ u \o <<b>> \in Seq(Block)
        /\ Len(u \o <<b>>) >= 1
        /\ (u \o <<b>>)[1] = s[1]
    BY <2>3, <2>5, FirstOfConcat
  <2>7. /\ (u \o <<b>>) \o v # <<>>
        /\ ((u \o <<b>>) \o v)[1] = s[1]
    BY <2>4, <2>6, FirstOfConcat
  <2>8. s' = (u \o <<b>>) \o v
    BY <2>1 DEF u, v
  <2> QED
    BY <2>7, <2>8
<1>3. CASE AppendAndEnqueue(b, p)
  <2>1. s' = Append(s, b)
    BY <1>3 DEF AppendAndEnqueue
  <2> QED
    BY <1>1, <2>1, AppendProperties
<1> QED
  BY <1>2, <1>3 DEF add_process

\* Nor does process_wait unlink the first one.
LEMMA UnlinkKeepsFirst ==
  ASSUME TypeOK, NEW k \in 2..Len(process_list)
  PROVE  Unlinked(k) # <<>> /\ Unlinked(k)[1] = process_list[1]
<1> DEFINE s == process_list
           u == SubSeq(s, 1, k - 1)
           v == SubSeq(s, k + 1, Len(s))
<1>1. s \in Seq(Block) /\ Len(s) \in Nat /\ \A i \in 1..Len(s) : s[i] \in Block
  BY LenProperties, ElementOfSeq DEF TypeOK
<1>2. k \in Int /\ 1 \in 1..(k - 1)
  BY <1>1
<1>3. u \in Seq(Block) /\ Len(u) >= 1 /\ u[1] = s[1]
  BY <1>1, <1>2, SubSeqProperties
<1>4. v \in Seq(Block)
  BY <1>1, <1>2, SubSeqProperties
<1> HIDE DEF u, v
<1>5. u \o v # <<>> /\ (u \o v)[1] = s[1]
  BY <1>3, <1>4, FirstOfConcat
<1>6. Unlinked(k) = u \o v
  BY DEF Unlinked, u, v
<1> QED
  BY <1>5, <1>6

LEMMA CreateIdle ==
  ASSUME TypeOK, IdleOK, NEW b \in Block, NEW st, NEW g, create_process(b, st, g)
  PROVE  IdleOK'
<1>1. process_list' # <<>> /\ process_list'[1] = process_list[1]
  BY AddKeepsFirst DEF create_process, IdleOK
<1>2. first_free_pid > 0
  BY FirstFreePidPositive
<1>3. b # Idle
  BY DEF create_process, IdleOK
<1> QED
  BY <1>1, <1>2, <1>3 DEF create_process, IdleOK, TypeOK

\* Only pid 0 names the idle process.
LEMMA SignalIdle ==
  ASSUME TypeOK, IdleOK, NEW n, n # 0, NEW sig, signal_process(n, sig)
  PROVE  queued_signals'[Idle] = <<>>
<1>1. \A q : Finds(n, q) => q # Idle
  BY DEF Finds, IdleOK
<1> QED
  BY <1>1 DEF signal_process, IdleOK, TypeOK

\* Creating a process leaves alone what the others wait for.
LEMMA CreateWait ==
  ASSUME TypeOK, WaitOK, NEW b \in Block, NEW st \in Status, NEW g,
         create_process(b, st, g)
  PROVE  WaitOK'
<1>1. /\ b \notin allocated
      /\ Live' \subseteq Live \cup {b}
      /\ \A w \in Live : w # b /\ pc'[w] = pc[w] /\ target'[w] = target[w]
      /\ pc'[b] = "user"
      /\ allocated \subseteq allocated'
      /\ \A x \in allocated : status'[x] = status[x]
  BY DEF create_process, Live, TypeOK
<1> QED
  BY <1>1 DEF WaitOK

\* The same for a step that creates no process, frees none, and in which the
\* waiting processes stay where they are or leave.
LEMMA WaitStable ==
  ASSUME WaitOK,
         allocated' = allocated,
         Live' \subseteq Live,
         \A w \in Live' : pc'[w] # "user" => pc'[w] = pc[w] /\ target'[w] = target[w],
         \A x \in allocated : status[x] = "EXITED" => status'[x] = "EXITED"
  PROVE  WaitOK'
BY DEF WaitOK

-----------------------------------------------------------------------------
(* process_list holds the blocks in use, each of them once.                *)

ListInv == TypeOK /\ ListIsAllocated

LEMMA PrefixElements ==
  ASSUME NEW S, NEW s \in Seq(S), NEW k \in 0..Len(s)
  PROVE  /\ SubSeq(s, 1, k) \in Seq(S)
         /\ Len(SubSeq(s, 1, k)) = k
         /\ \A i \in 1..k : SubSeq(s, 1, k)[i] = s[i]
<1>1. Len(s) \in Nat /\ \A i \in 1..Len(s) : s[i] \in S
  BY LenProperties, ElementOfSeq
<1>2. k \in Nat /\ 1..k \subseteq 1..Len(s)
  BY <1>1
<1>3. /\ SubSeq(s, 1, k) \in Seq(S)
      /\ Len(SubSeq(s, 1, k)) = IF 1 <= k THEN k - 1 + 1 ELSE 0
      /\ \A i \in 1..(k - 1 + 1) : SubSeq(s, 1, k)[i] = s[1 + i - 1]
  BY <1>1, <1>2, SubSeqProperties
<1> QED
  BY <1>2, <1>3

LEMMA SuffixElements ==
  ASSUME NEW S, NEW s \in Seq(S), NEW k \in 0..Len(s)
  PROVE  /\ SubSeq(s, k + 1, Len(s)) \in Seq(S)
         /\ Len(SubSeq(s, k + 1, Len(s))) = Len(s) - k
         /\ \A i \in 1..(Len(s) - k) : SubSeq(s, k + 1, Len(s))[i] = s[k + i]
<1>1. Len(s) \in Nat /\ \A i \in 1..Len(s) : s[i] \in S
  BY LenProperties, ElementOfSeq
<1> PICK n \in Nat : n = Len(s)
  BY <1>1
<1>2. k \in Nat /\ k <= n /\ (k + 1)..n \subseteq 1..n
  OBVIOUS
<1>3. /\ SubSeq(s, k + 1, n) \in Seq(S)
      /\ Len(SubSeq(s, k + 1, n)) = IF k + 1 <= n THEN n - (k + 1) + 1 ELSE 0
      /\ \A i \in 1..(n - (k + 1) + 1) : SubSeq(s, k + 1, n)[i] = s[k + 1 + i - 1]
  BY <1>1, <1>2, SubSeqProperties
<1>4. Len(SubSeq(s, k + 1, n)) = n - k
  BY <1>2, <1>3
<1>5. ASSUME NEW i \in 1..(n - k)
      PROVE  SubSeq(s, k + 1, n)[i] = s[k + i]
  <2>1. i \in 1..(n - (k + 1) + 1) /\ k + 1 + i - 1 = k + i
    BY <1>2
  <2> QED
    BY <1>3, <2>1
<1> QED
  BY <1>3, <1>4, <1>5

LEMMA ConcatAt ==
  ASSUME NEW S, NEW u \in Seq(S), NEW v \in Seq(S),
         NEW m \in Nat, NEW n \in Nat, Len(u) = m, Len(v) = n
  PROVE  /\ u \o v \in Seq(S)
         /\ Len(u \o v) = m + n
         /\ \A i \in 1..m : (u \o v)[i] = u[i]
         /\ \A i \in 1..n : (u \o v)[m + i] = v[i]
<1>1. /\ u \o v \in Seq(S)
      /\ Len(u \o v) = m + n
      /\ \A i \in 1..(m + n) : (u \o v)[i] = IF i <= m THEN u[i] ELSE v[i - m]
  BY ConcatProperties
<1>2. ASSUME NEW i \in 1..m
      PROVE  (u \o v)[i] = u[i]
  <2>1. i \in 1..(m + n) /\ i <= m
    OBVIOUS
  <2> QED
    BY <1>1, <2>1
<1>3. ASSUME NEW i \in 1..n
      PROVE  (u \o v)[m + i] = v[i]
  <2>1. m + i \in 1..(m + n) /\ ~(m + i <= m) /\ m + i - m = i
    OBVIOUS
  <2> QED
    BY <1>1, <2>1
<1> QED
  BY <1>1, <1>2, <1>3

\* t is the list s, of length n, with b put behind position k.
Inserted(s, t, n, k, b) ==
  /\ Len(t) = n + 1
  /\ \A i \in 1..k : t[i] = s[i]
  /\ t[k + 1] = b
  /\ \A i \in 1..(n - k) : t[k + 1 + i] = s[k + i]

LEMMA InsertedAt ==
  ASSUME NEW S, NEW s \in Seq(S), NEW b \in S, NEW n \in Nat, Len(s) = n,
         NEW k \in 0..n
  PROVE  Inserted(s, SubSeq(s, 1, k) \o <<b>> \o SubSeq(s, k + 1, Len(s)),
                  n, k, b)
<1> DEFINE u == SubSeq(s, 1, k)
           w == u \o <<b>>
           v == SubSeq(s, k + 1, Len(s))
<1>1. k \in Nat /\ k + 1 \in Nat /\ n - k \in Nat /\ k + 1 + (n - k) = n + 1
  OBVIOUS
<1>m. PICK m \in Nat : m = k + 1
  BY <1>1
<1>r. PICK r \in Nat : r = n - k
  BY <1>1
<1>2. u \in Seq(S) /\ Len(u) = k /\ \A i \in 1..k : u[i] = s[i]
  BY PrefixElements
<1>3. v \in Seq(S) /\ Len(v) = r /\ \A i \in 1..r : v[i] = s[k + i]
  BY <1>r, SuffixElements
<1>4. <<b>> \in Seq(S) /\ Len(<<b>>) = 1 /\ <<b>>[1] = b
  OBVIOUS
<1> HIDE DEF u, v
<1>5. /\ w \in Seq(S)
      /\ Len(w) = m
      /\ \A i \in 1..k : w[i] = u[i]
      /\ \A i \in 1..1 : w[k + i] = <<b>>[i]
  BY <1>1, <1>m, <1>2, <1>4, ConcatAt
<1>6. (\A i \in 1..k : w[i] = s[i]) /\ w[k + 1] = b
  <2>1. 1 \in 1..1
    OBVIOUS
  <2> QED
    BY <1>2, <1>4, <1>5, <2>1
<1> HIDE DEF w
<1>7. /\ Len(w \o v) = m + r
      /\ \A i \in 1..m : (w \o v)[i] = w[i]
      /\ \A i \in 1..r : (w \o v)[m + i] = v[i]
  <2>1. w \in Seq(S) /\ Len(w) = m /\ v \in Seq(S) /\ Len(v) = r
    BY <1>3, <1>5
  <2>2. /\ Len(w \o v) = m + r
        /\ \A i \in 1..(m + r) : (w \o v)[i] = IF i <= m THEN w[i] ELSE v[i - m]
    BY <2>1, ConcatProperties
  <2>3. ASSUME NEW i \in 1..m
        PROVE  (w \o v)[i] = w[i]
    <3>1. i \in 1..(m + r) /\ i <= m
      OBVIOUS
    <3> QED
      BY <2>2, <3>1
  <2>4. ASSUME NEW i \in 1..r
        PROVE  (w \o v)[m + i] = v[i]
    <3>1. m + i \in 1..(m + r) /\ ~(m + i <= m) /\ m + i - m = i
      OBVIOUS
    <3> QED
      BY <2>2, <3>1
  <2> QED
    BY <2>2, <2>3, <2>4
<1>8. 1..k \subseteq 1..m /\ k + 1 \in 1..m
  BY <1>1, <1>m
<1>9. /\ Len(w \o v) = n + 1
      /\ \A i \in 1..k : (w \o v)[i] = s[i]
      /\ (w \o v)[k + 1] = b
      /\ \A i \in 1..(n - k) : (w \o v)[k + 1 + i] = s[k + i]
  BY <1>1, <1>m, <1>r, <1>3, <1>6, <1>7, <1>8
<1> QED
  BY <1>9 DEF u, v, w, Inserted

\* t is the list s, of length n, without its position k.
Removed(s, t, n, k) ==
  /\ Len(t) = n - 1
  /\ \A i \in 1..(k - 1) : t[i] = s[i]
  /\ \A i \in 1..(n - k) : t[k - 1 + i] = s[k + i]

LEMMA UnlinkedAt ==
  ASSUME TypeOK, NEW n \in Nat, Len(process_list) = n, NEW k \in 1..n
  PROVE  Removed(process_list, Unlinked(k), n, k)
<1> DEFINE s == process_list
           u == SubSeq(s, 1, k - 1)
           v == SubSeq(s, k + 1, Len(s))
<1>1. k - 1 \in Nat /\ k \in 0..n /\ k - 1 \in 0..n /\ n - k \in Nat
  OBVIOUS
<1>m. PICK m \in Nat : m = k - 1
  BY <1>1
<1>r. PICK r \in Nat : r = n - k
  BY <1>1
<1>2. s \in Seq(Block) /\ Len(s) = n
  BY DEF TypeOK
<1>3. u \in Seq(Block) /\ Len(u) = m /\ \A i \in 1..m : u[i] = s[i]
  BY <1>1, <1>m, <1>2, PrefixElements
<1>4. v \in Seq(Block) /\ Len(v) = r /\ \A i \in 1..r : v[i] = s[k + i]
  BY <1>1, <1>r, <1>2, SuffixElements
<1> HIDE DEF u, v
<1>5. /\ Len(u \o v) = m + r
      /\ \A i \in 1..m : (u \o v)[i] = u[i]
      /\ \A i \in 1..r : (u \o v)[m + i] = v[i]
  BY <1>3, <1>4, ConcatAt
<1>6. k - 1 + (n - k) = n - 1
  BY <1>1
<1>7. Unlinked(k) = u \o v
  BY DEF Unlinked, u, v
<1> QED
  BY <1>m, <1>r, <1>3, <1>4, <1>5, <1>6, <1>7 DEF Removed

Lists(t, n, x) == \E i \in 1..n : t[i] = x
Once(t, n) == \A i, j \in 1..n : t[i] = t[j] => i = j

\* A list without b, with b put behind position k, holds b as well, and still
\* nothing twice.
LEMMA InsertedElements ==
  ASSUME NEW s, NEW t, NEW b, NEW n \in Nat, NEW k \in 0..n,
         Once(s, n), ~Lists(s, n, b), Inserted(s, t, n, k, b)
  PROVE  /\ Once(t, n + 1)
         /\ \A x : Lists(t, n + 1, x) <=> (x = b \/ Lists(s, n, x))
<1>0. /\ \A i \in 1..k : t[i] = s[i]
      /\ t[k + 1] = b
      /\ \A i \in 1..(n - k) : t[k + 1 + i] = s[k + i]
  BY DEF Inserted
<1> DEFINE from(i) == IF i <= k THEN i ELSE i - 1
<1>1. ASSUME NEW i \in 1..(n + 1), i # k + 1
      PROVE  from(i) \in 1..n /\ t[i] = s[from(i)]
  <2>1. CASE i <= k
    BY <1>0, <2>1
  <2>2. CASE ~(i <= k)
    <3>1. i - (k + 1) \in 1..(n - k) /\ k + 1 + (i - (k + 1)) = i
      BY <1>1, <2>2
    <3>2. t[i] = s[k + (i - (k + 1))]
      BY <1>0, <3>1
    <3>3. k + (i - (k + 1)) = i - 1 /\ i - 1 \in 1..n
      BY <1>1, <2>2
    <3> QED
      BY <2>2, <3>2, <3>3
  <2> QED
    BY <2>1, <2>2
<1>2. ASSUME NEW i \in 1..(n + 1), NEW j \in 1..(n + 1), i # k + 1, j # k + 1,
             from(i) = from(j)
      PROVE  i = j
  <2>1. CASE i <= k /\ j <= k
    BY <1>2, <2>1
  <2>2. CASE i <= k /\ ~(j <= k)
    BY <1>2, <2>2
  <2>3. CASE ~(i <= k) /\ j <= k
    BY <1>2, <2>3
  <2>4. CASE ~(i <= k) /\ ~(j <= k)
    BY <1>2, <2>4
  <2> QED
    BY <2>1, <2>2, <2>3, <2>4
<1>3. ASSUME NEW m \in 1..n
      PROVE  Lists(t, n + 1, s[m])
  <2>1. CASE m <= k
    <3>1. m \in 1..k /\ m \in 1..(n + 1)
      BY <2>1
    <3> QED
      BY <1>0, <3>1 DEF Lists
  <2>2. CASE ~(m <= k)
    <3>1. m - k \in 1..(n - k) /\ k + 1 + (m - k) = m + 1 /\ k + (m - k) = m
      BY <2>2
    <3>2. t[m + 1] = s[m] /\ m + 1 \in 1..(n + 1)
      BY <1>0, <3>1
    <3> QED
      BY <3>2 DEF Lists
  <2> QED
    BY <2>1, <2>2
<1>4. k + 1 \in 1..(n + 1)
  OBVIOUS
<1> HIDE DEF from
<1>5. Once(t, n + 1)
  <2> SUFFICES ASSUME NEW i \in 1..(n + 1), NEW j \in 1..(n + 1), t[i] = t[j]
               PROVE  i = j
    BY DEF Once
  <2>1. CASE i = k + 1 /\ j # k + 1
    BY <1>0, <1>1, <2>1 DEF Lists
  <2>2. CASE i # k + 1 /\ j = k + 1
    BY <1>0, <1>1, <2>2 DEF Lists
  <2>3. CASE i # k + 1 /\ j # k + 1
    <3>1. s[from(i)] = s[from(j)] /\ from(i) \in 1..n /\ from(j) \in 1..n
      BY <1>1, <2>3
    <3>2. from(i) = from(j)
      BY <3>1 DEF Once
    <3> QED
      BY <1>2, <2>3, <3>2
  <2> QED
    BY <2>1, <2>2, <2>3
<1>6. ASSUME NEW x
      PROVE  Lists(t, n + 1, x) <=> (x = b \/ Lists(s, n, x))
  BY <1>0, <1>1, <1>3, <1>4 DEF Lists
<1> QED
  BY <1>5, <1>6

\* A list without its position k lists everything else, and nothing twice.
LEMMA UnlinkedElements ==
  ASSUME NEW s, NEW t, NEW n \in Nat, NEW k \in 1..n,
         Once(s, n), Removed(s, t, n, k)
  PROVE  /\ Once(t, n - 1)
         /\ \A x : Lists(t, n - 1, x) <=> (x # s[k] /\ Lists(s, n, x))
<1>0. /\ \A i \in 1..(k - 1) : t[i] = s[i]
      /\ \A i \in 1..(n - k) : t[k - 1 + i] = s[k + i]
  BY DEF Removed
<1> DEFINE from(i) == IF i < k THEN i ELSE i + 1
<1>1. ASSUME NEW i \in 1..(n - 1)
      PROVE  from(i) \in 1..n /\ from(i) # k /\ t[i] = s[from(i)]
  <2>1. CASE i < k
    BY <1>0, <2>1
  <2>2. CASE ~(i < k)
    <3>1. i - (k - 1) \in 1..(n - k) /\ k - 1 + (i - (k - 1)) = i
      BY <2>2
    <3>2. t[i] = s[k + (i - (k - 1))]
      BY <1>0, <3>1
    <3>3. k + (i - (k - 1)) = i + 1 /\ i + 1 \in 1..n /\ i + 1 # k
      BY <2>2
    <3> QED
      BY <2>2, <3>2, <3>3
  <2> QED
    BY <2>1, <2>2
<1>2. ASSUME NEW i \in 1..(n - 1), NEW j \in 1..(n - 1), from(i) = from(j)
      PROVE  i = j
  <2>1. CASE i < k /\ j < k
    BY <1>2, <2>1
  <2>2. CASE i < k /\ ~(j < k)
    BY <1>2, <2>2
  <2>3. CASE ~(i < k) /\ j < k
    BY <1>2, <2>3
  <2>4. CASE ~(i < k) /\ ~(j < k)
    BY <1>2, <2>4
  <2> QED
    BY <2>1, <2>2, <2>3, <2>4
<1>3. ASSUME NEW m \in 1..n, m # k
      PROVE  Lists(t, n - 1, s[m])
  <2>1. CASE m < k
    <3>1. m \in 1..(k - 1) /\ m \in 1..(n - 1)
      BY <2>1
    <3> QED
      BY <1>0, <3>1 DEF Lists
  <2>2. CASE ~(m < k)
    <3>1. m - k \in 1..(n - k) /\ k - 1 + (m - k) = m - 1 /\ k + (m - k) = m
      BY <1>3, <2>2
    <3>2. t[m - 1] = s[m] /\ m - 1 \in 1..(n - 1)
      BY <1>0, <1>3, <2>2, <3>1
    <3> QED
      BY <3>2 DEF Lists
  <2> QED
    BY <2>1, <2>2
<1> HIDE DEF from
<1>4. Once(t, n - 1)
  <2> SUFFICES ASSUME NEW i \in 1..(n - 1), NEW j \in 1..(n - 1), t[i] = t[j]
               PROVE  i = j
    BY DEF Once
  <2>1. s[from(i)] = s[from(j)] /\ from(i) \in 1..n /\ from(j) \in 1..n
    BY <1>1
  <2>2. from(i) = from(j)
    BY <2>1 DEF Once
  <2> QED
    BY <1>2, <2>2
<1>5. ASSUME NEW x, Lists(t, n - 1, x)
      PROVE  x # s[k] /\ Lists(s, n, x)
  <2>1. PICK i \in 1..(n - 1) : t[i] = x
    BY <1>5 DEF Lists
  <2>2. from(i) \in 1..n /\ from(i) # k /\ x = s[from(i)]
    BY <1>1, <2>1
  <2>3. x # s[k]
    BY <2>2 DEF Once
  <2> QED
    BY <2>2, <2>3 DEF Lists
<1>6. ASSUME NEW x, x # s[k], Lists(s, n, x)
      PROVE  Lists(t, n - 1, x)
  <2>1. PICK m \in 1..n : s[m] = x
    BY <1>6 DEF Lists
  <2>2. m # k
    BY <1>6, <2>1
  <2> QED
    BY <1>3, <2>1, <2>2
<1> QED
  BY <1>4, <1>5, <1>6

LEMMA ListIsAllocatedAt ==
  ASSUME NEW n \in Nat, Len(process_list) = n
  PROVE  ListIsAllocated
           <=> /\ Once(process_list, n)
               /\ \A x : x \in allocated <=> Lists(process_list, n, x)
BY DEF ListIsAllocated, Once, Lists

LEMMA ListedSet ==
  ASSUME NEW A, NEW t, NEW n, Len(t) = n, Once(t, n),
         \A x : x \in A <=> Lists(t, n, x)
  PROVE  /\ A = {t[i] : i \in 1..Len(t)}
         /\ \A j, k \in 1..Len(t) : t[j] = t[k] => j = k
<1>1. \A x : x \in A <=> x \in {t[i] : i \in 1..Len(t)}
  BY DEF Lists
<1>2. A = {t[i] : i \in 1..Len(t)}
  BY <1>1
<1> QED
  BY <1>2 DEF Once

LEMMA CreateList ==
  ASSUME ListInv, TypeOK', NEW b \in Block, NEW st, NEW g,
         create_process(b, st, g)
  PROVE  ListIsAllocated'
<1> PICK s : s = process_list
  OBVIOUS
<1> PICK t : t = process_list'
  OBVIOUS
<1>0. /\ s \in Seq(Block) /\ Len(s) \in Nat
      /\ allocated' = allocated \cup {b}
      /\ b \notin allocated
  BY LenProperties DEF create_process, ListInv, TypeOK
<1>n. PICK n \in Nat : n = Len(s)
  BY <1>0
<1>m. PICK m \in Nat : m = n + 1
  OBVIOUS
<1>1. Once(s, n) /\ \A x : x \in allocated <=> Lists(s, n, x)
  BY <1>n, ListIsAllocatedAt DEF ListInv
<1>2. PICK k \in 0..n :
        t = SubSeq(s, 1, k) \o <<b>> \o SubSeq(s, k + 1, Len(s))
  <2>1. CASE InsertBeforeTail(b, first_free_pid)
    <3>1. PICK k \in 2..Len(s) :
            t = SubSeq(s, 1, k) \o <<b>> \o SubSeq(s, k + 1, Len(s))
      BY <2>1 DEF InsertBeforeTail
    <3>2. k \in 0..n
      BY <1>0, <1>n
    <3> QED
      BY <3>1, <3>2
  <2>2. CASE AppendAndEnqueue(b, first_free_pid)
    <3>1. t = Append(s, b)
      BY <2>2 DEF AppendAndEnqueue
    <3>2. SubSeq(s, 1, n) = s
      BY <1>0, <1>n, SubSeqFull
    <3>3. SubSeq(s, n + 1, Len(s)) = <<>>
      BY <1>0, <1>n, SubSeqEmpty
    <3>4. Append(s, b) = s \o <<b>> /\ s \o <<b>> \in Seq(Block)
      BY <1>0, AppendIsConcat, ConcatProperties
    <3>5. (s \o <<b>>) \o <<>> = s \o <<b>>
      BY <3>4, ConcatEmptySeq
    <3>6. n \in 0..n
      BY <1>0
    <3> QED
      BY <3>1, <3>2, <3>3, <3>4, <3>5, <3>6
  <2> QED
    BY <2>1, <2>2 DEF create_process, add_process
<1>3. Inserted(s, t, n, k, b)
  BY <1>n, <1>0, <1>2, InsertedAt
<1>4. /\ Once(t, m)
      /\ \A x : Lists(t, m, x) <=> (x = b \/ Lists(s, n, x))
  <2>1. ~Lists(s, n, b)
    BY <1>0, <1>1
  <2>2. /\ Once(t, n + 1)
        /\ \A x : Lists(t, n + 1, x) <=> (x = b \/ Lists(s, n, x))
    BY <1>1, <1>3, <2>1, InsertedElements
  <2> QED
    BY <1>m, <2>2
<1>5. \A x : x \in allocated' <=> Lists(t, m, x)
  BY <1>0, <1>1, <1>4
<1>6. Len(t) = m
  BY <1>m, <1>3 DEF Inserted
<1>7. /\ allocated' = {t[i] : i \in 1..Len(t)}
      /\ \A i, j \in 1..Len(t) : t[i] = t[j] => i = j
  BY <1>4, <1>5, <1>6, ListedSet
<1> QED
  BY <1>7 DEF ListIsAllocated

LEMMA ReapList ==
  ASSUME ListInv, NEW p, WaitReap(p)
  PROVE  ListIsAllocated'
<1> PICK s : s = process_list
  OBVIOUS
<1> PICK t : t = process_list'
  OBVIOUS
<1>n. PICK n \in Nat : n = Len(s)
  BY LenProperties DEF ListInv, TypeOK
<1>1. Once(s, n) /\ \A x : x \in allocated <=> Lists(s, n, x)
  BY <1>n, ListIsAllocatedAt DEF ListInv
<1>2. PICK k \in 1..n : t = Unlinked(k) /\ allocated' = allocated \ {s[k]}
  BY <1>n DEF WaitReap
<1>m. PICK m : m = n - 1
  OBVIOUS
<1>3. Removed(s, t, n, k)
  <2>1. Removed(process_list, Unlinked(k), n, k)
    BY <1>n, UnlinkedAt DEF ListInv
  <2> QED
    BY <1>2, <2>1
<1>4. /\ Once(t, m)
      /\ \A x : Lists(t, m, x) <=> (x # s[k] /\ Lists(s, n, x))
  <2>1. /\ Once(t, n - 1)
        /\ \A x : Lists(t, n - 1, x) <=> (x # s[k] /\ Lists(s, n, x))
    BY <1>1, <1>3, UnlinkedElements
  <2> QED
    BY <1>m, <2>1
<1>5. \A x : x \in allocated' <=> Lists(t, m, x)
  BY <1>1, <1>2, <1>4
<1>6. Len(t) = m
  BY <1>m, <1>3 DEF Removed
<1>7. /\ allocated' = {t[i] : i \in 1..Len(t)}
      /\ \A i, j \in 1..Len(t) : t[i] = t[j] => i = j
  BY <1>4, <1>5, <1>6, ListedSet
<1> QED
  BY <1>7 DEF ListIsAllocated

LEMMA NextList == ListInv /\ [Next]_vars => ListInv'
<1> SUFFICES ASSUME ListInv, [Next]_vars
             PROVE  ListInv'
  OBVIOUS
<1>0. TypeOK'
  BY NextType DEF ListInv
<1>1. CASE UNCHANGED listVars
  BY <1>0, <1>1 DEF ListInv, ListIsAllocated, listVars
<1>2. CASE kmain
  BY <1>0, <1>2, CreateList DEF kmain, ListInv
<1>3. ASSUME NEW p \in Block, kfork(p)
      PROVE  ListInv'
  BY <1>0, <1>3, CreateList DEF kfork, ListInv
<1>4. ASSUME NEW p \in Block, WaitReap(p)
      PROVE  ListInv'
  BY <1>0, <1>4, ReapList DEF ListInv
<1>5. CASE Tick \/ Reschedule
  BY <1>1, <1>5 DEF Tick, Reschedule, Switch
<1>6. ASSUME NEW p \in Block, process_exit(p)
      PROVE  ListInv'
  BY <1>1, <1>6 DEF process_exit
<1>7. ASSUME NEW p \in Block, SegFault(p)
      PROVE  ListInv'
  BY <1>1, <1>7 DEF SegFault
<1>8. ASSUME NEW p \in Block, Exit(p) \/ SysReturn(p) \/ Dispatch(p)
      PROVE  ListInv'
  BY <1>1, <1>6, <1>8 DEF Exit, SysReturn, Dispatch
<1>9. ASSUME NEW p \in Block, page_fault_error(p) \/ WaitFault(p) \/ WaitTest(p)
      PROVE  ListInv'
  BY <1>1, <1>7, <1>9 DEF page_fault_error, WaitFault, WaitTest
<1>10. ASSUME NEW p \in Block, NEW n \in PidArg, WaitStart(p, n)
       PROVE  ListInv'
  BY <1>1, <1>10 DEF WaitStart
<1>11. ASSUME NEW p \in Block, NEW n \in PidArg, NEW sig \in Signal,
              process_kill(p, n, sig)
       PROVE  ListInv'
  BY <1>1, <1>11 DEF process_kill
<1>12. CASE UNCHANGED vars
  BY <1>1, <1>12 DEF vars, listVars
<1> QED
  BY <1>2, <1>3, <1>4, <1>5, <1>8, <1>9, <1>10, <1>11, <1>12 DEF Next

(***************************************************************************)
(* add_process (process.c:52-85) and the unlinking in process_wait         *)
(* (process.c:569-580) keep process_list exact: it holds each process_t in *)
(* use once, and none that has been freed, even if waits are shared.       *)
(***************************************************************************)
THEOREM ListCorrect == Spec => []ListIsAllocated
<1>1. Init => ListInv
  <2>1. Init => ListIsAllocated
    BY DEF Init, ListIsAllocated
  <2> QED
    BY <2>1, InitType DEF ListInv
<1>2. ListInv => ListIsAllocated
  BY DEF ListInv
<1> QED
  BY <1>1, <1>2, NextList, PTL DEF Spec

-----------------------------------------------------------------------------
(* The inductive invariant.                                                *)

\* A step that keeps the pointers of the ready queue, the blocks in use and
\* the list, and in which nobody starts waiting: an exit or a signal.
LEMMA QuietStep ==
  ASSUME IInv, TypeOK', ListIsAllocated',
         UNCHANGED queueVars, UNCHANGED listVars,
         status'[Idle] = "RUNNING",
         queued_signals'[Idle] = <<>>,
         kernel' # "panic",
         \A b \in Block \ {current_process} : status'[b] = status[b],
         \/ status'[current_process] = "EXITED" /\ kernel' = "schedule"
         \/ status[current_process] # "EXITED" /\ status'[current_process] # "EXITED",
         \A w \in Live' : pc'[w] # "user" => pc'[w] = pc[w] /\ target'[w] = target[w]
  PROVE  IInv'
<1>0. /\ allocated' = allocated
      /\ process_list' = process_list
      /\ pid' = pid
      /\ current_process' = current_process
      /\ current_process \in Block
      /\ allocated \subseteq Block
  BY DEF queueVars, listVars, IInv, TypeOK
<1>1. Live' \subseteq Live /\ Live \subseteq Live' \cup {current_process}
  BY <1>0 DEF Live
<1>2. LinksOK' /\ HeadOK' /\ TailOK'
  BY <1>1, QueueStable DEF IInv
<1>3. RunningNotLost'
  <2>1. \A b \in allocated' : status'[b] = "RUNNING" =>
          b = current_process \/ (b \in allocated /\ status[b] = "RUNNING")
    BY <1>0
  <2> QED
    BY <2>1, RunningStable DEF IInv
<1>4. CurrentOK'
  BY <1>0 DEF IInv, CurrentOK
<1>5. IdleOK'
  <2>1. Idle \in Live'
    BY <1>0 DEF IInv, IdleOK, Live
  <2>2. pc'[Idle] = "user"
    BY <2>1, <1>1 DEF IInv, IdleOK
  <2> QED
    BY <1>0, <2>2 DEF IInv, IdleOK
<1>6. \A x \in allocated : status[x] = "EXITED" => status'[x] = "EXITED"
  BY <1>0
<1>7. WaitOK'
  BY <1>0, <1>1, <1>6, WaitStable DEF IInv
<1>8. NoPanic'
  BY DEF NoPanic
<1> QED
  BY <1>2, <1>3, <1>4, <1>5, <1>7, <1>8 DEF IInv

LEMMA ExitStep ==
  ASSUME IInv, TypeOK', ListIsAllocated',
         process_exit(current_process), current_process # Idle
  PROVE  IInv'
<1>1. /\ UNCHANGED queueVars /\ UNCHANGED listVars
      /\ status'[Idle] = "RUNNING"
      /\ queued_signals'[Idle] = <<>>
      /\ kernel' = "schedule"
      /\ \A b \in Block \ {current_process} : status'[b] = status[b]
      /\ status'[current_process] = "EXITED"
  BY BlockAssumption DEF process_exit, IInv, TypeOK, IdleOK
<1>2. \A w \in Live' :
        pc'[w] # "user" => pc'[w] = pc[w] /\ target'[w] = target[w]
  BY <1>1 DEF process_exit, IInv, TypeOK, Live, listVars
<1> QED
  BY <1>1, <1>2, QuietStep

LEMMA SwitchStep ==
  ASSUME IInv, TypeOK', ListIsAllocated', Switch
  PROVE  IInv'
<1>0. /\ allocated' = allocated
      /\ process_list' = process_list
      /\ pid' = pid
      /\ status' = status
      /\ queued_signals' = queued_signals
      /\ pc' = pc /\ target' = target
      /\ kernel' = "dispatch"
  BY DEF Switch, listVars, waitVars
<1>1. current_process \in allocated
  BY DEF IInv, CurrentOK
<1>2. LinksOK' /\ HeadOK' /\ TailOK' /\ RunningNotLost'
  BY <1>1, SwitchLinks, SwitchTail, SwitchRunning DEF IInv
<1>3. current_process' \in Live
  <2>1. CASE queue = NULL
    <3>1. ~InQueue(Idle)
      BY <2>1 DEF InQueue, Reaches
    <3>2. current_process = Idle
      BY <3>1 DEF IInv, RunningNotLost, IdleOK
    <3> QED
      BY <2>1, <3>2 DEF Switch, queueVars, IInv, IdleOK, Live
  <2>2. CASE queue # NULL
    BY <2>2 DEF Switch, IInv, HeadOK
  <2> QED
    BY <2>1, <2>2
<1>4. CurrentOK'
  BY <1>0, <1>3 DEF CurrentOK, Live
<1>5. IdleOK'
  BY <1>0 DEF IInv, IdleOK
<1>6. WaitOK'
  BY <1>0 DEF IInv, WaitOK, Live
<1>7. NoPanic'
  BY <1>0 DEF NoPanic
<1> QED
  BY <1>2, <1>4, <1>5, <1>6, <1>7 DEF IInv

LEMMA CreateStep ==
  ASSUME IInv, TypeOK', ListIsAllocated', kernel # "schedule", kernel' # "panic",
         NEW b \in Block, NEW st \in {"INITIAL", "FORKED"}, NEW g,
         create_process(b, st, g)
  PROVE  IInv'
<1>1. current_process \in Live
  BY DEF IInv, CurrentOK, Live
<1>2. st \in Status \ {"EXITED", "RUNNING"}
  BY DEF Status
<1>3. LinksOK' /\ HeadOK' /\ TailOK' /\ RunningNotLost'
  BY <1>1, <1>2, CreateQueue DEF IInv
<1>4. CurrentOK'
  <2>1. b # current_process
    BY <1>1 DEF create_process, Live
  <2> QED
    BY <1>1, <2>1 DEF create_process, CurrentOK, Live, IInv, TypeOK
<1>5. IdleOK'
  BY CreateIdle DEF IInv
<1>6. WaitOK'
  BY <1>2, CreateWait DEF IInv
<1>7. NoPanic'
  BY DEF NoPanic
<1> QED
  BY <1>3, <1>4, <1>5, <1>6, <1>7 DEF IInv

LEMMA SegFaultStep ==
  ASSUME IInv, TypeOK', ListIsAllocated', current_process # Idle, kernel = "run",
         SegFault(current_process)
  PROVE  IInv'
<1>1. pid[current_process] # 0
  BY DEF IInv, CurrentOK, IdleOK, TypeOK
<1>2. queued_signals'[Idle] = <<>>
  BY <1>1, SignalIdle DEF SegFault, IInv
<1> QED
  BY <1>2, QuietStep
  DEF SegFault, IInv, IdleOK, CurrentOK, TypeOK, waitVars

LEMMA WaitStartStep ==
  ASSUME IInv, TypeOK', ListIsAllocated', ~SharedWait, NEW p \in Block, NEW n, WaitStart(p, n)
  PROVE  IInv'
<1>0. /\ UNCHANGED queueVars
      /\ allocated' = allocated /\ process_list' = process_list
      /\ pid' = pid /\ status' = status /\ queued_signals' = queued_signals
      /\ current_process' = current_process
      /\ kernel = "run" /\ kernel' \in {"run", "sysret"}
      /\ p = current_process
  BY DEF WaitStart, InUser, listVars, queueVars
<1>1. Live' = Live
  BY <1>0 DEF Live
<1>2. LinksOK' /\ HeadOK' /\ TailOK'
  BY <1>0, <1>1, QueueStable DEF IInv
<1>3. RunningNotLost'
  BY <1>0, RunningStable DEF IInv
<1>4. CurrentOK' /\ IdleOK' /\ NoPanic'
  <2>1. pc'[Idle] = "user"
    BY DEF WaitStart, InUser, waitVars, IInv, TypeOK, IdleOK
  <2> QED
    BY <1>0, <2>1 DEF IInv, CurrentOK, IdleOK, NoPanic
<1>5. WaitOK'
  <2>1. CASE UNCHANGED waitVars
    BY <1>0, <1>1, <2>1 DEF waitVars, IInv, WaitOK
  <2>2. CASE ~UNCHANGED waitVars
    <3>1. PICK t \in Block : /\ WaitFinds(p, n, t)
                             /\ Waiters(t) = {}
                             /\ target' = [target EXCEPT ![p] = t]
                             /\ pc' = [pc EXCEPT ![p] = "loop"]
      BY <2>2 DEF WaitStart
    <3>2. t \in allocated
      BY <3>1 DEF WaitFinds, Finds, IInv, ListIsAllocated
    <3>3. \A w \in Live : pc[w] # "user" => target[w] # t
      BY <3>1 DEF Waiters, Live
    <3>4. /\ pc'[p] = "loop" /\ target'[p] = t
          /\ \A w \in Live \ {p} : pc'[w] = pc[w] /\ target'[w] = target[w]
      BY <3>1 DEF IInv, TypeOK, Live
    <3> QED
      BY <1>0, <1>1, <3>2, <3>3, <3>4 DEF IInv, WaitOK
  <2> QED
    BY <2>1, <2>2
<1> QED
  BY <1>2, <1>3, <1>4, <1>5 DEF IInv

LEMMA WaitTestStep ==
  ASSUME IInv, TypeOK', ListIsAllocated', NEW p \in Block, WaitTest(p)
  PROVE  IInv'
<1>0. /\ UNCHANGED queueVars
      /\ allocated' = allocated /\ process_list' = process_list
      /\ pid' = pid /\ status' = status /\ queued_signals' = queued_signals
      /\ current_process' = current_process
      /\ kernel = "run" /\ kernel' = "run"
      /\ target' = target
      /\ p = current_process
  BY DEF WaitTest, listVars, queueVars
<1>1. Live' = Live
  BY <1>0 DEF Live
<1>2. LinksOK' /\ HeadOK' /\ TailOK'
  BY <1>0, <1>1, QueueStable DEF IInv
<1>3. RunningNotLost'
  BY <1>0, RunningStable DEF IInv
<1>4. CurrentOK' /\ IdleOK' /\ NoPanic'
  <2>1. pc'[Idle] = "user"
    BY DEF WaitTest, IInv, TypeOK, IdleOK
  <2> QED
    BY <1>0, <2>1 DEF IInv, CurrentOK, IdleOK, NoPanic
<1>5. p \in Live
  BY <1>0 DEF IInv, CurrentOK, Live
<1>6. pc[p] = "loop" /\ status[target[p]] = "EXITED"
  BY <1>5 DEF WaitTest, HasExited, IInv, WaitOK
<1>7. /\ pc'[p] = "reap"
      /\ \A w \in Live \ {p} : pc'[w] = pc[w]
  BY DEF WaitTest, IInv, TypeOK, Live
<1>8. WaitOK'
  BY <1>0, <1>1, <1>5, <1>6, <1>7 DEF IInv, WaitOK
<1> QED
  BY <1>2, <1>3, <1>4, <1>8 DEF IInv

\* Freeing a process that has exited takes nothing away from the queue.
LEMMA WaitReapStep ==
  ASSUME IInv, TypeOK', ListIsAllocated', NEW p \in Block, WaitReap(p)
  PROVE  IInv'
<1>0. /\ UNCHANGED queueVars
      /\ allocated' = allocated \ {target[p]}
      /\ pid' = pid /\ status' = status /\ queued_signals' = queued_signals
      /\ current_process' = current_process
      /\ kernel = "run" /\ kernel' = "sysret"
      /\ p = current_process /\ pc[p] = "reap"
  BY DEF WaitReap, queueVars
<1>1. p \in Live
  BY <1>0 DEF IInv, CurrentOK, Live
<1>2. status[target[p]] = "EXITED" /\ target[p] \in allocated
  BY <1>0, <1>1 DEF IInv, WaitOK
<1>3. Live' = Live
  BY <1>0, <1>2 DEF Live
<1>4. LinksOK' /\ HeadOK' /\ TailOK'
  BY <1>0, <1>3, QueueStable DEF IInv
<1>5. RunningNotLost'
  BY <1>0, RunningStable DEF IInv
<1>6. CurrentOK'
  BY <1>0, <1>1, <1>2 DEF IInv, CurrentOK, Live
<1>7. IdleOK'
  <2>1. Idle # target[p]
    BY <1>2 DEF IInv, IdleOK
  <2>2. process_list' # <<>> /\ process_list'[1] = process_list[1]
    BY <1>0, <2>1, UnlinkKeepsFirst DEF WaitReap, IInv, IdleOK
  <2>3. pc'[Idle] = "user"
    BY DEF WaitReap, IInv, TypeOK, IdleOK
  <2> QED
    BY <1>0, <2>1, <2>2, <2>3 DEF IInv, IdleOK
<1>8. /\ pc'[p] = "user"
      /\ \A w \in Live \ {p} : pc'[w] = pc[w] /\ target'[w] = target[w]
  BY DEF WaitReap, IInv, TypeOK, Live
<1>9. WaitOK'
  BY <1>0, <1>1, <1>2, <1>3, <1>8 DEF IInv, WaitOK
<1>10. NoPanic'
  BY <1>0 DEF NoPanic
<1> QED
  BY <1>4, <1>5, <1>6, <1>7, <1>9, <1>10 DEF IInv

\* A fault in process_wait is one of a program.
LEMMA WaitFaultStep ==
  ASSUME IInv, TypeOK', ListIsAllocated', NEW p \in Block, WaitFault(p)
  PROVE  IInv'
<1>1. p = current_process /\ kernel = "run" /\ SegFault(p)
  BY DEF WaitFault
<1>2. p # Idle
  BY DEF WaitFault, IInv, IdleOK
<1> QED
  BY <1>1, <1>2, SegFaultStep

\* The idle process has no signal that would end it.
LEMMA DeadlyNotIdle ==
  ASSUME IInv, NEW p, Deadly(p)
  PROVE  p # Idle
BY DEF Deadly, IInv, IdleOK

\* check_signals without a signal that ends the process.
LEMMA DropStep ==
  ASSUME IInv, TypeOK', ListIsAllocated',
         DropIgnored(current_process),
         UNCHANGED queueVars, UNCHANGED listVars, UNCHANGED waitVars,
         status[current_process] # "EXITED",
         status'[current_process] # "EXITED",
         current_process = Idle => status'[Idle] = "RUNNING",
         \A b \in Block \ {current_process} : status'[b] = status[b],
         kernel' # "panic"
  PROVE  IInv'
<1>1. queued_signals'[Idle] = <<>>
  BY BlockAssumption DEF DropIgnored, IInv, TypeOK, IdleOK
<1>2. status'[Idle] = "RUNNING"
  BY BlockAssumption DEF IInv, IdleOK
<1> QED
  BY <1>1, <1>2, QuietStep DEF waitVars

LEMMA SysReturnStep ==
  ASSUME IInv, TypeOK', ListIsAllocated', NEW p \in Block, SysReturn(p)
  PROVE  IInv'
<1>1. p = current_process
  BY DEF SysReturn
<1>2. CASE process_exit(p) /\ Deadly(p)
  BY <1>1, <1>2, DeadlyNotIdle, ExitStep
<1>3. CASE ~(process_exit(p) /\ Deadly(p))
  <2>1. /\ DropIgnored(current_process)
        /\ UNCHANGED <<queueVars, listVars, waitVars, status>>
        /\ kernel' = "run"
        /\ kernel = "sysret"
    BY <1>1, <1>3 DEF SysReturn
  <2>2. status[current_process] # "EXITED"
    BY <2>1 DEF IInv, CurrentOK
  <2> QED
    BY <2>1, <2>2, DropStep DEF IInv, IdleOK
<1> QED
  BY <1>2, <1>3

LEMMA DispatchStep ==
  ASSUME IInv, TypeOK', ListIsAllocated', NEW p \in Block, Dispatch(p)
  PROVE  IInv'
<1>1. p = current_process
  BY DEF Dispatch
<1>2. CASE process_exit(p) /\ Deadly(p)
  BY <1>1, <1>2, DeadlyNotIdle, ExitStep
<1>3. CASE ~(process_exit(p) /\ Deadly(p))
  <2>1. status[p] # "EXITED"
    BY <1>1 DEF Dispatch, IInv, CurrentOK
  <2>2. /\ DropIgnored(current_process)
        /\ UNCHANGED <<queueVars, listVars, waitVars>>
        /\ status' = [status EXCEPT ![p] = "RUNNING"]
        /\ kernel' = "run"
    BY <1>1, <1>3, <2>1 DEF Dispatch
  <2>3. /\ status'[current_process] = "RUNNING"
        /\ \A b \in Block \ {current_process} : status'[b] = status[b]
    BY <1>1, <2>2 DEF IInv, TypeOK
  <2> QED
    BY <1>1, <2>1, <2>2, <2>3, DropStep
<1> QED
  BY <1>2, <1>3

LEMMA KillStep ==
  ASSUME IInv, TypeOK', ListIsAllocated',
         NEW p \in Block, NEW n, NEW sig, process_kill(p, n, sig)
  PROVE  IInv'
<1>1. queued_signals'[Idle] = <<>>
  BY SignalIdle DEF process_kill, Protected, IInv, IdleOK
<1> QED
  BY <1>1, QuietStep
  DEF process_kill, InUser, IInv, IdleOK, CurrentOK, waitVars

LEMMA InitIInv == Init => IInv
<1> SUFFICES ASSUME Init
             PROVE  IInv
  OBVIOUS
<1>1. TypeOK /\ ListIsAllocated
  BY InitType DEF Init, ListIsAllocated
<1>2. \A x \in Live : x = Idle
  BY DEF Init, Live
<1>3. /\ queue = NULL /\ current_process = Idle
      /\ queue_next[Idle] = NULL /\ NULL # Idle
  BY BlockAssumption DEF Init
<1>4. LinksOK /\ HeadOK /\ TailOK
  BY <1>2, <1>3 DEF LinksOK, HeadOK, TailOK
<1>5. CurrentOK /\ NoPanic
  BY BlockAssumption DEF Init, CurrentOK, NoPanic
<1>6. IdleOK
  BY BlockAssumption DEF Init, IdleOK
<1>7. WaitOK
  BY <1>2, BlockAssumption DEF Init, WaitOK
<1>8. RunningNotLost
  BY DEF Init, RunningNotLost
<1> QED
  BY <1>1, <1>4, <1>5, <1>6, <1>7, <1>8 DEF IInv

LEMMA NextIInv ==
  ASSUME ~SharedWait
  PROVE  IInv /\ [Next]_vars => IInv'
<1> SUFFICES ASSUME IInv, [Next]_vars
             PROVE  IInv'
  OBVIOUS
<1>0. TypeOK' /\ ListIsAllocated'
  BY NextList DEF ListInv, IInv
<1>1. CASE kmain
  <2>1. PICK b \in Block, g \in StackGarbage : create_process(b, "INITIAL", g)
    BY <1>1 DEF kmain
  <2>2. kernel = "boot" /\ kernel' = "run"
    BY <1>1 DEF kmain
  <2> QED
    BY <1>0, <2>1, <2>2, CreateStep
<1>2. CASE Tick
  BY <1>0, <1>2, SwitchStep DEF Tick
<1>3. CASE Reschedule
  BY <1>0, <1>3, SwitchStep DEF Reschedule
<1>4. ASSUME NEW p \in Block, kfork(p)
      PROVE  IInv'
  <2>1. PICK b \in Block : create_process(b, "FORKED", pid[p])
    BY <1>4 DEF kfork
  <2>2. kernel = "run" /\ kernel' = "sysret"
    BY <1>4 DEF kfork, InUser
  <2> QED
    BY <1>0, <2>1, <2>2, CreateStep
<1>5. ASSUME NEW p \in Block, Exit(p)
      PROVE  IInv'
  BY <1>0, <1>5, ExitStep DEF Exit, InUser
<1>6. ASSUME NEW p \in Block, page_fault_error(p)
      PROVE  IInv'
  BY <1>0, <1>6, SegFaultStep DEF page_fault_error, InUser
<1>7. ASSUME NEW p \in Block, NEW n \in PidArg, NEW sig \in Signal,
             process_kill(p, n, sig)
      PROVE  IInv'
  BY <1>0, <1>7, KillStep
<1>8. ASSUME NEW p \in Block, NEW n \in PidArg, WaitStart(p, n)
      PROVE  IInv'
  BY <1>0, <1>8, WaitStartStep
<1>9. ASSUME NEW p \in Block, WaitTest(p)
      PROVE  IInv'
  BY <1>0, <1>9, WaitTestStep
<1>10. ASSUME NEW p \in Block, WaitReap(p)
       PROVE  IInv'
  BY <1>0, <1>10, WaitReapStep
<1>11. ASSUME NEW p \in Block, WaitFault(p)
       PROVE  IInv'
  BY <1>0, <1>11, WaitFaultStep
<1>12. ASSUME NEW p \in Block, SysReturn(p)
       PROVE  IInv'
  BY <1>0, <1>12, SysReturnStep
<1>13. ASSUME NEW p \in Block, Dispatch(p)
       PROVE  IInv'
  BY <1>0, <1>13, DispatchStep
<1>14. CASE UNCHANGED vars
  <2>1. /\ UNCHANGED <<queueVars, listVars, waitVars, status>>
        /\ queued_signals' = queued_signals /\ kernel' = kernel
    BY <1>14 DEF vars, queueVars, listVars, waitVars
  <2>2. Live' = Live
    BY <2>1 DEF Live, listVars
  <2>3. LinksOK' /\ HeadOK' /\ TailOK'
    BY <2>1, <2>2, QueueStable DEF IInv
  <2>4. RunningNotLost'
    BY <2>1, RunningStable DEF IInv, listVars
  <2>5. CurrentOK' /\ IdleOK' /\ NoPanic'
    BY <2>1 DEF IInv, CurrentOK, IdleOK, NoPanic, listVars, queueVars, waitVars
  <2>6. WaitOK'
    BY <2>1, <2>2 DEF IInv, WaitOK, listVars, waitVars
  <2> QED
    BY <1>0, <2>3, <2>4, <2>5, <2>6 DEF IInv
<1> QED
  BY <1>1, <1>2, <1>3, <1>4, <1>5, <1>6, <1>7, <1>8, <1>9, <1>10, <1>11,
     <1>12, <1>13, <1>14
  DEF Next

\* Everything in the queue is among the processes that have not exited.
LEMMA QueueIsLive == IInv => QueueSound
<1> SUFFICES ASSUME IInv, NEW b \in Block, InQueue(b)
             PROVE  b \in Live /\ b # current_process
  BY DEF QueueSound, Live
<1> DEFINE S == Live \ {current_process}
<1>1. S \in SUBSET Block
  BY DEF IInv, TypeOK, Live
<1>2. queue \in S
  BY DEF InQueue, Reaches, IInv, HeadOK
<1>3. Closed(S)
  BY DEF Closed, IInv, LinksOK
<1> QED
  BY <1>1, <1>2, <1>3 DEF InQueue, Reaches

-----------------------------------------------------------------------------
(* The safety properties.                                                  *)

(***************************************************************************)
(* The inductive invariant holds of every reachable state, if no process   *)
(* waits for a process that another one waits for already.                 *)
(***************************************************************************)
THEOREM InvariantCorrect ==
  ASSUME ~SharedWait
  PROVE  Spec => []IInv
<1> QED
  BY InitIInv, NextIInv, PTL DEF Spec

(***************************************************************************)
(* schedule() (process.c:305-343) loses no process that has run, whatever  *)
(* forks, exits, signals, waits and timer interrupts come before, for any  *)
(* number of processes.                                                    *)
(***************************************************************************)
THEOREM RunningNeverLost ==
  ASSUME ~SharedWait
  PROVE  Spec => []RunningNotLost
<1>1. IInv => RunningNotLost
  BY DEF IInv
<1> QED
  BY <1>1, InvariantCorrect, PTL

(***************************************************************************)
(* The ready queue holds no process that has exited, none that has been    *)
(* freed (process.c:441-510, 563-579), and not the one that is running.    *)
(***************************************************************************)
THEOREM QueueAlwaysSound ==
  ASSUME ~SharedWait
  PROVE  Spec => []QueueSound
<1> QED
  BY QueueIsLive, InvariantCorrect, PTL

(***************************************************************************)
(* schedule() never reaches its kpanic("Process %d in undefined state!")   *)
(* (process.c:378).                                                        *)
(***************************************************************************)
THEOREM NeverPanics ==
  ASSUME ~SharedWait
  PROVE  Spec => []NoPanic
<1>1. IInv => NoPanic
  BY DEF IInv
<1> QED
  BY <1>1, InvariantCorrect, PTL
=============================================================================

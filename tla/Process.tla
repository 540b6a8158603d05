------------------------------ MODULE Process ------------------------------
(***************************************************************************)
(* Processes and the scheduler of the XanaduOS kernel                      *)
(* (src/arch/x86_64/c/interface/process.c and its callers).                *)
(*                                                                         *)
(* A process_t is a heap block.  Two linked lists run through the blocks:  *)
(* process_list (field next, every process) and the ready queue (field     *)
(* queue_next, from queue to queue_tail).  The ready queue keeps its       *)
(* pointers here, because what can go wrong with it is a stale pointer;    *)
(* process_list is the sequence of the blocks its links visit.             *)
(*                                                                         *)
(* One CPU executes everything.  Kernel code runs with interrupts off,     *)
(* except the loop of process_wait, so an action is a piece of code no     *)
(* timer interrupt can split; kernel says which piece comes next.  Signal  *)
(* handlers, file descriptors and address spaces are not part of this      *)
(* module: a signal here has its default effect.                           *)
(***************************************************************************)
EXTENDS Integers, Sequences, FiniteSets

CONSTANTS
  Block,       \* the blocks kmalloc may return for a process_t, and Idle
  Idle,        \* the static idle_process
  NULL,        \* the null pointer
  Signal,      \* the signals sent
  Ignored,     \* those whose default is to be ignored: SIGCHLD, SIGURG, SIGWINCH
  SegV,        \* SIGSEGV, which a bad access sends
  PidArg,      \* the pids programs pass to kill and wait4 (-1: any child)
  StackGarbage,\* what an uninitialized ppid may hold
  MaxSignals,  \* bound on the length of a queued_signals list
  SharedWait   \* whether two processes may wait for the same one at once

ASSUME BlockAssumption ==
  /\ Idle \in Block
  /\ NULL \notin Block
ASSUME SignalAssumption ==
  /\ Ignored \subseteq Signal
  /\ SegV \in Signal \ Ignored
ASSUME ArgAssumption ==
  /\ PidArg \subseteq Int
  /\ StackGarbage \subseteq Int
  /\ MaxSignals \in Nat
  /\ SharedWait \in BOOLEAN

VARIABLES
  process_list,    \* the blocks linked from process_list, in order
  queue,           \* head of the ready queue
  queue_tail,      \* where the next process is linked
  queue_next,      \* the field of every block
  current_process,
  allocated,       \* blocks that hold a process_t (the others are free)
  pid, ppid, status,   \* fields of every block
  queued_signals,  \* per block, the signal list, head first
  pc,              \* per block: "user", or where process_wait stands
  target,          \* per block: the local `current' of process_wait
  kernel           \* what the CPU executes next

queueVars == <<queue, queue_tail, queue_next, current_process>>
listVars  == <<process_list, allocated, pid, ppid>>
waitVars  == <<pc, target>>
vars == <<process_list, queue, queue_tail, queue_next, current_process,
          allocated, pid, ppid, status, queued_signals, pc, target, kernel>>

\* process.h:16-21; TASK_STOPPED and TASK_WAITING are never assigned.
Status == {"INITIAL", "FORKED", "RUNNING", "EXITED"}

(***************************************************************************)
(* "run": interrupts on, the current process executes;  "sysret": a system *)
(* call is done, check_signals(true) follows;  "schedule": schedule() is   *)
(* entered;  "dispatch": it has switched;  "panic": kpanic stopped.        *)
(***************************************************************************)
KernelMode == {"boot", "run", "sysret", "schedule", "dispatch", "panic"}

TypeOK ==
  /\ process_list \in Seq(Block)
  /\ queue \in Block \cup {NULL}
  /\ queue_tail \in Block \cup {NULL}
  /\ queue_next \in [Block -> Block \cup {NULL}]
  /\ current_process \in Block
  /\ allocated \in SUBSET Block
  /\ pid \in [Block -> Nat]
  /\ ppid \in [Block -> Int]
  /\ status \in [Block -> Status]
  /\ queued_signals \in [Block -> Seq(Signal)]
  /\ pc \in [Block -> {"user", "loop", "reap"}]
  /\ target \in [Block -> Block \cup {NULL}]
  /\ kernel \in KernelMode

\* process_init: only the idle process exists, and it is running.
Init ==
  /\ process_list = <<Idle>>
  /\ queue = NULL
  /\ queue_tail = NULL
  /\ queue_next = [b \in Block |-> NULL]
  /\ current_process = Idle
  /\ allocated = {Idle}
  /\ pid = [b \in Block |-> 0]
  /\ ppid = [b \in Block |-> 0]
  /\ status = [b \in Block |-> "RUNNING"]
  /\ queued_signals = [b \in Block |-> <<>>]
  /\ pc = [b \in Block |-> "user"]
  /\ target = [b \in Block |-> NULL]
  /\ kernel = "boot"

-----------------------------------------------------------------------------
(* Creating a process.                                                     *)

\* Mutant: the counter starts at -1.
first_free_pid_from_minus_one ==
  Cardinality({k \in 1..Len(process_list) :
                 \A j \in 1..k : pid[process_list[j]] = j - 2}) - 1

\* The list is walked while it holds 0, 1, 2, ...: the length of that prefix.
first_free_pid ==
  Cardinality({k \in 1..Len(process_list) :
                 \A j \in 1..k : pid[process_list[j]] = j - 1})

\* add_process, the early return: b goes after the first later element with
\* a greater pid, and the ready queue is not touched.
InsertBeforeTail(b, p) ==
  \E k \in 2..Len(process_list) :
    /\ pid[process_list[k]] > p
    /\ \A j \in 2..(k - 1) : pid[process_list[j]] <= p
    /\ process_list' = SubSeq(process_list, 1, k) \o <<b>>
                         \o SubSeq(process_list, k + 1, Len(process_list))
    /\ queue_next' = [queue_next EXCEPT ![b] = NULL]
    /\ UNCHANGED <<queue, queue_tail>>

\* add_process, the rest: b is last in the list and in the ready queue.
AppendAndEnqueue(b, p) ==
  /\ \A k \in 2..Len(process_list) : pid[process_list[k]] <= p
  /\ process_list' = Append(process_list, b)
  /\ queue_tail' = b
  /\ \/ /\ queue = NULL
        /\ queue' = b
        /\ queue_next' = [queue_next EXCEPT ![b] = NULL]
     \/ /\ queue # NULL
        /\ queue_next' = [queue_next EXCEPT ![b] = NULL, ![queue_tail] = b]
        /\ UNCHANGED queue

\* The list is never empty: it holds Idle, so its first branch is not needed.
add_process(b, p) ==
  InsertBeforeTail(b, p) \/ AppendAndEnqueue(b, p)

\* create_process, the fields its caller sets, and add_process.
create_process(b, st, parent) ==
  /\ b \notin allocated
  /\ allocated' = allocated \cup {b}
  /\ pid' = [pid EXCEPT ![b] = first_free_pid]
  /\ ppid' = [ppid EXCEPT ![b] = parent]
  /\ status' = [status EXCEPT ![b] = st]
  /\ queued_signals' = [queued_signals EXCEPT ![b] = <<>>]
  /\ pc' = [pc EXCEPT ![b] = "user"]
  /\ target' = [target EXCEPT ![b] = NULL]
  /\ add_process(b, first_free_pid)
  /\ UNCHANGED current_process

\* kmain creates the first program, whose ppid nobody sets, and turns
\* interrupts on.
kmain ==
  /\ kernel = "boot"
  /\ \E b \in Block, g \in StackGarbage : create_process(b, "INITIAL", g)
  /\ kernel' = "run"

\* p executes its program; the idle process makes no system calls.
InUser(p) ==
  /\ kernel = "run"
  /\ current_process = p
  /\ p # Idle
  /\ pc[p] = "user"

kfork(p) ==
  /\ InUser(p)
  /\ \E b \in Block : create_process(b, "FORKED", pid[p])
  /\ kernel' = "sysret"

-----------------------------------------------------------------------------
(* Signals, with their default effect.                                     *)

\* q is the process signal_process(n, ...) finds: the first of that pid.
Finds(n, q) ==
  \E k \in 1..Len(process_list) :
    /\ process_list[k] = q
    /\ pid[q] = n
    /\ \A j \in 1..(k - 1) : pid[process_list[j]] # n

signal_process(n, sig) ==
  \/ \E q \in Block :
       /\ Finds(n, q)
       /\ Len(queued_signals[q]) < MaxSignals
       /\ queued_signals' =
            [queued_signals EXCEPT ![q] = <<sig>> \o queued_signals[q]]
  \/ /\ \A q \in Block : ~Finds(n, q)
     /\ UNCHANGED queued_signals

\* Mutant: no process is protected.
ProtectedNobody(n) == FALSE

\* The only process that cannot be signalled (-EPERM).
Protected(n) == n = 0

process_kill(p, n, sig) ==
  /\ InUser(p)
  /\ \/ Protected(n) /\ UNCHANGED queued_signals
     \/ ~Protected(n) /\ signal_process(n, sig)
  /\ kernel' = "sysret"
  /\ UNCHANGED <<queueVars, listVars, waitVars, status>>

\* Mutant: every signal is ignored by default.
DeadlyNever(p) == FALSE

\* check_signals looks at the head of the list only.
Deadly(p) ==
  /\ queued_signals[p] # <<>>
  /\ Head(queued_signals[p]) \notin Ignored

\* An ignored signal is taken off the list, and the next one has to wait.
DropIgnored(p) ==
  queued_signals' =
    [queued_signals EXCEPT ![p] = IF @ = <<>> THEN @ ELSE Tail(@)]

\* process_exit and process_exit_abnormal: the signals and both kernel stacks
\* are freed, and IRQ0 leads to schedule.  Files and children are left alone.
process_exit(p) ==
  /\ status' = [status EXCEPT ![p] = "EXITED"]
  /\ queued_signals' = [queued_signals EXCEPT ![p] = <<>>]
  /\ pc' = [pc EXCEPT ![p] = "user"]
  /\ target' = [target EXCEPT ![p] = NULL]
  /\ kernel' = "schedule"
  /\ UNCHANGED <<queueVars, listVars>>

\* exit, or a system call the table does not have.
Exit(p) ==
  InUser(p) /\ process_exit(p)

\* The end of syscall_handler: check_signals(true), then sysret.
SysReturn(p) ==
  /\ kernel = "sysret"
  /\ current_process = p
  /\ \/ Deadly(p) /\ process_exit(p)
     \/ /\ ~Deadly(p)
        /\ DropIgnored(p)
        /\ kernel' = "run"
        /\ UNCHANGED <<queueVars, listVars, waitVars, status>>

\* page_fault_error outside every region: SIGSEGV to one's own pid.
SegFault(p) ==
  /\ signal_process(pid[p], SegV)
  /\ kernel' = "schedule"
  /\ UNCHANGED <<queueVars, listVars, waitVars, status>>

page_fault_error(p) ==
  InUser(p) /\ SegFault(p)

-----------------------------------------------------------------------------
(* The scheduler.                                                          *)

\* schedule, up to check_signals: the head of the queue becomes current.

\* A process that has exited is not put back.
SwitchFromExited ==
  /\ status[current_process] = "EXITED"
  /\ queue' = queue_next[queue]
  /\ queue_next' = [queue_next EXCEPT ![queue] = NULL]
  /\ UNCHANGED queue_tail

\* No other process was ready: queue_tail keeps pointing where it did.
SwitchBetweenTwo ==
  /\ status[current_process] # "EXITED"
  /\ queue_next[queue] = NULL
  /\ queue' = current_process
  /\ queue_next' = [queue_next EXCEPT ![queue] = NULL]
  /\ UNCHANGED queue_tail

\* Mutant: the tail is moved, but nothing is linked.
SwitchForgetsLink ==
  /\ status[current_process] # "EXITED"
  /\ queue_next[queue] # NULL
  /\ queue' = queue_next[queue]
  /\ queue_tail' = current_process
  /\ queue_next' = [queue_next EXCEPT ![queue] = NULL]

\* Mutant: the current process goes to the front.
SwitchToFront ==
  /\ status[current_process] # "EXITED"
  /\ queue_next[queue] # NULL
  /\ queue' = current_process
  /\ queue_next' = [queue_next EXCEPT ![current_process] = queue_next[queue],
                                      ![queue] = NULL]
  /\ UNCHANGED queue_tail

SwitchRotate ==
  /\ status[current_process] # "EXITED"
  /\ queue_next[queue] # NULL
  /\ queue' = queue_next[queue]
  /\ queue_tail' = current_process
  /\ queue_next' = [queue_next EXCEPT ![queue_tail] = current_process,
                                      ![queue] = NULL]

Switch ==
  /\ kernel' = "dispatch"
  /\ \/ queue = NULL /\ UNCHANGED queueVars
     \/ /\ queue # NULL
        /\ current_process' = queue
        /\ SwitchFromExited \/ SwitchBetweenTwo \/ SwitchRotate
  /\ UNCHANGED <<listVars, waitVars, status, queued_signals>>

\* IRQ0, from the timer or from the body of the loop of process_wait.
Tick == kernel = "run" /\ Switch

Reschedule == kernel = "schedule" /\ Switch

\* schedule, from check_signals(false) on.  No case fits an exited process.
Dispatch(p) ==
  /\ kernel = "dispatch"
  /\ current_process = p
  /\ \/ Deadly(p) /\ process_exit(p)
     \/ /\ ~Deadly(p)
        /\ DropIgnored(p)
        /\ status' = [status EXCEPT ![p] = IF @ = "EXITED" THEN @ ELSE "RUNNING"]
        /\ kernel' = IF status[p] = "EXITED" THEN "panic" ELSE "run"
        /\ UNCHANGED <<queueVars, listVars, waitVars>>

-----------------------------------------------------------------------------
(* process_wait.                                                           *)

\* The process wait4(n) waits for: the first child for n = -1 (the TODO of
\* the code), else the first of that pid, child or not.
WaitFinds(p, n, t) ==
  \/ /\ n = -1
     /\ \E k \in 1..Len(process_list) :
          /\ process_list[k] = t
          /\ ppid[t] = pid[p]
          /\ \A j \in 1..(k - 1) : ppid[process_list[j]] # pid[p]
  \/ n # -1 /\ Finds(n, t)

\* The processes blocked in process_wait on t.
Waiters(t) ==
  {w \in allocated : pc[w] # "user" /\ target[w] = t /\ status[w] # "EXITED"}

\* Up to the loop, which runs with interrupts on.
WaitStart(p, n) ==
  /\ InUser(p)
  /\ \/ /\ n # pid[p]
        /\ \E t \in Block :
             /\ WaitFinds(p, n, t)
             /\ SharedWait \/ Waiters(t) = {}
             /\ target' = [target EXCEPT ![p] = t]
        /\ pc' = [pc EXCEPT ![p] = "loop"]
        /\ UNCHANGED kernel
     \/ /\ n = pid[p] \/ \A t \in Block : ~WaitFinds(p, n, t)
        /\ kernel' = "sysret"
        /\ UNCHANGED waitVars
  /\ UNCHANGED <<queueVars, listVars, status, queued_signals>>

\* Mutants: the loop is left at once; the loop is never left.
MayHaveExited(t) == TRUE
NeverExits(t) == FALSE

\* The loop may end: a block that has been freed may hold anything.
HasExited(t) == status[t] = "EXITED" \/ t \notin allocated

\* The loop ends; when it does not, its body is IRQ0, the action Tick.
WaitTest(p) ==
  /\ kernel = "run"
  /\ current_process = p
  /\ pc[p] = "loop"
  /\ HasExited(target[p])
  /\ pc' = [pc EXCEPT ![p] = "reap"]
  /\ UNCHANGED <<queueVars, listVars, status, queued_signals, target, kernel>>

\* Mutant: whatever comes first in the list is unlinked.
UnlinkedFirst(k) == Tail(process_list)

\* process_list without its k-th block.
Unlinked(k) ==
  SubSeq(process_list, 1, k - 1)
    \o SubSeq(process_list, k + 1, Len(process_list))

\* Interrupts off; unlink the block, free it and return.
WaitReap(p) ==
  /\ kernel = "run"
  /\ current_process = p
  /\ pc[p] = "reap"
  /\ \E k \in 1..Len(process_list) :
       /\ process_list[k] = target[p]
       /\ process_list' = Unlinked(k)
  /\ allocated' = allocated \ {target[p]}
  /\ pc' = [pc EXCEPT ![p] = "user"]
  /\ target' = [target EXCEPT ![p] = NULL]
  /\ kernel' = "sysret"
  /\ UNCHANGED <<queueVars, pid, ppid, status, queued_signals>>

\* Before that, the store of the exit status may fault; and when the block is
\* in the list no more, the walk runs off the end and reads a field of NULL.
WaitFault(p) ==
  /\ kernel = "run"
  /\ current_process = p
  /\ pc[p] = "reap"
  /\ SegFault(p)

-----------------------------------------------------------------------------
Next ==
  \/ kmain
  \/ Tick
  \/ Reschedule
  \/ \E p \in Block :
       \/ kfork(p)
       \/ Exit(p)
       \/ page_fault_error(p)
       \/ \E n \in PidArg, sig \in Signal : process_kill(p, n, sig)
       \/ \E n \in PidArg : WaitStart(p, n)
       \/ WaitTest(p)
       \/ WaitReap(p)
       \/ WaitFault(p)
       \/ SysReturn(p)
       \/ Dispatch(p)

\* What follows by itself once the kernel has begun it.
KernelGoesOn ==
  \/ kmain
  \/ Reschedule
  \/ \E p \in Block : SysReturn(p) \/ Dispatch(p)

\* p gets further in process_wait.
WaitGoesOn(p) == WaitTest(p) \/ WaitReap(p)

(***************************************************************************)
(* The kernel's own code does not stop.  The timer's request stays pending *)
(* while interrupts are off, so it is served if they are on again and      *)
(* again; and a process on the CPU gets further than one test of a flag.   *)
(***************************************************************************)
Fairness ==
  /\ WF_vars(KernelGoesOn)
  /\ SF_vars(Tick)
  /\ \A p \in Block : SF_vars(WaitGoesOn(p))

Spec == Init /\ [][Next]_vars
FairSpec == Spec /\ Fairness

-----------------------------------------------------------------------------
(* Properties.                                                             *)

Live == {b \in allocated : status[b] # "EXITED"}

\* Following queue_next from a reaches b: b is in every set that holds a and
\* is closed under the links.
Closed(S) == \A x \in S : queue_next[x] \in S \cup {NULL}
Reaches(a, b) ==
  /\ a # NULL
  /\ \A S \in SUBSET Block : a \in S /\ Closed(S) => b \in S

\* The scheduler will come to b.
InQueue(b) == Reaches(queue, b)

(***************************************************************************)
(* Once a process has run it is never lost: as long as it has not exited,  *)
(* it is the current process or schedule() finds it by following the ready *)
(* queue (process.c:305-343), whatever queue_tail pointed to meanwhile.    *)
(***************************************************************************)
RunningNotLost ==
  \A b \in allocated :
    status[b] = "RUNNING" => b = current_process \/ InQueue(b)

(***************************************************************************)
(* What schedule() takes off the ready queue is a process that exists and  *)
(* has not exited, and never the one that is running already: exiting and  *)
(* reaping (process.c:441-510, 563-579) leave no link to the block behind. *)
(***************************************************************************)
QueueSound ==
  \A b \in Block :
    InQueue(b) => b \in allocated /\ status[b] # "EXITED" /\ b # current_process

(***************************************************************************)
(* The process switched to can always be started or resumed, so schedule() *)
(* never reaches its kpanic (process.c:378).                               *)
(***************************************************************************)
NoPanic == kernel # "panic"

(***************************************************************************)
(* process_list holds every process_t in use exactly once and nothing that *)
(* has been freed: add_process and process_wait agree on who is listed.    *)
(***************************************************************************)
ListIsAllocated ==
  /\ allocated = {process_list[k] : k \in 1..Len(process_list)}
  /\ \A j, k \in 1..Len(process_list) : process_list[j] = process_list[k] => j = k

(***************************************************************************)
(* Only a process that has exited is freed (process.c:570-579), although   *)
(* its waiter tested the status earlier, with interrupts on.               *)
(***************************************************************************)
FreesOnlyExited ==
  [][\A b \in allocated \ allocated' : status[b] = "EXITED"]_vars

(***************************************************************************)
(* Round robin: a process in the ready queue gets the CPU, however the     *)
(* others fork, exit, wait and signal.                                     *)
(***************************************************************************)
QueuedRuns ==
  \A b \in Block : InQueue(b) ~> current_process = b

(***************************************************************************)
(* Once the process it waits for has exited, a process leaves process_wait *)
(* (process.c:557-588), unless a signal ends it first.                     *)
(***************************************************************************)
WaitCompletes ==
  \A p \in Block :
    pc[p] = "loop" /\ status[target[p]] = "EXITED" ~> pc[p] = "user"

(***************************************************************************)
(* A process that has run and has a signal queued is ended by it, when no  *)
(* signal sent is one that is ignored (check_signals, process.c:241-301).  *)
(***************************************************************************)
SignalEnds ==
  \A b \in Block :
    status[b] = "RUNNING" /\ queued_signals[b] # <<>> ~> status[b] = "EXITED"

-----------------------------------------------------------------------------
(* The inductive invariant behind the safety properties.                   *)

\* The links between processes that have not exited.
LinksOK ==
  /\ \A x \in Live : queue_next[x] # NULL => queue_next[x] \in Live
  /\ \A x, y \in Live :
       queue_next[x] = queue_next[y] /\ queue_next[x] # NULL => x = y
  /\ \A x \in Live : queue_next[x] # current_process
  /\ queue_next[current_process] # current_process

\* The head of the queue.  A process switched to starts without a link.
HeadOK ==
  /\ queue = NULL => queue_next[current_process] = NULL
  /\ queue # NULL =>
       /\ queue \in Live
       /\ queue # current_process
       /\ queue_next[current_process] # queue
       /\ \A x \in Live : queue_next[x] # queue

\* queue_tail is the end of the queue; or, with one process in the queue, the
\* end of what hangs from the current process, which will be next in it.
TailOK ==
  queue # NULL =>
    /\ queue_tail \in Live \cup {current_process}
    /\ queue_next[queue_tail] = NULL
    /\ queue_tail = current_process \/ queue_next[current_process] # NULL
         => queue_next[queue] = NULL /\ queue_tail # queue
    /\ \/ InQueue(queue_tail)
       \/ queue_next[queue] = NULL /\ Reaches(current_process, queue_tail)

\* Only schedule() ever sees a current process that has exited.
CurrentOK ==
  /\ current_process \in allocated
  /\ status[current_process] = "EXITED" => kernel = "schedule"

\* The idle process heads the list, never exits, waits or is signalled.
IdleOK ==
  /\ Idle \in allocated
  /\ pid[Idle] = 0
  /\ status[Idle] = "RUNNING"
  /\ queued_signals[Idle] = <<>>
  /\ pc[Idle] = "user"
  /\ process_list # <<>>
  /\ process_list[1] = Idle
  /\ \A b \in allocated \ {Idle} : pid[b] > 0

\* What the local variable of process_wait points to, if waits are not shared.
WaitOK ==
  /\ \A w \in Live : pc[w] # "user" => target[w] \in allocated
  /\ \A w \in Live : pc[w] = "reap" => status[target[w]] = "EXITED"
  /\ \A v, w \in Live :
       pc[v] # "user" /\ pc[w] # "user" /\ target[v] = target[w] => v = w

IInv ==
  /\ TypeOK
  /\ LinksOK
  /\ HeadOK
  /\ TailOK
  /\ CurrentOK
  /\ IdleOK
  /\ WaitOK
  /\ ListIsAllocated
  /\ RunningNotLost
  /\ NoPanic

-----------------------------------------------------------------------------
(* What the code's comments say of it and the code does not do.            *)

(***************************************************************************)
(* add_process, process.c:74: "add to the queue".  For as long as it lives *)
(* schedule() will find a process from the queue or from the current one   *)
(* (ProcessLost.cfg).                                                      *)
(***************************************************************************)
LiveNotLost ==
  \A b \in Live :
    b = current_process \/ InQueue(b) \/ Reaches(current_process, b)

(***************************************************************************)
(* process.h: a pid is the "Process ID", and first_free_pid returns one    *)
(* that no process has (ProcessPids.cfg).                                  *)
(***************************************************************************)
PidsUnique ==
  \A b, c \in allocated : pid[b] = pid[c] => b = c
=============================================================================

------------------------------- MODULE Pages -------------------------------
(***************************************************************************)
(* Physical pages and address spaces (src/arch/x86_64/c/hardware/memory.c, *)
(* and the callers in process.c, elf_loader.c, tables.c and main.c).  A    *)
(* bitmap says which pages are used; whoever wants one looks for the first *)
(* that is free, and marks it later, when it is entered in a page table.   *)
(*                                                                         *)
(* All of it runs with interrupts off, so one operation is under way at a  *)
(* time, cpu; its steps are the choices and the entries of single pages,   *)
(* between which the heap may take pages too.  Addresses are counted in    *)
(* units, PAGE to a page, and what the pages hold is left out.             *)
(*                                                                         *)
(* The upper half of the addresses is the kernel's, and the same in every  *)
(* directory: the last entry of each points to one table.  Nothing keeps   *)
(* brk or a program out of it.  What they map there and nobody else has is *)
(* in the model; where they map or write over the kernel's own pages, the  *)
(* kernel is overrun, and the model ends there.                            *)
(***************************************************************************)
EXTENDS Integers, Sequences, FiniteSets

CONSTANTS
  Proc,             \* processes
  TotalPages,       \* total_pages: the bits of phys_mem_bitmap
  WordBits,         \* the bits the search looks at together: 64
  Usable,           \* the pages in usable_memory_regions
  KernelPages,      \* pages_to_fill: those below the end of the kernel
  Framebuffer,      \* the pages of the framebuffer
  INIT_HEAP_PAGES,
  GROW,             \* pages that heap_expand adds: 512
  MaxHeap,          \* bound on the pages of the heap
  NoPage,           \* an empty entry of a page table
  PAGE,             \* units of a page
  LIMIT,            \* pages of all addresses: 2^64 is LIMIT * PAGE units
  TOP,              \* VIRT_MEM_OFFSET, in pages: where user space ends
  Direct,           \* the kernel's pages mapped by 2 MB: all memory, the screen
  KHEAP,            \* kheap, in pages
  STACK,            \* PROCESS_INITIAL_STACK, in pages
  MAX_STACK_SIZE,   \* in units
  TABLE,            \* pages that share a page table
  InitProgram,      \* /mnt/ramdisk/bin/init
  Program,          \* the files that exec is asked for
  Break,            \* where brk is asked to end the heap of a program
  BrkGarbage        \* what the brk_start of a new process_t may hold

Page == 0..(TotalPages - 1)
Virtual == 0..(LIMIT - 1)
Address == 0..(LIMIT * PAGE - 1)

\* A file: whether its header is accepted, and its PT_LOAD segments.
Segment == [vaddr : Address, memsz : Nat \ {0}]

ASSUME PagesAssumption ==
  /\ TotalPages \in Nat \ {0} /\ WordBits \in Nat \ {0}
  /\ TotalPages % WordBits = 0
  /\ Usable \subseteq Page /\ Framebuffer \subseteq Page
  /\ KernelPages \in 1..TotalPages
  /\ INIT_HEAP_PAGES \in Nat /\ GROW \in Nat \ {0} /\ MaxHeap \in Nat
  /\ NoPage \notin Nat
  /\ PAGE \in Nat \ {0} /\ LIMIT \in Nat /\ TOP \in 1..(LIMIT - 1)
  /\ Direct \subseteq TOP..(LIMIT - 1) /\ Direct # {}
  /\ KHEAP \in TOP..LIMIT /\ INIT_HEAP_PAGES <= MaxHeap
  /\ KHEAP + MaxHeap <= LIMIT
  /\ Direct \cap KHEAP..(KHEAP + MaxHeap - 1) = {}
  /\ TABLE \in Nat \ {0}
  /\ STACK \in 1..TOP /\ MAX_STACK_SIZE \in 1..(TOP * PAGE)
  /\ \A e \in Program \cup {InitProgram} :
       /\ e.valid \in BOOLEAN
       /\ e.segments \in Seq(Segment)
  /\ InitProgram.valid
  /\ Break \subseteq Address /\ BrkGarbage \subseteq Address

VARIABLES
  used,      \* the bits set in phys_mem_bitmap
  heap,      \* the pages mapped for the heap
  kheap_end, \* where it ends, in pages
  space,     \* per page directory, its entries
  regions,   \* per process, memory_regions
  brk,       \* per process, brk_start
  alive,     \* processes whose directory is there
  doomed,    \* those with a SIGSEGV that they will not survive
  cpu,       \* the operation under way
  kernel,    \* "run", "panic", "hang" or "overrun"
  lost       \* pages of a directory that nothing points to any more

memVars == <<used, heap, kheap_end, space>>
procVars == <<regions, brk, alive, doomed>>
vars == <<memVars, procVars, cpu, kernel, lost>>

\* The directory an exec builds, or that of a new process, is New until then.
\* Half is what the kernel half of every directory points to.
New == "new"
Half == "half"
Directory == Proc \cup {New, Half}
Empty == [v \in Virtual |-> NoPage]
Mapped(d) == {space[d][v] : v \in Virtual} \ {NoPage}

ASSUME NewAssumption == New \notin Proc /\ Half \notin Proc

\* Whose entries the walk from directory d to the page v ends in.
Where(d, v) == IF v < TOP THEN d ELSE Half

Entry(d, v) == space[Where(d, v)][v]

\* The pages of the heap, and all that the kernel has mapped for itself.
HeapPages == KHEAP..(kheap_end - 1)
Own == Direct \cup HeapPages

There(d, v) == Entry(d, v) # NoPage \/ v \in Own

-----------------------------------------------------------------------------
(* Addresses.                                                              *)

PageOf(a) == a \div PAGE

\* The last page is rounded up to 0.
PAGE_ALIGN_UP(a) ==
  (IF a % PAGE = 0 THEN a ELSE (PageOf(a) + 1) * PAGE) % (LIMIT * PAGE)

\* How many pages are mapped for a segment, wherever in a page it begins.
NumPages(s) == (s.memsz + PAGE - 1) \div PAGE

EndOf(s) == s.vaddr + s.memsz

\* max_addr
MaxAddr(e) ==
  LET ends == {EndOf(e.segments[i]) : i \in DOMAIN e.segments}
  IN IF ends = {} THEN 0 ELSE CHOOSE m \in ends : \A n \in ends : n <= m

Covers(r, a) == r.start <= a /\ a < r.end

InRegion(p, a) == \E r \in regions[p] : Covers(r, a)

StackRegion == [start |-> TOP * PAGE - MAX_STACK_SIZE, end |-> TOP * PAGE - 1]

StackPages == [i \in 1..STACK |-> TOP - i]

-----------------------------------------------------------------------------
(* The search for a free page.                                             *)

\* The bits of a word that are not set.
FreeIn(w) == {i \in 0..(WordBits - 1) : w * WordBits + i \notin used}

Words == 0..(TotalPages \div WordBits - 1)

\* Words that are full are skipped.
WordsFrom(f) == {w \in Words : w >= f \div WordBits /\ FreeIn(w) # {}}

Least(S) == CHOOSE m \in S : \A n \in S : m <= n

\* Mutant: clear bits are counted where the first one should be found.
ProbeHigh(f) ==
  LET w == Least(WordsFrom(f))
  IN f + (w - f \div WordBits) * WordBits + Cardinality(FreeIn(w)) - 1

\* One turn of the loop: the offset of the first free bit of the word is added
\* to whatever the search stands at.
Probe(f) ==
  LET w == Least(WordsFrom(f))
  IN f + (w - f \div WordBits) * WordBits + Least(FreeIn(w))

\* The turns go on as long as a page was found that is not usable memory.
GoesOn(f) == f < TotalPages /\ f \notin Usable /\ WordsFrom(f) # {}

Closed(S) == \A f \in S : GoesOn(f) /\ Probe(f) < TotalPages => Probe(f) \in S

\* The search gets to f in its turns; it never goes back.
GetsTo(f) ==
  LET ahead == Probe(0)..(TotalPages - 1)
  IN f \in ahead /\ \A S \in SUBSET ahead : Probe(0) \in S /\ Closed(S) => f \in S

\* The pages the search may return.  Behind the bitmap there is some word or
\* other, so a search that gets there panics or turns in place.
Found ==
  IF WordsFrom(0) = {} THEN {}
  ELSE IF Probe(0) \in Usable THEN {Probe(0)}
  ELSE {f \in Usable : GetsTo(f)}

\* What stops the kernel when nothing is returned, and, for those that assert
\* that the page is free, when it is not.
Full(how) == Found = {} /\ how \in {"panic", "hang"}

Refused(how) == Full(how) \/ (Found \cap used # {} /\ how = "panic")

-----------------------------------------------------------------------------
(* The kernel has been loaded: memory_init.                                *)

Fixed == 0..(KernelPages - 1) \cup Framebuffer

\* The first heap: one free page after the other, when the search finds them.
FirstHeap ==
  LET free == Usable \ Fixed
  IN {f \in free : Cardinality({g \in free : g < f}) < INIT_HEAP_PAGES}

Idle == [op |-> "none", p |-> New, d |-> New, todo |-> <<>>,
         phys |-> NoPage, grow |-> 0, program |-> InitProgram]

Init ==
  /\ heap = FirstHeap
  /\ kheap_end = KHEAP + INIT_HEAP_PAGES
  /\ used = Fixed \cup heap
  /\ space = [d \in Directory |-> Empty]
  /\ regions = [p \in Proc |-> {}]
  /\ brk = [p \in Proc |-> 0]
  /\ alive = {}
  /\ doomed = {}
  /\ cpu = Idle
  /\ kernel = "run"
  /\ lost = {}

-----------------------------------------------------------------------------
(* Steps of the operation under way.                                       *)

\* A page of the program to map, or one that is only written to.
Map(v) == [v |-> v, write |-> FALSE]
Write(v) == [v |-> v, write |-> TRUE]

Mapping == kernel = "run" /\ cpu.todo # <<>> /\ cpu.op # "fork"

Now == Head(cpu.todo)

\* The heap has room to grow, in the model.
MayGrow == kheap_end + GROW <= KHEAP + MaxHeap

\* No page that shares a page table with v is there, nor is the table.
NoTable(d, v) == \A w \in Virtual : w \div TABLE = v \div TABLE => ~There(d, w)

\* The argument of map_page_kmalloc is evaluated, and its assertion; if the
\* page table is made, the heap may grow for that.
Choose ==
  /\ Mapping /\ cpu.phys = NoPage /\ cpu.grow = 0 /\ ~Now.write
  /\ \/ \E f \in Found, grow \in {0, GROW} :
          /\ f \notin used
          /\ grow = GROW => MayGrow /\ NoTable(cpu.d, Now.v)
          /\ cpu' = [cpu EXCEPT !.phys = f, !.grow = grow]
          /\ UNCHANGED kernel
     \/ \E how \in {"panic", "hang"} : Refused(how) /\ kernel' = how /\ UNCHANGED cpu
  /\ UNCHANGED <<memVars, procVars, lost>>

\* Mutant: the page is entered, and not marked.
EnteredUnmarked(d, v, f) ==
  /\ space' = [space EXCEPT ![d][v] = f]
  /\ UNCHANGED used

\* The entry, and the mark in the bitmap.
Entered(d, v, f) ==
  /\ space' = [space EXCEPT ![d][v] = f]
  /\ used' = used \cup {f}

\* A table with one page replaces 2 MB of the kernel's; brk clears its page
\* whether or not it was there, the heap's too.
Overruns == Now.v \in Direct \/ (cpu.op = "brk" /\ Now.v \in HeapPages)

\* The rest of map_page_kmalloc, once the tables are there.
Enter ==
  /\ Mapping /\ cpu.phys # NoPage /\ cpu.grow = 0 /\ ~Overruns
  /\ \/ ~There(cpu.d, Now.v) /\ Entered(Where(cpu.d, Now.v), Now.v, cpu.phys)
     \/ There(cpu.d, Now.v) /\ UNCHANGED <<space, used>>
  /\ cpu' = [cpu EXCEPT !.phys = NoPage, !.todo = Tail(@)]
  /\ UNCHANGED <<heap, kheap_end, procVars, kernel, lost>>

EnterOverruns ==
  /\ Mapping /\ cpu.phys # NoPage /\ cpu.grow = 0 /\ Overruns
  /\ kernel' = "overrun"
  /\ UNCHANGED <<memVars, procVars, cpu, lost>>

\* clone_page_directory: the copy of a page is marked at once.
CopyPage ==
  /\ kernel = "run" /\ cpu.op = "fork" /\ cpu.todo # <<>> /\ cpu.grow = 0
  /\ \/ /\ \E f \in Found : Entered(cpu.d, Now.v, f)
        /\ cpu' = [cpu EXCEPT !.todo = Tail(@)]
        /\ UNCHANGED kernel
     \/ /\ \E how \in {"panic", "hang"} : Full(how) /\ kernel' = how
        /\ UNCHANGED <<cpu, space, used>>
  /\ UNCHANGED <<heap, kheap_end, procVars, lost>>

\* Some kmalloc finds no room.
GrowStarts ==
  /\ kernel = "run" /\ cpu.phys = NoPage /\ cpu.grow = 0 /\ MayGrow
  /\ cpu' = [cpu EXCEPT !.grow = GROW]
  /\ UNCHANGED <<memVars, procVars, kernel, lost>>

\* heap_expand: map_page_prealloc needs no table that is not there, and what
\* brk has mapped behind the heap is in the way.
heap_expand ==
  /\ kernel = "run" /\ cpu.grow > 0
  /\ \/ /\ \E f \in Found :
             /\ f \notin used
             /\ heap' = heap \cup {f}
             /\ used' = used \cup {f}
        /\ space[Half][kheap_end] = NoPage
        /\ kheap_end' = kheap_end + 1
        /\ cpu' = [cpu EXCEPT !.grow = @ - 1]
        /\ UNCHANGED kernel
     \/ /\ Found \ used # {} /\ space[Half][kheap_end] # NoPage
        /\ kernel' = "overrun"
        /\ UNCHANGED <<cpu, heap, kheap_end, used>>
     \/ /\ \E how \in {"panic", "hang"} : Refused(how) /\ kernel' = how
        /\ UNCHANGED <<cpu, heap, kheap_end, used>>
  /\ UNCHANGED <<space, procVars, lost>>

-----------------------------------------------------------------------------
(* Operations.                                                             *)

\* Mutant: the bits of the pages stay set.
FreedNot(d) == used

\* free_page_directory leaves the last entry, the kernel half, alone.
Freed(d) == used \ Mapped(d)

Begins(op, p, d, todo, e) ==
  /\ kernel = "run" /\ cpu = Idle
  /\ cpu' = [Idle EXCEPT !.op = op, !.p = p, !.d = d, !.todo = todo, !.program = e]
  /\ UNCHANGED <<memVars, kernel, lost>>

Ends(op) == kernel = "run" /\ cpu.op = op /\ cpu.todo = <<>> /\ cpu.grow = 0

\* load_elf64: the pages of each segment are mapped, then it is copied.
Load(e) ==
  LET one(s) ==
        [j \in 1..NumPages(s) |-> Map(PageOf(s.vaddr) + j - 1)]
          \o [j \in 1..(PageOf(EndOf(s) - 1) - PageOf(s.vaddr) + 1) |->
                Write(PageOf(s.vaddr) + j - 1)]
      upto[i \in 0..Len(e.segments)] ==
        IF i = 0 THEN <<>> ELSE upto[i - 1] \o one(e.segments[i])
  IN upto[Len(e.segments)]

Stack == [i \in 1..STACK |-> Map(StackPages[i])]

\* A program may be linked for any addresses, but not past the last.
ASSUME ProgramsAssumption ==
  \A e \in Program \cup {InitProgram} :
    /\ Load(e) \in Seq([v : Virtual, write : BOOLEAN])
    /\ MaxAddr(e) \in Address

\* kmain loads the first program.
Boot(p) ==
  /\ alive = {}
  /\ Begins("boot", p, New, Load(InitProgram) \o Stack, InitProgram)
  /\ UNCHANGED procVars

BootEnds ==
  /\ Ends("boot")
  /\ space' = [space EXCEPT ![cpu.p] = space[New], ![New] = Empty]
  /\ regions' = [regions EXCEPT ![cpu.p] = {StackRegion}]
  /\ brk' = [brk EXCEPT ![cpu.p] = MaxAddr(cpu.program)]
  /\ alive' = {cpu.p}
  /\ cpu' = Idle
  /\ UNCHANGED <<used, heap, kheap_end, doomed, kernel, lost>>

\* A program that goes on.
Runs(p) == p \in alive \ doomed

\* The pages of p from the lowest.
PagesOf(p) ==
  LET there == {v \in Virtual : space[p][v] # NoPage}
  IN [i \in 1..Cardinality(there) |->
        Map(CHOOSE v \in there : Cardinality({w \in there : w < v}) = i - 1)]

\* kfork; the child's brk_start is not set.
kfork(p, q) ==
  /\ Runs(p) /\ q \in Proc \ alive
  /\ Begins("fork", q, q, PagesOf(p), InitProgram)
  /\ regions' = [regions EXCEPT ![q] = regions[p]]
  /\ \E b \in BrkGarbage : brk' = [brk EXCEPT ![q] = b]
  /\ UNCHANGED <<alive, doomed>>

ForkEnds ==
  /\ Ends("fork")
  /\ alive' = alive \cup {cpu.p}
  /\ cpu' = Idle
  /\ UNCHANGED <<memVars, regions, brk, doomed, kernel, lost>>

\* kexecv: a stack in a new directory, and the program, if its header is good.
kexecv(p, e) ==
  /\ Runs(p)
  /\ Begins("exec", p, New, Stack \o (IF e.valid THEN Load(e) ELSE <<>>), e)
  /\ UNCHANGED procVars

ExecEnds ==
  /\ Ends("exec") /\ cpu.program.valid
  /\ used' = Freed(cpu.p)
  /\ space' = [space EXCEPT ![cpu.p] = space[New], ![New] = Empty]
  /\ brk' = [brk EXCEPT ![cpu.p] = PAGE_ALIGN_UP(MaxAddr(cpu.program))]
  /\ cpu' = Idle
  /\ UNCHANGED <<heap, kheap_end, regions, alive, doomed, kernel, lost>>

ExecFails ==
  /\ Ends("exec") /\ ~cpu.program.valid
  /\ used' = Freed(New)
  /\ space' = [space EXCEPT ![New] = Empty]
  /\ cpu' = Idle
  /\ UNCHANGED <<heap, kheap_end, procVars, kernel, lost>>

\* process_exit and process_exit_abnormal
Exit(p) ==
  /\ p \in alive /\ kernel = "run" /\ cpu = Idle
  /\ used' = Freed(p)
  /\ space' = [space EXCEPT ![p] = Empty]
  /\ alive' = alive \ {p}
  /\ doomed' = doomed \ {p}
  /\ UNCHANGED <<heap, kheap_end, regions, brk, cpu, kernel, lost>>

\* A segment is copied to a page: it is there, a region of the program that is
\* being replaced says it may be, that program gets a SIGSEGV, or it is one of
\* the kernel's own.
Writing == Mapping /\ cpu.grow = 0 /\ cpu.phys = NoPage /\ Now.write

WriteThere ==
  /\ Writing /\ Now.v \notin Own /\ There(New, Now.v)
  /\ cpu' = [cpu EXCEPT !.todo = Tail(@)]
  /\ UNCHANGED <<memVars, procVars, kernel, lost>>

WriteRecovers ==
  /\ Writing /\ cpu.op = "exec"
  /\ ~There(New, Now.v) /\ InRegion(cpu.p, Now.v * PAGE)
  /\ cpu' = [cpu EXCEPT !.todo = <<Map(Now.v)>> \o @]
  /\ UNCHANGED <<memVars, procVars, kernel, lost>>

\* The signal is delivered when it is scheduled again; until then others run.
WriteFaults ==
  /\ Writing /\ cpu.op = "exec"
  /\ ~There(New, Now.v) /\ ~InRegion(cpu.p, Now.v * PAGE)
  /\ lost' = lost \cup Mapped(New)
  /\ space' = [space EXCEPT ![New] = Empty]
  /\ doomed' = doomed \cup {cpu.p}
  /\ cpu' = Idle
  /\ UNCHANGED <<used, heap, kheap_end, regions, brk, alive, kernel>>

WriteOverruns ==
  /\ Writing /\ Now.v \in Own
  /\ kernel' = "overrun"
  /\ UNCHANGED <<memVars, procVars, cpu, lost>>

\* page_fault_error, in the part that recovers; the other part is Exit.  In the
\* kernel half a page may be there, and not for programs.
page_fault_error(p, a) ==
  /\ Runs(p) /\ InRegion(p, a)
  /\ There(p, PageOf(a)) => PageOf(a) >= TOP
  /\ Begins("fault", p, p, <<Map(PageOf(a))>>, InitProgram)
  /\ UNCHANGED procVars

\* Mutant: the loop goes on for a page more.
BreakPagesMore(old, new) == [i \in 1..(new - old + 2) |-> Map(old + i - 1)]

\* From page old to page new, with that.  No address is larger than that of the
\* last page: then the loop begins at 0 again, and does not get past what the
\* kernel has there.
BreakPages(old, new) ==
  IF new < LIMIT - 1
  THEN [i \in 1..(new - old + 1) |-> Map(old + i - 1)]
  ELSE [i \in 1..(2 * LIMIT - old) |-> Map((old + i - 1) % LIMIT)]

\* kbrk, when the break moves up; else it changes nothing.
kbrk(p, location) ==
  LET new == PAGE_ALIGN_UP(location)
      old_page == PageOf(brk[p])
      new_page == PageOf(new)
  IN /\ Runs(p) /\ location >= brk[p]
     /\ brk' = [brk EXCEPT ![p] = new]
     /\ \/ /\ old_page = new_page
           /\ Begins("brk", p, p, <<>>, InitProgram)
           /\ UNCHANGED regions
        \/ /\ old_page # new_page
           /\ Begins("brk", p, p, BreakPages(old_page, new_page), InitProgram)
           /\ regions' = [regions EXCEPT ![p] =
                @ \cup {[start |-> old_page * PAGE, end |-> new_page * PAGE]}]
     /\ UNCHANGED <<alive, doomed>>

\* The operations that do nothing else, and a heap that has grown for another.
Returns ==
  /\ Ends("fault") \/ Ends("brk")
  /\ cpu' = Idle
  /\ UNCHANGED <<memVars, procVars, kernel, lost>>

Next ==
  \/ Choose \/ Enter \/ EnterOverruns \/ CopyPage \/ GrowStarts \/ heap_expand
  \/ BootEnds \/ ForkEnds \/ ExecEnds \/ ExecFails \/ Returns
  \/ WriteThere \/ WriteRecovers \/ WriteFaults \/ WriteOverruns
  \/ \E p \in Proc :
       \/ Boot(p)
       \/ Exit(p)
       \/ \E q \in Proc : kfork(p, q)
       \/ \E e \in Program : kexecv(p, e)
       \/ \E a \in Address : page_fault_error(p, a)
       \/ \E location \in Break : kbrk(p, location)

Spec == Init /\ [][Next]_vars

-----------------------------------------------------------------------------
(* Properties.                                                             *)

TypeOK ==
  /\ used \subseteq Page /\ heap \subseteq Page /\ lost \subseteq Page
  /\ kheap_end \in KHEAP..(KHEAP + MaxHeap)
  /\ space \in [Directory -> [Virtual -> Page \cup {NoPage}]]
  /\ regions \in [Proc -> SUBSET [start : Address, end : Address]]
  /\ brk \in [Proc -> Address]
  /\ alive \subseteq Proc /\ doomed \subseteq alive
  /\ cpu.op \in {"none", "boot", "fork", "exec", "fault", "brk"}
  /\ cpu.d \in Directory /\ cpu.p \in Directory
  /\ cpu.todo \in Seq([v : Virtual, write : BOOLEAN])
  /\ cpu.phys \in Page \cup {NoPage} /\ cpu.grow \in 0..GROW
  /\ kernel \in {"run", "panic", "hang", "overrun"}

\* No physical page is used twice: not in one address space, not in two, not by
\* the heap and a program; and each page in use is marked.
OwnedOnce ==
  /\ \A d \in Directory : \A v, w \in Virtual :
       space[d][v] = space[d][w] /\ space[d][v] # NoPage => v = w
  /\ \A d, e \in Directory : d # e => Mapped(d) \cap Mapped(e) = {}
  /\ \A d \in Directory : Mapped(d) \cap (heap \cup Fixed) = {}
  /\ heap \cap Fixed = {}
  /\ heap \cup Fixed \cup UNION {Mapped(d) : d \in Directory} \subseteq used

(***************************************************************************)
(* A physical page gets a second user (memory.c:91, "Attempted to map      *)
(* already used page!") in two steps only, whatever boot, fork, exec, brk, *)
(* faults and exits come before: when a page is entered that the heap has  *)
(* taken while its table was made (memory.c:139-142), and when a fork      *)
(* copies to what the search has found behind a free page that is not      *)
(* usable memory (memory.c:423-427, 554).                                  *)
(***************************************************************************)
TakenTwice ==
  \/ Enter /\ cpu.phys \in heap
  \/ CopyPage /\ Probe(0) \notin Usable

OwnedOnceBut == OwnedOnce /\ [][OwnedOnce /\ ~OwnedOnce' => TakenTwice]_vars

(***************************************************************************)
(* Every page that is marked has a user (memory.c:613-650): exit, exec and *)
(* an exec that fails give back all they took in their half, but for an    *)
(* exec that faults while it copies, whose directory nothing points to any *)
(* more.  What brk or a program maps in the kernel half stays there.       *)
(***************************************************************************)
NothingLost ==
  used \subseteq heap \cup Fixed \cup lost \cup UNION {Mapped(d) : d \in Directory}

(***************************************************************************)
(* The kernel stops for want of memory (memory.c:412, 422 "Out of memory") *)
(* or because a page is used (memory.c:91, 154), or searches for ever,     *)
(* only when all that is free of usable memory lies behind a free page     *)
(* that is not usable memory.                                              *)
(***************************************************************************)
StopsOnlyAtAHole ==
  kernel \in {"panic", "hang"} =>
    \A f \in Usable \ used : \E g \in Page \ (Usable \cup used) : g < f

-----------------------------------------------------------------------------
(* What the code's comments say of it and the code does not do: no page is *)
(* used twice, OwnedOnce (PagesTwice.cfg); memory.c:412, "Out of memory".  *)

(***************************************************************************)
(* The kernel stops for want of memory only when there is none             *)
(* (PagesHole.cfg).                                                        *)
(***************************************************************************)
StopsOnlyWhenFull == kernel \in {"panic", "hang"} => Usable \subseteq used
=============================================================================

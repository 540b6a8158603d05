# The XanaduOS kernel in TLA+

XanaduOS is a small single-processor Unix-like kernel for x86-64
(`src/arch/x86_64`, `src/kernel`). This directory holds TLA+ modules of its
core, the TLC configurations that check them on small instances, and theorems
that TLAPS proves for every value of the constants. `PROJECT.json` lists the
runs, the mutations each property is tested with, the source lines of every
definition, the hazards and the theorems.

In short: processes and the scheduler, signal handlers, physical pages and
address spaces with exec and brk, the heap, descriptor tables, mounts, device
files, select, paths, pipes, the ramdisk, the keyboard, the terminal and the
screen are modelled and checked; the scheduler, signal handlers, physical pages, the
heap, the descriptor lists, open files and devices, paths, pipes, the terminal and the
screen are proved about as well. Sections 7 and 8
say what is left out and what is left to do.

## 1. The system

One CPU runs everything. A process enters the kernel by `syscall`, which turns
interrupts off; `syscall.c` runs the handler and `check_signals(true)` before it
returns. The PIT's interrupt calls `schedule()`, the keyboard's puts a key into
buffers. Kernel code is therefore atomic, **except** where it turns interrupts on
and waits: `process_wait`, `tty_read` and `kselect`; and except that it is entered
again from within itself: `kmalloc` by the page table it needs, an escape sequence
by the character that ends it. Those loops, and the
pointers that survive a call in shared structures, are where the system is hard.

| Component | State | Operations | Talks to | What makes it correct |
|---|---|---|---|---|
| Processes and scheduler (`interface/process.c`) | `process_list`, ready queue (`queue`, `queue_tail`, `queue_next`), `current_process`, per process pid, ppid, status, signals | `kfork`, `process_exit`, `schedule`, `process_wait`, `process_kill`, `check_signals` | heap (blocks), timer, every waiter | no process is lost or runs twice; only exited ones are freed; pids are unique; a queued process runs; a waiter returns |
| Signal handlers (`interface/process.c`, `hardware/syscall.c`) | list of signals with a saved register set each, `signal_handlers` | `check_signals` with a handler, `krt_sigret`, `sigaction`, `sigprocmask` | scheduler, stack of the program | the state restored is the one that was interrupted; SIGKILL ends |
| exec and brk (`interface/process.c`) | regions, page tables, break | `kexecv`, `kbrk`, stack growth on a page fault | ELF loader, pages | no page is used twice; a failure gives back what was taken |
| Descriptors (`filesystem.c`) | per process a list of `file_descriptor_t` sorted by number | `kfopen`, `kfclose`, `kdup2`, `clone_file_descriptors`, `kpipe` | devices, ramdisk, pipe, through their `close`, `clone`, `dup` | numbers are unique and lowest-first; counts match the lists |
| Paths (`filesystem.c`) | `pwd`, `resolution_buffer` | `resolve_path`, `abs_path_cleanup`, `kfsetpwd` | every call with a name | a clean path names the same file; buffers are not overrun |
| Mounts (`filesystem.c`) | list of mounts | `mount_at`, `get_path_device`, `device_to_path` | ramdisk, device files | a path reaches the file it names |
| select (`filesystem.c`) | caller's sets | `kselect` | `select` of the devices | what is reported is ready; it ends |
| Pipe (`interface/pipe.c`) | ring `read_pos`, `write_pos`, `size`; counts of both ends | read, write, close, dup, clone | descriptors | FIFO; freed with its last end |
| Heap (`hardware/memory.c`) | doubly linked headers, page table allocated ahead | `kmalloc`, `kmalloc_a`, `krealloc`, `kfree`, `kfree_a`, `heap_expand` | everything; pages | headers tile the heap; blocks are disjoint; growth always finds its table |
| Pages, address spaces (`hardware/memory.c`) | bitmap of physical pages, page directories | `map_page_kmalloc`, `first_free_page_addr`, clone and free of directories | heap (a table may have to be allocated in the middle) | no page is used twice; none is lost; memory is out only when it is |
| Terminal (`interface/tty.c`) | buffer, `buffer_pos`, `buffer_size`, termios | `tty_push` (interrupt), `tty_read`, `tty_ioctl` | keyboard, readers, screen (echo) | readers get the lines typed, in order; no write outside the buffer |
| Keyboard (`drivers/keyboard.c`) | modifiers, key buffer | interrupt handler, `keyboard_popchar`, `kbd_device_read` | terminal | keys are neither lost nor swapped; a read ends |
| Device files (`interface/device.c`) | list of devices, dependents of each file | open, close, dup, clone, select | descriptors, terminal, frame buffer, keyboard | what a descriptor needs is not freed before it |
| Ramdisk (`interface/ramdisk.c`, `buildutils/ramdisk.py`) | image; entry, position, dependents of an open file | open, read, seek, getdents, stat, clone, close | descriptors, paths | a file's bytes are its own; freed with its last user |
| Escape sequences (`interface/ansi.c`) | sequence buffer, index, colours | one character at a time | screen, heap | the buffer holds the sequence |
| Screen (`interface/video.c`) | cursor, framebuffer, scroll | characters, rectangles, clearing, `/dev/fb` | terminal, escape sequences, descriptors | drawing covers what it should; the cursor stays on the screen |
| ELF loader (`interface/elf_loader.c`) | | which pages the segments of a file take | exec, ramdisk | part of exec |
| Multiboot data, 32-bit bootstrap, mouse, serial port, strings, old kernel, build tools, programs | | | | not modelled (section 7) |

### Hard behaviour

The list, each at its line, is `hazards` in `PROJECT.json`. The groups:

- *stale pointers*: `queue_tail` after its process has left the queue
  (`process.c:318`); the local `current` of `process_wait`, freed by another
  waiter (`process.c:558`); the head of the signal list in `krt_sigret`; a free page
  that is marked only after something else may have taken it (`memory.c:139`);
- *tested with interrupts on, used with them off*: `process_wait`, `tty_read`, `kselect`;
- *sequences of legal calls*: pids reused in a list that is no longer sorted,
  descriptor gaps, split and merged blocks, `brk` down and up;
- *limits*: a full or an empty ring, a `uint16_t` that doubles, a heap that grows
  in the middle of an allocation, which itself has to allocate;
- *partial failure*: a fault in the middle of a copy or of `kpipe`, an exec that
  fails at any page, a device that refuses a clone;
- *liveness*: round robin, waiting for a child, for a line, for a terminal to be
  ready, for a deadly signal behind others.

## 2. Modules

| Module | What it is |
|---|---|
| `Process` | processes, ready queue, scheduler, wait, signals with their default effect |
| `Signals` | the handlers of one process: nesting, `sigreturn`, exec and system calls in a handler |
| `Pages` | the bitmap of physical pages and the address spaces, through boot, fork, exec, exit, brk and page faults |
| `Allocator`, `Heap` | disjoint blocks; the heap, which implements it |
| `PipeFifo`, `Pipe` | a bounded queue of bytes; the ring of `pipe.c`, which implements it |
| `Descriptors` | one process's list of descriptors: where one is put, which one a search finds |
| `FdTable`, `FileTable` | a table from numbers to open files; the descriptor lists of all processes with the counts of pipes and files, which implement it |
| `Paths` | `resolve_path`, `abs_path_cleanup`, `kfsetpwd` |
| `Ramdisk` | the image of the ramdisk, as functions of the tree it is built from |
| `Files` | mounts, device files, open files, their counts and select, over `Descriptors` and `Ramdisk` |
| `TtyLine`, `Tty` | lines in the order typed; the terminal's operations |
| `Keyboard` | the keyboard, composed with `Tty`: the specification whose runs check both |
| `Video` | what is drawn where, and what `/dev/fb` transfers, as functions of a framebuffer |
| `Console` | the screen with its cursor and the escape sequences, over `Video` |
| `MC*` | the constants TLC needs: argument sets, trees, framebuffers, symmetry |
| `ProcessProofs`, `SignalsProofs`, `PagesProofs`, `HeapProofs`, `FileTableProofs`, `PathsProofs` | theorems and proofs of the module they are named for |
| `OpenFileProofs`, `TerminalProofs` | the same for `Pipe` and `Files`, and for `Keyboard` with `Tty` and `Console` |

`FileTable` and `Files` use the same operators of `Descriptors`, so that both act on
lists the one way the code does; `FileTable` has pipes and every interleaving
of two processes' calls, `Files` what is behind the numbers. `Keyboard` EXTENDS
`Tty`, `Console` uses `Video` and `Files` uses `Ramdisk`.

A definition called *Mutant* is the version of its neighbour that a plausible
bug would give; it is used by nothing but the test of the properties.

### Process

`process_list` is the sequence of blocks the `next` links visit. The ready queue
keeps its three pointers as the code has them, `queue`, `queue_tail` and
`queue_next`, since what goes wrong with it is a stale pointer. `kernel` says
which piece of kernel code the CPU executes next, `pc` and `target` where a
process stands in `process_wait` and what it points to. An action is a stretch of
code with interrupts off: `kmain`, `kfork` (with `first_free_pid` and
`add_process`), `Exit` (`process_exit`), `process_kill`, `page_fault_error`,
`SysReturn` (`check_signals(true)`), `Tick` (the timer's interrupt), `Reschedule`
(the first half of `schedule`), `Dispatch` (its second half with
`check_signals`), `WaitStart`, `WaitTest`, `WaitReap` and `WaitFault`
(`process_wait`: the store of the status may fault, and so may the walk along the
list when the block is in it no more). An uninitialized `ppid` is any value of `StackGarbage`; a freed
block may be given out again at once by `kfork`.

Signals have their default effect here; handlers are in *Signals*. `SharedWait` says
whether two processes may wait for one at a time: the code does nothing to prevent
it, and what holds without it is stated under that assumption. `IInv` is the
inductive invariant.

### Signals

The list of signals of one process, newest in front, each with `handled` and what was
saved with it. `doing` says what the process does: run (`user`), stopped by the timer,
in a system call that waits, coming back, or ended; `active` is the stack of handlers
that have been started and not returned, which no code looks at: it is what the
properties compare the list with. `check_signals` is an operator, since it is the end
of several actions: of system calls (`CallEnds`), of `sigreturn` (`SigretEnds`), of
being scheduled (`Scheduled`, `Resumed`, `SigretScheduled`). `is_mapped_user` is as
the code has it, so that handlers "in the kernel" run and those of programs end them.
What is restored is abstracted to `moved`: whether the registers that were saved are
those of the place that was interrupted, or of the last system call.

### Pages

`cpu` is the one operation under way, with the pages it still has to enter: `Choose`
takes a free page (`first_free_page_addr`), `Enter` marks it and enters it
(`map_page_kmalloc`), and between the two the heap may grow (`heap_expand`) whenever the
page table has to be made. It may grow for any other `kmalloc` as well (`GrowStarts`).
`Boot`, `kfork`, `kexecv`, `Exit`, `page_fault_error` and `kbrk` begin operations;
`ExecEnds`, `ExecFails`, `WriteFaults` and the like end them. A process whose exec
faults while it copies is `doomed`: it has a SIGSEGV, and its directory stays until the
scheduler gets to it, while others run. `lost` records, for `NothingLost`, the pages of
that exec; the code has no such list.

Addresses are what 64 bits hold, a few pages of them: below `TOP` they are the
program's, entered in its own directory `space[p]`; from `TOP` on they are the kernel's,
and as the last entry of every top level is the same, there is one `space[Half]` for all
(`Where`). `kbrk` has no upper bound, and the `brk_start` of a forked child is whatever its
block held (`BrkGarbage`): so breaks and programs may lie in the kernel half too. What is
mapped there on otherwise empty places stays for ever, since
`free_page_directory` leaves the last entry alone. `Direct` is what the kernel maps with
2 MB pages, `HeapPages` its heap: writing there, clearing them with `brk`, or
growing the heap to where `brk` has been, changes the kernel's own data, and the
model ends with `kernel = "overrun"`. A break that would end on the last page of all
never ends, since no address is greater (`BreakPages`): it begins again at 0 and runs into
the kernel.

### Pipe

`Pipe` has the ring of `PIPE_SIZE` cells. `pipe_device_read` and
`pipe_device_write` copy byte by byte with interrupts off, so a call is one action;
a fault in the caller's buffer ends it after any number of bytes, which is an action
of its own (`pipe_read_fault`, `pipe_write_fault`). The refinement takes the `size`
bytes from `read_pos` on to `PipeFifo`'s queue.

### FileTable

One sequence of descriptors per process, sorted by number, and per pipe and
ramdisk entry its counts. `kfopen`, `kpipe` (and its fault in the middle),
`kfclose`, `kdup2`, fork (`clone_file_descriptors`) and exit are one action each.
An exit closes nothing, as in the code. `FdTable` is what programs expect: a
partial function from numbers to open files.

### Paths

A path is the sequence of what follows its slashes. `before` and `after` are what
the pointer of `abs_path_cleanup` has passed and has before it; a step of the model
is an iteration of its loop. Lengths count characters, terminators included where
the code counts them.

### Heap

`headers` maps addresses to headers, as the code lays them out in memory; `magic`
is where the magic number stands, whether the header is in use or not. `calls`
is the stack of calls of `kmalloc_int` that have not returned: `heap_expand` calls
`kmalloc` for the next page table in the middle of one. `live` records who holds
what; the allocator does not read it, but for the bound `MaxLive` on the calls
programs make.

### Tty and Keyboard

`tty_push` is the end of the keyboard's interrupt. `tty_read` starts in one step; in the
loop that waits for a newline each test is a step (`Test`), because interrupts are
on; `Copy` is the rest, with interrupts off. What a new block of memory holds behind
the copied half is any character. `buffer_pos` is the `uint16_t` of the code, which may
leave the block in two steps. In `CopyGone`, a reader copies a line that is gone since it
was found: a backspace has erased it, or another reader has taken it, and the cell at
`buffer_pos` may still hold a newline. In `SizeWraps`, the size doubles to 0, and the next
character is written outside. The model ends when what is read or written is not the
terminal's any more (`stray`), or would be with the next character (`Goes`). `TtyLine` has
the backspace, `Erase`, and raw reads, `ReadRaw`.

`Keyboard` drives `Tty` with scancodes: `keyboard_addcode` turns one into the
characters of `typing` (an arrow key is three), and `keyboard_addchar` puts each into
the keyboard's buffer and hands it to the terminal. A read of `/dev/kb` polls with
interrupts off, so it either finds what it wants or the machine stands still
(`stuck`).

### Video and Console

`Video` has no state: rectangles, clearing, colours and transfers are sets of bytes and
functions of a framebuffer, a record as the boot loader describes it. `DrawnRight`
compares them with a reference definition pixel by pixel. `Console` is `video_putc`:
each character is an action, plain, beginning a sequence, collecting it or ending it by its
kind. A glyph is the cell it inks.

### Ramdisk and Files

`files` is the row of headers that `buildutils/ramdisk.py` writes for a tree, which is
given as the script sees it: what `listdir` and `getsize` return for a path.
`ramdisk_get_path_header`, `ramdisk_read` and the listing are functions of it, as the
code searches the row. `Files` has a heap of blocks that hold what an open file or device
needs, the descriptors of each process that point to them, and the mounts. Dispatch
through a table of functions is `Functions(device)`: calling one that is not set is
`NullIsUsed`, which ends the process by a page fault. A block just allocated holds
garbage, which is what the count of a terminal begins at; a block that no descriptor leads to
any more counts as free, so leaks, which the code has, do not use up the model's
heap. `kselect` with its passes
(`SelectPass`) is the only call of more than one action.

## 3. Runs

`tlc -workers 2 -config X.cfg M`, with the module and the configuration of
`PROJECT.json`.

| Run | Question | Bounds and why they are enough |
|---|---|---|
| ProcessSafety | Are the ready queue, the process list and reaping sound under every order of fork, exit, fault, signal, wait and tick? | Idle and three processes: a head, a tail and one in between; calls name any child, Idle, or the second or third pid; pids are reused; two signals in a list, one ignored |
| ProcessShared | Is the process list exact when two processes wait for one, and the second faults, there or in the store of the status? | the same blocks, waits for the pid of the last |
| ProcessLive | Does a queued process run, a waiter return, and a deadly signal end its process? | the same blocks, signals and waits for the pid of the last, one signal in a list |
| Signals | Do handlers return to what they interrupted, and does SIGKILL end the process? | three signals sent, of three kinds: two may come while the handler of a third runs |
| Pages | By which steps alone does a physical page get a second user, is none lost, and does the kernel stop only at a hole or without memory? | ten pages of two words of the bitmap, eight of them usable, with a hole that the search can end at a used page behind; two processes; a program of two pages (shared, straddling), one linked for the kernel half, and a file that is none; breaks in user space, behind the heap and on the last page, and a garbage `brk_start` behind the heap; a heap that grows by one page: memory runs out at every step of fork, exec and brk |
| Heap | Do headers tile the heap, is every block owned once, is the table for growth there? | headers of two bytes and pages of four, so that remainders of every size from 0 up occur; four blocks; one expansion, with its nested allocation |
| Pipe | Does the ring stay a FIFO? | three cells, two values, transfers of 0 to 4 bytes: full, empty, wrapped, cut short by a fault |
| FileTable | Are lists ordered, counts exact, and do calls change an abstract table only as promised? | two processes, three blocks, three descriptors each; number 3 is beyond what `open` gives first, so `dup2` makes gaps |
| Files | Does no descriptor lose what is behind it, is the ramdisk the tree it was built from, does select return? | two descriptors in all, of one process or of parent and child; four blocks; a tree of a directory, two files in it and an empty file behind, of which the root and a file are opened, and a device of each type; a count that begins at 0 or 1 |
| Paths | Does cleaning end, leave a clean path and keep its meaning? | every path of up to three parts over two names, from every working directory earlier ones made, up to the longest that fits |
| Keyboard | Do two readers get the lines that were typed, and return? Which steps alone take the terminal out of its buffer? | a letter with shift and caps lock, enter and backspace; the terminal's buffer grows from 1 to 2, and from 2 to a size that is 0; the keyboard's wraps with the second character |
| Console | Has a sequence its block, does the cursor stay on the screen, is drawing right? | sequences of up to five characters in a block of three; a screen of two by two characters; six framebuffers of every depth, with lines longer than their pixels |

A property of a passing run is tested with a mutant, listed in `PROJECT.json`,
which TLC finds.

Two passing properties say that nothing goes wrong *but* in steps they name
(`OwnedOnceBut`, `BuffersKept`; `IsTtyLine` uses the same two steps). What these steps do
is shown to be wrong by PagesTwice and KeyboardTwo, so that the runs together say where
the code fails and that it fails nowhere else. Both steps of each happen in the
run itself.

The constants of Keyboard leave out what makes its liveness too long to check: reads of more
than one character, arrow keys of three (`Special`), and changes to raw mode and back. With
`Request = {2}`, `Termios <- LinesOrRaw` and `KSpec` in place of `KFairSpec`, 8 326 752
states, its safety holds as well. `Pages` with the constants of PagesHole, where the search stops at the hole instead
of behind it, has the same properties.

`CHECK_DEADLOCK FALSE` stands where the model stops by design: the kernel has
panicked or is out of memory (Heap, Paths, Pages), all processes have exited or used up the
bounds (FileTable, Files, Signals, ProcessShared), a read of `/dev/kb` has stopped the
machine (Keyboard), something has been drawn outside the framebuffer (Console), or a
first violation is all that is sought.

More configurations, which are not among the runs, show departures from what
the code's own comments, names or callers expect; each stops at the violation it
names.  For those with a star, put the property in place of those of the run's own
configuration:

| Configuration | Module | Property | What happens |
|---|---|---|---|
| ProcessLost | MCProcess | `LiveNotLost` | a process forks and exits in one time slice, and the child is linked where the scheduler never looks (`process.c:318`) |
| ProcessPids | MCProcess | `PidsUnique` | two processes have one pid: the search of `first_free_pid` (`process.c:27`) needs a sorted list |
| ProcessDoubleReap | MCProcess | `FreesOnlyExited` | of two waiters the second reads a freed block, reused by fork, and frees a running process |
| SignalsNever | Signals | `HandlerCounts` | a program's handler is taken for unmapped (`memory.c:817`), and the signal ends the program |
| Signals* | Signals | `HeadIsOwn` | of two signals that come while a handler waits, one is not looked at, and `krt_sigret` takes its saved state (`process.c:411`) |
| Signals* | Signals | `GoesOnInPlace` | what the timer had stopped goes on behind its last system call |
| PagesTwice | MCPages | `OwnedOnce` | the heap grows while a table is made, and takes the page that was chosen (`memory.c:139`): one of the two steps that `OwnedOnceBut` names, the other being `CopyPage` behind a hole |
| PagesHole | MCPages | `StopsOnlyWhenFull` | a page below the end of memory that is not usable is looked at for ever (`memory.c:425`) |
| HeapAstray | Heap | `HeaderIsItsOwn` | `kfree_a` takes a stale magic number for the header (`memory.c:988`) |
| FilesGap | MCFiles | `SelectSkipsGaps` | "There may be gaps" (`filesystem.c:710`): behind one, select sees nothing |
| FilesListing | MCFiles | `ListingFits` | a listing of a directory writes behind the buffer (`ramdisk.c:203`) |
| PathsRoot | MCPaths | `CleaningKeepsMeaning` | `/a/..` becomes `/a` (`filesystem.c:160`) |
| PathsFit | MCPaths | `BufferFits` | "ensure the paths are short enough" (`filesystem.c:190`) forgets the terminator |
| KeyboardTwo | MCKeyboard | `TakesWhatIsThere` | two readers for one newline take `buffer_pos` below zero (`tty.c:163`) |
| Keyboard* | MCKeyboard | `OnlyReadsTake` | the 256th character empties the keyboard's buffer (`keyboard.c:150`) |
| ConsoleReentered | MCConsole | `SequenceHasBlock` | an escape that ends a sequence begins the next in a block that is freed at once (`ansi.c:308`) |

## 4. Fairness

- `Tick` strongly fair: the interrupt controller latches IRQ 0, so a tick that
  comes with interrupts off is served when they are on; they are on again and
  again, not always.
- `WaitGoesOn` (`WaitTest`, `WaitReap`) strongly fair for each process: a process that
  is given the CPU again and again, with interrupts on, gets through one test of a
  flag before the next tick at least once.
- `KernelGoesOn` (`kmain`, `Reschedule`, `SysReturn`, `Dispatch`), and in `Paths` the
  rest of a call: weakly fair, since code with interrupts off just runs on. One of them
  is the only step then, so one condition for all says as much as one for each.
- `Keyboard`: `keyboard_addchar` weakly fair, since an interrupt runs to its end;
  a reader's `KTest` and `KCopy` strongly fair, since interrupts come between its
  tests and the scheduler's round robin (`QueuedRuns`) gives it the CPU again and
  again.
- `Signals`: the timer's end of a pause (`Stopped`) and everything the kernel does once
  the process is scheduled (`Returns`) weakly fair, which is `QueuedRuns` again.
- `Files`: `SelectPass` weakly fair per process: a loop the process runs whenever it
  has the CPU.
- Programs owe nothing: no fork, exit, call, signal or key is fair.

## 5. Proofs

`tlapm` proves, for all constants that satisfy the named assumptions of the modules:

**Process.** `TypeCorrect` needs nothing else. `ListCorrect`: `process_list` holds
each process in use once; with the types it is inductive as it stands, shared waits
included. The safety properties of the ready queue are not inductive: that no
process that has run is lost depends on where `queue_tail` points. `IInv` says so: links join processes that have not exited,
each has one predecessor, nothing points to the head or the current process
(`LinksOK`, `HeadOK`), and `queue_tail` ends the queue or, with a single process
in it, what hangs from the current one (`TailOK`). "In the queue" is
reachability, defined as membership of every set closed under the links; steps
are proved by exhibiting a closed set. `InvariantCorrect`, `RunningNeverLost`,
`QueueAlwaysSound` and `NeverPanics` assume `~SharedWait`, which the code does nothing to
ensure: with two waiters the second may free a process that runs (ProcessDoubleReap). That
only exited processes are freed, `FreesOnlyExited`, is therefore left to the run.

**Pages.** `PagesTypeCorrect`, `PagesNotLost`, `PagesOwnedOnce` and `StopsOnlyWithoutMemory`,
for every memory, with holes or without, tables that make the heap grow or not, breaks and
garbage anywhere. Beyond the assumptions on the constants they need `ProgramsAssumption`: no
segment goes past the last address. That no page is
lost rests on what every step keeps (`Whose`, `Forking`, `Vacant`): the directory
that is filled is `New` or the operation's own, a directory that is not in use is
empty, the pages a fork has still to copy are distinct and not there yet, so that
nothing is entered over something else.

`OwnedOnceBut` is about single steps: from any state in which pages are owned once, only the
two steps of `TakenTwice` lead to one in which they are not. It needs an invariant all the
same, since `Enter` marks what was chosen before. `Chosen` says what is left of the choice by
then: the page was free, and whatever has taken it since is the heap. Every other step
moves directories, gives one up or takes one page that is free (`MovesOff`, `GivenUpKeeps`).
`FoundIsFree` is the search: its first turn ends at the first clear bit, and only behind a
free page that is not usable can a later turn end at one that is set. `StoppedByHole` is the
same for a search that does not end, or that ends the kernel: what it goes on from is a
free page below all free ones that are usable.

**Pipe.** `PipeTypeCorrect`, `PositionsAlwaysAgree` (`write_pos` is `read_pos +
size` modulo the ring, the invariant the refinement needs) and `PipeIsFifo`, the refinement of
`PipeFifo` for every `PIPE_SIZE`.

**FileTable.** `OrderKept`: lists are strictly in order, under `NoOverflow` (no
number reaches the largest int). The invariant says of each list that its
elements are typed, ordered and bounded; lemmas cover insertion, removal and
replacement at a position.

`TableTyped` and `CountsKept` need no assumption. `CountsSound` speaks of pipes; the
invariant `CountInv` counts the same way for every device: each count is at least the number of
descriptors that name its end (`Covered`, with the writing end that was never listed; for a
pipe it is equal), and a block that is free has counts of zero. A call is put together from
three changes, one descriptor more (`CoveredAdd`), one less (`CoveredRemove`) and
a whole list copied (`CoveredFork`), and each changes the number of references by what it
changes the count by, because shifting the elements of a list is a bijection
(`RefsShift`, `RefsFork`).

`ListsAreTables` is the refinement of `FdTable`, again under `NoOverflow`: without it
the number behind the largest int is negative, the list no longer in order, and two elements
may have one number, which no table has. A list in order is the table of its elements
(`TableOf`); insertion, removal and replacement are `Bind` and `Without`.

**Heap.** `HeapTyped`, `ListStaysSound`, `NeverInTrouble` and the refinement of `Allocator`,
`HeapIsAllocator`, for any sizes of header, page, table and request, as far as
`HeapAssumption` goes: the first heap, and what an expansion adds, hold a header, a page
and a table, and `krealloc` grows a block by at least a header. All four rest on
`HeapInv`:

- headers tile the heap and are linked both ways (`ListAt`); a release is at most two
  merges, and between them the list is coalesced everywhere but beside the block
  released (`CoalescedBut`);
- every block of the list in use has one owner (`OwnedAt`), and that of a block that is not
  aligned stands right in front of it and is at most one header longer than what was asked
  for (`BlocksOK`): so `kfree` and `krealloc`, which step back one header, find it, and the
  old block of a `krealloc` fits into the new one;
- of the calls that have not returned only the outermost is a `krealloc`, and its old
  block is still held (`CallsOK`); those in front of it are for page tables;
- while the next page table is missing, the innermost call is the one for it and a
  free block is long enough (`TableComes`): so growth never needs to grow again for its
  own table, and `trouble` is never `"prealloc"`.

**Signals.** `HandlersAlwaysNest`, for any signals, handlers, masks and any number of
signals. `HandlersNest` is not inductive, since it does not say in which order the list is.
`SignalsInv` does: ids fall along the list and along `active`, since a signal
goes in front; every handler that is active is of a handled signal of the list; and a
handled signal that is younger than an active handler is active itself, those that exec
has left behind being older than all that are started after it. The head of the list is
then the innermost handler's signal or a new one (`HeadIsInnermost`), which is what
`krt_sigret` needs.

**Paths.** `PathsAlwaysClean`: the working directory is clean, and so is what
`abs_path_cleanup` hands on, from the invariant that what the pointer has passed
is clean and a working directory under way ends with a slash. `PathsTyped` adds the bound
on its length: `kfsetpwd` measures again after it has added the slash, and no round of
the loop makes a path longer (`ScanShortens`). `MeaningKeptBelowRoot` is
`CleaningKeepsMeaningBelowRoot`: a part that is removed leads nowhere, and from one
directory the same path leads to one directory (`NamedConcat`).
Both need what the recursive functions `Strlen` and `Named` compute for paths of any length.
They are shown equal to a `Fold`, whose value exists, is unique and takes one step for each part
appended (`FoldStep`); the induction behind it is over a set of paths that holds the empty one
and is closed under appending a part (`PartByPart`), which rests on the least
counterexample (`LeastOf`). That `PATH_MAX` is not 0 is assumed; it is 4096
(`filesystem.h:9`).

**Terminal and keyboard.** `BuffersStaySound`, which is `BuffersKept`, and `ReadsAreLines`, the
steps of `TtyLine`, for any readers, keys, requests, settings and buffer sizes, without
further assumptions: in line and in raw mode, with backspaces and reads of others between
a reader's test and its copy. Both let go of the two steps `CopyGone` and `SizeWraps`, which
KeyboardTwo and `tty.c:224` show to be wrong. The invariant `KInv` says that the
block is as long as `buffer_size` says, that `buffer_pos` is within it, and what a reader
is after; `BuffersSound` is the same (`SoundIsKInv`), so that from a sound state any step but
the two leads to a sound one, and is one of `TtyLine`. A copy whose line is still there takes
the first newline, whoever typed or read in between.
`Waiting` is the content as a sequence; storing a character appends to it
(`StoredIsLast`), also when the block is replaced by a longer one, and moving the rest to
the front drops what was taken (`ShiftedIsRest`).

**Screen.** `SequenceHeld`, for any characters: a sequence that is collected has its block,
unless an escape ended one (`reentered`), and fits in it; `EscapeInv` adds that what is shown is
typed, the positions being `uint32_t`. `EraseTakesOne`: the echo of a backspace clears the
cell of the character before it and no other (`EchoErases`). `CursorStays`, for every
framebuffer of at least two rows (`TwoRows`): on a single row, a character would scroll its
cursor into the corner. Every character leaves the cursor on the screen and away from
the corner once the line is wrapped and the screen scrolled (`SettledInside`, `DrawnAway`),
and so does each of a sequence that is none and is written out character by character
(`SignsAway`), which has no more than characters that are drawn (`CursorInv`). The loops are
recursive functions over what is written, which exist (`LeadsExists`), and the induction is
over the texts, closed under one character more (`CharByChar`).

**Drawing.** `ScreenIsDrawn` is `DrawsRight` for every framebuffer, font and table of colours.
`PictureAssumption` says of the framebuffer what the boot loader promises: a line has a pixel
and is at least as long as its pixels; and of colours that a part is a `uint8_t`. What is drawn
is then a rectangle of bytes (`PixelsAre`, `FilledIs`), since from one line of a rectangle to the
next is the pitch when a line is whole pixels (`StepIsPitch`), and a byte is of one place of one
line only (`OnePlace`): so the two clears tile the screen (`Tiles`). A transfer of
`/dev/fb` writes the rest of its first line and then whole lines, and each byte lands where
the file has it (`PlaceIs`). The colour is found in one pass over the table
(`OneColourMore`), by the same induction; it finds one at all because no two colours are as far
apart as the `4 * 256 * 256` the pass begins with (`DistanceIs`).

**Files.** `FilesAreSound` is `Sound` for any number of processes, descriptors and blocks,
any tree and any names. Its hypothesis `CountsFromZero` says of uninitialized memory that
the count of a terminal does not wrap: a count is a `uint64_t`, and is incremented from what
its block held before (`tty.c:252`); with `Garbage = {-1}`, which stands for 2^64 - 1, TLC
finds `Sound` violated by the first open of a terminal. `FilesAssumption` says that a name of
type `xd` in `/dev` names nothing in the ramdisk's root, which is what `ramdisk_open`
would look it up in, and that the types of the devices are the four that are registered.
`Sound` is not inductive, since it says nothing of the counts of the ramdisk's files
and of whose a block is. `FilesInv` does:

- every block that is neither free nor lost is of a list that owns it (`Owned`), and no
  two lists own the same: a fork copies what it inherits, so that only
  the descriptors of one process share;
- in each list (`ListSound`), every descriptor has what it needs (`Holds`), no two
  share a device file (`Apart`), and what is shared is counted for at least as many as share
  it, for a frame buffer exactly as many (`CountsFor`).

A call of a process touches blocks of its own list and free ones only (`Within`), which is
transitive (`WithinBoth`), and then the lists of the others are as sound as before (`ListSame`,
`BecomesWithin`). What remains is one list: a descriptor more (`Adds`, `GrowWithin`), a
descriptor less (`Drops`, `ShrinkWithin`), or one that is opened in free blocks (`Fresh`,
`FreshWithin`). dup2 over an open number is one more and then one less, stat one that is
opened and closed. The number of those that share a block changes by what the count does, by a
bijection between the lists (`UsersShift`). A fork is a recursive function over the list:
it exists (`ClonesExist`), and after i descriptors there is a sound list of i in blocks
that were free, and room for the rest (`CloneNextIs`, `ClonedList`).

Only model-checked: liveness, which is out of reach of the prover; and `IsTree` of `Files`,
which needs what the recursive description of the image yields for every tree, an induction
over data.

## 6. Findings

The second table of section 3 is what was found to be otherwise than the code's comments
or callers have it, each with the configuration that shows it. Also met while
modelling, and part of the models as the code has it:

- "sort by pid" (`process.c:60`): `add_process` puts a new process after the first
  greater pid; "add to the queue" (`process.c:74`) is skipped by the early return at 69.
- `setpgid` sets the group id of the user (`syscall.c`).
- a backspace between the test and the copy of `tty_read` takes the newline away that
  was tested for; a raw read returns how many characters waited, not how many it
  copied; `buffer_size`, a `uint16_t`, doubles from 32768 to 0 (`tty.c:224`).
- `kfree_a` panics ("Header too far away!", `memory.c:994`) on an aligned block that
  lies behind its header with a gap between them, which `kmalloc_a` may leave (866).
- a read of one character from `/dev/kb` writes two when a backspace comes first
  (`keyboard.c:286`): the model's `Read` is what it writes.
- the number after the largest int is given out (`filesystem.c:236`).
- `F_GETPATH` gives the last component only (`ramdisk.c:280`), so it leads back to
  files of the root alone.
- an error in `kselect` returns with interrupts on (`filesystem.c:730`), and its timeout
  is not looked at (759); `/dev/fb0` has a `select` that is never set and no clone
  (`video.c:860-885`): a select of it, or a fork with it open, is a jump to
  nowhere.
- `handleHome` passes the row as x and the column as y (`ansi.c:256`, `video.c:273`), and
  row or column 0 becomes the largest; so the cursor may leave the screen with numbers that
  are on it.
- the terminator of an escape sequence that fills its block is written one byte behind it
  (`ansi.c:341,357,364`).
- `brk` may be asked for addresses of the kernel, and a forked child's break begins at
  whatever its block held (`process.c:633,805`): what is mapped in the kernel half is in every
  address space and is never given back.

## 7. Not modelled

Data that no property tells apart (file contents, register sets, message texts);
code that is pure output or input (serial, mouse, traces, strings); code that runs
once before the first process and leaves no state behind (bootstrap, multiboot data,
descriptor tables of the CPU); code that is not built (old kernel) or is not the kernel
(programs of the ramdisk).

Of the modelled parts:

- `Process`: system calls that return a constant or a field (`getpid`, `getuid`,
  `timeofday` and the like); `wait4`'s options, which the code ignores too.
- `Signals`: the registers themselves; what the handler's own code does to its frame.
- `Pages`: levels above the page tables: that a table can be made, and the heap grow for
  it, is there, how many are made is not. Which addresses are canonical: a fault at one that
  is not panics (`tables.c:361`). A segment's `p_paddr`, to which the loader copies, is
  taken to be its `p_vaddr`. A doomed process whose signal comes behind an ignored one would
  go on from the middle of its exec. `first_free_consec_page_addr`, which nothing calls.
  What happens after `"overrun"`.
- `Heap`: the bump allocation before the heap is set up; the upper levels of the tables
  it allocates ahead. What `kdup` and `process_wait` read from a block they have just
  freed is below the level of the model: it has no contents.
- `Files`: contents of files; `kdup`, which nothing calls.
- `Tty`: the foreground group, and the ioctls that return a field; what happens after the
  terminal has left its buffer (`Goes`). `Keyboard.cfg` has line mode only.
- `Video`: the shapes of glyphs. `Console`: what happens after something has been drawn
  outside the framebuffer.

## 8. Plan

What is left, in this order:

1. Theorems: `IsTree` of `Files`, once the tree is given as the row of its headers.
2. `Signals` composed with `Process`: several processes with handlers, so that what
   `Stopped` and `Returns` assume of the scheduler is checked with it. Two
   processes and two signals.
3. `Heap` under `Pages`: the heap's growth as the nested calls it is, in place of the
   choice in `Choose` and `GrowStarts`, with the upper levels of the tables.
4. Raw mode of `Tty` in a run with the liveness of its readers.

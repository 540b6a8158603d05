------------------------------- MODULE Files -------------------------------
(***************************************************************************)
(* What is behind the descriptors of a process: the mounted file systems   *)
(* and their dispatch (src/kernel/filesystem.c), the device files          *)
(* (interface/device.c) with what the terminal, the frame buffer and the   *)
(* keyboard keep for an open one, and the open files of the ramdisk        *)
(* (interface/ramdisk.c); and select, which waits for a terminal.          *)
(*                                                                         *)
(* A call runs with interrupts off and is one action, except select, which *)
(* turns them on: each of its passes is an action.  A reference to NULL    *)
(* is a page fault, which ends the process; it has no handlers here.       *)
(* Paths are clean (module Paths), a path the sequence of its parts.       *)
(***************************************************************************)
EXTENDS Ramdisk, Descriptors, SequencesExt

CONSTANTS
  Process,    \* the processes that may ever exist
  Boot,       \* the first of them
  PathArg,    \* the paths that programs name
  DeviceName, \* the names in /dev: [name -> [type, number]], -1 if it has none
  FlagArg,    \* the sets of flags they open with
  FdArg,      \* the numbers they name
  Offset,     \* what they pass to lseek
  Bytes,      \* how much they read, or list, at once
  SelectArg,  \* what they select: [nfds, readfds, writefds, errorfds]
  Garbage,    \* what a new block may hold where a count will be
  Blocks,     \* bound on the blocks of the heap
  MaxOpen,    \* bound on the length of a list
  MaxCount,   \* bound on the counts
  MaxListed   \* bound on the descriptors of all processes

ASSUME FilesAssumption ==
  /\ Boot \in Process
  /\ PathArg \subseteq Seq(STRING)
  /\ Garbage \subseteq Int /\ FdArg \subseteq Int /\ MaxFd \in Nat
  /\ Blocks \in Nat /\ MaxOpen \in Nat
  /\ \A name \in DOMAIN DeviceName :
       DeviceName[name].type \in {"xd", "kb", "fb", "tty"}
  /\ \A name \in DOMAIN DeviceName :
       DeviceName[name].type = "xd" => ramdisk_get_path_header(<<name>>) = NULL
  /\ Offset \subseteq Int /\ Bytes \subseteq 0..(Word - 1)

VARIABLES
  running,           \* the processes that have been created and have not ended
  unborn,
  file_descriptors,
  heap,              \* the blocks that open files take
  line,              \* the terminal holds a whole line
  selecting          \* what a process waits for in select

filesVars ==
  <<running, unborn, file_descriptors, heap, line, selecting>>

Nothing == [call |-> "none"]

-----------------------------------------------------------------------------
(* The devices and the mounts, which are set up before any process runs.   *)

\* The devices of a type are numbered as they come.
register_device(lists, type) == [lists EXCEPT ![type] = Append(@, Len(@))]

Registered ==
  FoldLeft(register_device, [t \in {"xd", "kb", "fb", "tty"} |-> <<>>],
           <<"xd", "fb", "kb", "tty">>)

Ids(type) == Range(Registered[type])

\* The functions that each device sets.  The devices are in zeroed memory,
\* except the frame buffer and the terminal, which are in the heap: what the
\* frame buffer has for select, which it does not set, is anything.
ramdisk_device ==
  {"open", "read", "close", "fcntl", "getdents64", "lseek", "stat", "dup", "clone",
   "file_size"}
device_device ==
  {"open", "read", "close", "write", "lseek", "ioctl", "dup", "clone", "stat",
   "select"}
tty_device ==
  {"open", "close", "read", "write", "ioctl", "stat", "dup", "clone", "select"}
fb_device ==
  {"open", "read", "close", "write", "lseek", "ioctl", "dup", "stat", "file_size"}
kbd_device == {"read", "open", "clone", "stat"}

Functions(device) ==
  CASE device = "ramdisk" -> ramdisk_device
    [] device = "devices" -> device_device
    [] device = "tty" -> tty_device
    [] device = "fb" -> fb_device
    [] device = "kb" -> kbd_device

mount_at(mounts, path, device) == <<[path |-> path, filesystem |-> device]>> \o mounts

mounts == mount_at(mount_at(<<>>, <<"mnt", "ramdisk">>, "ramdisk"),
                   <<"dev">>, "devices")

\* The mounts that path may be below; the first of them is taken.
get_path_device(path) ==
  {k \in 1..Len(mounts) :
     /\ IsPrefix(mounts[k].path, path)
     /\ \A j \in 1..(k - 1) : ~IsPrefix(mounts[j].path, path)}

MountOf(path) == mounts[CHOOSE k \in get_path_device(path) : TRUE]
Below(path) == SubSeq(path, Len(MountOf(path).path) + 1, Len(path))

device_to_path(device) ==
  LET k == Least({j \in 1..Len(mounts) : mounts[j].filesystem = device})
  IN mounts[k].path

\* As exec asks for it; negative is an error.
file_size_internal(path) ==
  IF get_path_device(path) = {} THEN -1
  ELSE IF "file_size" \notin Functions(MountOf(path).filesystem) THEN -1
  ELSE file_size(Below(path))

-----------------------------------------------------------------------------
(* Blocks.                                                                 *)

Free == [kind |-> "free"]

Unused(h) == {b \in 1..Blocks : h[b] = Free}

\* kmalloc takes an unused block: which one does not matter.
New(h) == Least(Unused(h))

\* What the first n blocks that are taken hold.
Dirt(n) ==
  LET unused == Unused(heap)
  IN [{b \in unused : Cardinality({c \in unused : c < b}) < n} -> Garbage]

Put(h, block) == [h EXCEPT ![New(h)] = block]

OpenFile(file, path) ==
  [kind |-> "file", file |-> file, read_pos |-> 0, dependents |-> 1, asked |-> path]
FrameBuffer(dependents) == [kind |-> "fb", dependents |-> dependents]
Terminal(dependents) == [kind |-> "tty", dependents |-> dependents]
DeviceFile(device, data, dependents) ==
  [kind |-> "device", device |-> device, data |-> data, dependents |-> dependents]

\* A block with a dependent less; the last one frees it.
Dropped(h, b) ==
  LET open == h[b]
  IN [h EXCEPT ![b] = IF open.dependents > 1 THEN [open EXCEPT !.dependents = @ - 1]
                      ELSE Free]

Counted(h, b) == [h EXCEPT ![b].dependents = @ + 1]

-----------------------------------------------------------------------------
(* Opening.                                                                *)

Opened(h, data) == [ok |-> TRUE, heap |-> h, data |-> data]
Failed(h) == [ok |-> FALSE, heap |-> h, data |-> NULL]

ramdisk_open(h, path, flags) ==
  IF ramdisk_open_fails(path, flags) THEN Failed(h)
  ELSE Opened(Put(h, OpenFile(ramdisk_get_path_header(path), path)), New(h))

fb_open(h, flags) ==
  IF "O_DIRECTORY" \in flags THEN Failed(h)
  ELSE Opened(Put(h, FrameBuffer(1)), New(h))

keyboard_open(h) == Opened(h, NULL)

\* The count is incremented without being set.
tty_open(h, g) == Opened(Put(h, Terminal(g[New(h)] + 1)), New(h))

DeviceOpen(h, type, path, flags, g) ==
  CASE type = "xd" -> ramdisk_open(h, path, flags)
    [] type = "fb" -> fb_open(h, flags)
    [] type = "kb" -> keyboard_open(h)
    [] type = "tty" -> tty_open(h, g)

\* The block is taken before the device is opened, and stays when that fails.
device_open_helper(h, type, number, path, flags, g) ==
  IF number \notin Ids(type) THEN Failed(h)
  ELSE LET b == New(h)
           open == DeviceOpen(Put(h, DeviceFile(type, NULL, g[b])), type, path,
                              flags, g)
       IN IF ~open.ok THEN open
          ELSE Opened([open.heap EXCEPT ![b] = DeviceFile(type, open.data, g[b] + 1)], b)

\* For a terminal the array is read beyond the name: as what it held before
\* (empty or not), this is "tty" without a number, which means the first one.
device_open(h, path, flags, empty, g) ==
  IF Len(path) # 1 \/ path[1] \notin DOMAIN DeviceName THEN Failed(h)
  ELSE LET name == DeviceName[path[1]]
           number == IF name.type = "tty" /\ empty THEN 0 ELSE name.number
       IN device_open_helper(h, name.type, number, path, flags, g)

\* device->open of the file system that path is in.
Open(path, flags, empty, g) ==
  IF get_path_device(path) = {} THEN Failed(heap)
  ELSE IF MountOf(path).filesystem = "ramdisk" THEN ramdisk_open(heap, Below(path), flags)
  ELSE device_open(heap, Below(path), flags, empty, g)

\* What may come of it.
Outcomes(path, flags) ==
  {Open(path, flags, empty, g) : empty \in BOOLEAN, g \in Dirt(2)}

-----------------------------------------------------------------------------
(* Closing, duplicating and cloning.  A descriptor's data is a block of its *)
(* file system; NULL is that of a duplicate of the keyboard.                *)

\* The terminal's block is freed when its count is exactly zero.
tty_close(h, b) ==
  IF h[b].dependents = 1 THEN [h EXCEPT ![b] = Free]
  ELSE [h EXCEPT ![b].dependents = @ - 1]

device_close(h, b) ==
  IF b = NULL THEN h
  ELSE LET open == h[b]
           inner == IF "close" \notin Functions(open.device) THEN h
                    ELSE IF open.device = "fb" THEN Dropped(h, open.data)
                    ELSE tty_close(h, open.data)
       IN Dropped(inner, b)

Close(h, e) ==
  IF e.device = "ramdisk" THEN Dropped(h, e.data) ELSE device_close(h, e.data)

\* Mutant: the terminal is shared without being counted.
device_dup_forgets(h, b) ==
  IF "dup" \notin Functions(h[b].device) THEN Opened(Counted(h, b), NULL)
  ELSE Opened(Put(Counted(h, b), DeviceFile(h[b].device, h[b].data, 1)), New(h))

\* The duplicate has a block of its own; the old one counts it all the same.
device_dup(h, b) ==
  IF "dup" \notin Functions(h[b].device) THEN Opened(Counted(h, b), NULL)
  ELSE Opened(Put(Counted(Counted(h, b), h[b].data),
                  DeviceFile(h[b].device, h[b].data, 1)),
              New(h))

Dup(h, e) ==
  IF e.device = "ramdisk" THEN Opened(Counted(h, e.data), e.data)
  ELSE device_dup(h, e.data)

\* The copy of a terminal's block is counted from what it held before.  That
\* there is a clone is not tested; the block that is taken first stays.
device_clone(h, b, g) ==
  IF b = NULL THEN Failed(Put(h, DeviceFile("none", NULL, g[New(h)])))
  ELSE LET new == New(h)
           open == h[b]
           with == Put(h, DeviceFile(open.device, open.data, open.dependents))
       IN IF "clone" \notin Functions(open.device) THEN Failed(with)
          ELSE IF open.device = "kb" THEN Opened(with, new)
          ELSE Opened([Put(with, Terminal(g[New(with)] + 1))
                         EXCEPT ![new].data = New(with)], new)

Clone(h, e, g) ==
  IF e.device = "ramdisk" THEN Opened(Put(h, h[e.data]), New(h))
  ELSE device_clone(h, e.data, g)

\* One descriptor more; none, once one could not be cloned.
CloneNext(so_far, e, g) ==
  IF ~so_far.ok THEN so_far
  ELSE LET clone == Clone(so_far.heap, e, g)
       IN [ok |-> clone.ok, heap |-> clone.heap,
           data |-> Append(so_far.data, [e EXCEPT !.data = clone.data])]

clone_file_descriptors(h, list, g) ==
  LET upto[i \in 0..Len(list)] ==
        IF i = 0 THEN Opened(h, <<>>) ELSE CloneNext(upto[i - 1], list[i], g)
  IN upto[Len(list)]

-----------------------------------------------------------------------------
(* Calls.                                                                  *)

Descriptor(id, device, data) ==
  [descriptor_id |-> id, device |-> device, data |-> data]

\* The blocks that lists lead to.
Reached(h, lists) ==
  LET data == {lists[d[1]][d[2]].data : d \in {c \in Process \X (1..MaxOpen) :
                                                c[2] <= Len(lists[c[1]])}}
  IN data \cup {h[b].data : b \in {d \in data \ {NULL} : h[d].kind = "device"}}

\* The heap is h and p's list is list.  Of a block that nothing leads to it does
\* not matter whether it is free, and it is taken to be: Blocks bounds those that
\* something leads to.
Become(h, p, list) ==
  LET lists == [file_descriptors EXCEPT ![p] = list]
      reached == Reached(h, lists)
  IN /\ file_descriptors' = lists
     /\ heap' = [b \in 1..Blocks |->
                   IF b \in reached THEN h[b] ELSE Free]

Listed == {d \in Process \X (1..MaxOpen) : d[2] <= Len(file_descriptors[d[1]])}

\* n more descriptors are within the bounds.
MayAdd(p, n) ==
  Len(file_descriptors[p]) + n <= MaxOpen /\ Cardinality(Listed) + n <= MaxListed

\* p is in no call, and there are n blocks for the one it makes.
Calls(p, n) ==
  /\ p \in running
  /\ selecting[p] = Nothing
  /\ Cardinality(Unused(heap)) >= n

\* So does kexecv; it closes what it has read, and leaves open what it cannot
\* read.
kfopen(p) ==
  /\ Calls(p, 2)
  /\ MayAdd(p, 1)
  /\ \E path \in PathArg, flags \in FlagArg : \E open \in Outcomes(path, flags) :
       LET list == file_descriptors[p]
       IN Become(open.heap, p,
                 IF ~open.ok THEN list
                 ELSE InsertedAt(list, Place(list) + 1,
                                 Descriptor(NextId(list), MountOf(path).filesystem,
                                            open.data)))
  /\ UNCHANGED <<running, unborn, line, selecting>>

kfclose(p) ==
  LET list == file_descriptors[p]
  IN /\ Calls(p, 0)
     /\ \E fd \in FdArg, k \in 1..Len(list) :
          /\ IsFound(list, fd, k)
          /\ Become(Close(heap, list[k]), p, Removed(list, k))
     /\ UNCHANGED <<running, unborn, line, selecting>>

\* The process ends: nobody closes its descriptors, and nobody looks at them
\* again.  The heap is then h.
End(p, h) ==
  /\ running' = running \ {p}
  /\ Become(h, p, <<>>)
  /\ selecting' = [selecting EXCEPT ![p] = Nothing]

kdup2(p) ==
  /\ Calls(p, 1)
  /\ \E oldfd, newfd \in FdArg, k, j \in 1..Len(file_descriptors[p]) :
       LET list == file_descriptors[p]
           old == list[k]
           dup == Dup(heap, old)
           new == Descriptor(newfd, old.device, dup.data)
           isOpen == list[j].descriptor_id = newfd
           behind == IF list[j].descriptor_id > newfd THEN j ELSE j + 1
       IN /\ IsFound(list, oldfd, k)
          /\ StopsAt(list, newfd, j)
          /\ isOpen \/ MayAdd(p, 1)
          /\ old.data # NULL
          /\ heap[old.data].dependents < MaxCount
          /\ IF isOpen
             THEN Become(Close(dup.heap, list[j]), p, [list EXCEPT ![j] = new])
             ELSE Become(dup.heap, p, InsertedAt(list, behind, new))
  /\ UNCHANGED <<running, unborn, line, selecting>>

\* The parent ends when a descriptor cannot be cloned, before the child is in
\* any list.
kfork(p, c) ==
  LET list == file_descriptors[p]
  IN /\ Calls(p, 2 * Len(list))
     /\ MayAdd(c, Len(list))
     /\ c \in unborn
     /\ \E g \in Dirt(2 * Len(list)) :
          LET clone == clone_file_descriptors(heap, list, g)
          IN IF clone.ok
             THEN /\ running' = running \cup {c}
                  /\ unborn' = unborn \ {c}
                  /\ Become(clone.heap, c, clone.data)
                  /\ UNCHANGED selecting
             ELSE /\ End(p, clone.heap)
                  /\ UNCHANGED unborn
     /\ UNCHANGED line

\* A path is opened, looked at and closed.
kstat(p) ==
  /\ Calls(p, 2)
  /\ \E path \in PathArg : \E open \in Outcomes(path, {}) :
       LET e == Descriptor(0, MountOf(path).filesystem, open.data)
       IN Become(IF open.ok THEN Close(open.heap, e) ELSE open.heap,
                 p, file_descriptors[p])
  /\ UNCHANGED <<running, unborn, line, selecting>>

\* The block of a file of the ramdisk that p has open as fd.
OpenFiles(p, fd) ==
  LET list == file_descriptors[p]
  IN {list[k].data : k \in {j \in 1..Len(list) :
                             IsFound(list, fd, j) /\ list[j].device = "ramdisk"}}

kfread(p) ==
  /\ Calls(p, 0)
  /\ \E fd \in FdArg, bytes \in Bytes : \E b \in OpenFiles(p, fd) :
       LET open == heap[b]
           n == ramdisk_read(open.file, open.read_pos, bytes)
       IN /\ open.file # NULL
          /\ ~files[open.file].dir
          /\ heap' = [heap EXCEPT ![b].read_pos = @ + n]
  /\ UNCHANGED <<running, unborn, file_descriptors, line, selecting>>

kfgetdents64(p) ==
  /\ Calls(p, 0)
  /\ \E fd \in FdArg, count \in Bytes : \E b \in OpenFiles(p, fd) :
       LET open == heap[b]
           entries == ramdisk_read_dirents64(open.file, open.read_pos, count)
       IN heap' = [heap EXCEPT ![b].read_pos = @ + Len(entries)]
  /\ UNCHANGED <<running, unborn, file_descriptors, line, selecting>>

kflseek(p) ==
  /\ Calls(p, 0)
  /\ \E fd \in FdArg, offset \in Offset, whence \in {"SEEK_SET", "SEEK_CUR", "SEEK_END"} :
       \E b \in OpenFiles(p, fd) :
         LET from == CASE whence = "SEEK_SET" -> 0
                       [] whence = "SEEK_CUR" -> heap[b].read_pos
                       [] whence = "SEEK_END" -> files[heap[b].file].size
         IN /\ whence = "SEEK_END" => heap[b].file # NULL
            /\ heap' = [heap EXCEPT ![b].read_pos = (from + offset) % Word]
  /\ UNCHANGED <<running, unborn, file_descriptors, line, selecting>>

\* What stat, and fcntl with F_GETPATH, say of a file of the ramdisk that p has
\* open as fd; they change nothing.
ramdisk_stat(open) ==
  IF open.file = NULL THEN [dir |-> TRUE, size |-> root_ents]
  ELSE [dir |-> files[open.file].dir, size |-> files[open.file].size]

kfstat(p, fd) == ramdisk_stat(heap[CHOOSE b \in OpenFiles(p, fd) : TRUE])

ramdisk_fnctl(open) ==
  device_to_path("ramdisk")
    \o (IF open.file = NULL THEN <<>> ELSE <<file_name(open.file)>>)

kfcntl(p, fd) == ramdisk_fnctl(heap[CHOOSE b \in OpenFiles(p, fd) : TRUE])

\* op looks at NULL: the root of the ramdisk has no header to read, or to seek
\* from the end of, and a duplicate of the keyboard has no block, for which
\* only read and write (and close) test.
Faults(e, op) ==
  /\ op \in Functions(e.device)
  /\ IF e.device = "ramdisk"
     THEN heap[e.data].file = NULL /\ op \in {"read", "lseek"}
     ELSE e.data = NULL /\ op \notin {"read", "write"}

NullIsUsed(p) ==
  /\ Calls(p, 0)
  /\ \E fd \in FdArg, op \in {"read", "write", "lseek", "ioctl", "stat", "dup"},
        k \in 1..Len(file_descriptors[p]) :
       IsFound(file_descriptors[p], fd, k) /\ Faults(file_descriptors[p][k], op)
  /\ End(p, heap)
  /\ UNCHANGED <<unborn, line>>

-----------------------------------------------------------------------------
(* The terminal and select.                                                *)

\* A newline is typed; external to this module (module Tty).
tty_push == ~line /\ line' = TRUE /\ UNCHANGED <<running, unborn, file_descriptors, heap, selecting>>

\* Somebody reads the line.
tty_read(p) ==
  /\ Calls(p, 0)
  /\ line
  /\ \E k \in 1..Len(file_descriptors[p]) :
       LET e == file_descriptors[p][k]
       IN e.device = "devices" /\ e.data # NULL /\ heap[e.data].device = "tty"
  /\ line' = FALSE
  /\ UNCHANGED <<running, unborn, file_descriptors, heap, selecting>>

kselect(p) ==
  \E arg \in SelectArg :
    /\ Calls(p, 0)
    /\ selecting' = [selecting EXCEPT ![p] = arg]
    /\ UNCHANGED <<running, unborn, file_descriptors, heap, line>>

\* -1 when the device has no select.
tty_select(type) ==
  IF type = "SELECT_WRITE" \/ (type = "SELECT_READ" /\ line) THEN 1 ELSE 0

device_select(b, type) ==
  IF "select" \notin Functions(heap[b].device) THEN -1 ELSE tty_select(type)

\* Mutant: the walk stays at a descriptor that cannot be selected.
LooksAtStuck(p, k) ==
  LET list == file_descriptors[p]
  IN /\ k \in 1..Len(list) /\ k <= selecting[p].nfds
     /\ list[k].descriptor_id = k - 1
     /\ \A j \in 1..k : list[j].device = "devices"

\* The walk takes a descriptor for each number: the k-th is looked at when its
\* number is k - 1, which it is as long as there is no gap.
LooksAt(p, k) ==
  LET list == file_descriptors[p]
  IN /\ k \in 1..Len(list) /\ k <= selecting[p].nfds
     /\ list[k].descriptor_id = k - 1
     /\ list[k].device = "devices"

\* The types that are asked for a number.
AskedFor(arg, fd) ==
  {type \in {"SELECT_READ", "SELECT_WRITE", "SELECT_ERROR"} :
     \/ type = "SELECT_READ" /\ fd \in arg.readfds
     \/ type = "SELECT_WRITE" /\ fd \in arg.writefds
     \/ type = "SELECT_ERROR" /\ fd \in arg.errorfds}

\* The descriptors and types that a pass of p asks, and those that are ready.
Asked(p) ==
  {a \in (1..MaxOpen) \X {"SELECT_READ", "SELECT_WRITE", "SELECT_ERROR"} :
     LooksAt(p, a[1]) /\ a[2] \in AskedFor(selecting[p], a[1] - 1)}

Answer(p, a) == device_select(file_descriptors[p][a[1]].data, a[2])

\* The first descriptor that fails ends the call, and with an error it leaves
\* interrupts on; otherwise the call ends when one is ready.  What the frame
\* buffer has for select may be NULL, which is an error, or lead anywhere.
SelectPass(p) ==
  LET bad == {a[1] : a \in {x \in Asked(p) :
                \/ file_descriptors[p][x[1]].data = NULL
                \/ Answer(p, x) < 0}}
      ready == {a \in Asked(p) : Answer(p, a) = 1}
  IN /\ p \in running
     /\ selecting[p] # Nothing
     /\ \/ /\ bad # {}
           /\ LET data == file_descriptors[p][Least(bad)].data
              IN data # NULL => heap[data].device = "fb"
           /\ End(p, heap)
        \/ /\ bad # {}
           /\ file_descriptors[p][Least(bad)].data # NULL
           /\ selecting' = [selecting EXCEPT ![p] = Nothing]
           /\ UNCHANGED <<running, file_descriptors, heap>>
        \/ /\ bad = {}
           /\ ready # {}
           /\ selecting' = [selecting EXCEPT ![p] = Nothing]
           /\ UNCHANGED <<running, file_descriptors, heap>>
     /\ UNCHANGED <<unborn, line>>

\* By itself or by a signal.
process_exit(p) ==
  /\ p \in running
  /\ End(p, heap)
  /\ UNCHANGED <<unborn, line>>

-----------------------------------------------------------------------------
FilesInit ==
  /\ running = {Boot}
  /\ unborn = Process \ {Boot}
  /\ file_descriptors = [p \in Process |-> <<>>]
  /\ heap = [b \in 1..Blocks |-> Free]
  /\ line = FALSE
  /\ selecting = [p \in Process |-> Nothing]

FilesNext ==
  \/ tty_push
  \/ \E p \in Process :
       \/ kfopen(p)
       \/ kfclose(p)
       \/ kdup2(p)
       \/ \E c \in Process : kfork(p, c)
       \/ kstat(p)
       \/ kfread(p)
       \/ kfgetdents64(p)
       \/ kflseek(p)
       \/ NullIsUsed(p)
       \/ tty_read(p)
       \/ kselect(p)
       \/ SelectPass(p)
       \/ process_exit(p)

FilesSpec == FilesInit /\ [][FilesNext]_filesVars

\* A process in select is scheduled again and again (module Process).
FairSpec == FilesSpec /\ \A p \in Process : WF_filesVars(SelectPass(p))

-----------------------------------------------------------------------------
(* Properties.                                                             *)

EntryOf(d) == file_descriptors[d[1]][d[2]]
DataOf(d) == heap[EntryOf(d).data]

\* The descriptors whose device file shares the inner block b.
Sharing(b) ==
  {d \in Listed : /\ EntryOf(d).device = "devices"
                       /\ EntryOf(d).data # NULL
                       /\ DataOf(d).device \in {"fb", "tty"}
                       /\ DataOf(d).data = b}

(***************************************************************************)
(* What a descriptor needs is not freed before it: through open, dup2,     *)
(* fork and close in any order, in any process, an open file of the        *)
(* ramdisk has its block, a device file its own and that of the device     *)
(* (ramdisk.c:152-163, device.c:204-275, tty.c:243-274, video.c:817-840),  *)
(* although the count of a terminal begins anywhere at or above zero.      *)
(***************************************************************************)
Sound ==
  /\ \A d \in Listed :
       LET e == EntryOf(d)
       IN IF e.device = "ramdisk" THEN heap[e.data].kind = "file"
          ELSE e.data # NULL =>
                 /\ heap[e.data].kind = "device"
                 /\ heap[e.data].device \in {"fb", "tty"} =>
                      heap[heap[e.data].data].kind = heap[e.data].device
                 /\ \A other \in Listed \ {d} : EntryOf(other).data # e.data
  /\ \A b \in 1..Blocks :
       /\ heap[b].kind = "fb" => heap[b].dependents = Cardinality(Sharing(b))
       /\ heap[b].kind = "tty" => heap[b].dependents >= Cardinality(Sharing(b))

Meant(asked) ==
  IF asked = <<>> THEN NULL ELSE CHOOSE c \in Named(asked) : TRUE

\* From where an open file is read on, bytes are of that file.
ReadsOwn(open, bytes) ==
  LET n == ramdisk_read(open.file, open.read_pos, bytes)
  IN n > 0 => open.read_pos + n <= files[open.file].size

\* From where a directory is listed on, its next entries come, unless there
\* are none or the name of the first does not fit.
ListsNext(open, count) ==
  LET all == Children(open.file)
      entries == ramdisk_read_dirents64(open.file, open.read_pos, count)
      n == Len(entries)
  IN /\ n > 0 => entries = SubSeq(all, open.read_pos + 1, open.read_pos + n)
     /\ n = 0 => \/ open.read_pos >= Len(all)
                 \/ DIRENT + NameLength(all[open.read_pos + 1]) >= count

\* fcntl gives the name of a file without its directory.
IsNamedBack(open, path) ==
  Len(open.asked) <= 1 => ramdisk_get_path_header(Below(path)) = open.file

(***************************************************************************)
(* The image is the tree that it was built from (ramdisk.py): a path that  *)
(* names a file or a directory opens it; wherever its position is, what is *)
(* read are bytes of that file, and all of them in one call by exec or of  *)
(* the length that stat gives; a directory lists its own entries one by    *)
(* one; and of what is in the root, the path that fcntl gives leads back   *)
(* to it (ramdisk.c:18-71, 165-318, filesystem.c:592-633).                 *)
(***************************************************************************)
IsTree ==
  \A p \in running, fd \in FdArg : \A b \in OpenFiles(p, fd) :
    LET open == heap[b]
        length == file_size_internal(device_to_path("ramdisk") \o open.asked)
        stat == kfstat(p, fd)
    IN open.asked = <<>> \/ Named(open.asked) # {} =>
         /\ open.file = Meant(open.asked)
         /\ IsNamedBack(open, kfcntl(p, fd))
         /\ stat.dir = IsDirectory(open.asked)
         /\ IF ~IsDirectory(open.asked)
            THEN /\ \A bytes \in Bytes : ReadsOwn(open, bytes)
                 /\ \A bytes \in {length, stat.size} :
                      ramdisk_read(open.file, 0, bytes) = SizeOf(open.asked)
            ELSE IsListable(open.file) =>
                   \A count \in Bytes : ListsNext(open, count)

\* p waits for a line, and every number below that of its terminal is in use.
WaitsForLine(p) ==
  /\ selecting[p] # Nothing
  /\ \E k \in 1..Len(file_descriptors[p]) :
       /\ k <= selecting[p].nfds
       /\ k - 1 \in selecting[p].readfds
       /\ \A j \in 1..k : file_descriptors[p][j].descriptor_id = j - 1
       /\ EntryOf(<<p, k>>).device = "devices"
       /\ EntryOf(<<p, k>>).data # NULL
       /\ DataOf(<<p, k>>).device = "tty"

(***************************************************************************)
(* A process that selects a terminal for reading comes back once a line is *)
(* there and stays there, whatever else it has open below it               *)
(* (filesystem.c:713-762).                                                 *)
(***************************************************************************)
SelectReturns ==
  \A p \in Process : WaitsForLine(p) ~> (selecting[p] = Nothing \/ ~line)

(***************************************************************************)
(* "Also note file descriptors are in order, but there may be gaps"        *)
(* (filesystem.c:710): the same with a gap below.  The walk never gets     *)
(* there (FilesGap.cfg).                                                   *)
(***************************************************************************)
WaitsWithGap(p) ==
  /\ selecting[p] # Nothing
  /\ \E k \in 1..Len(file_descriptors[p]) :
       /\ file_descriptors[p][k].descriptor_id \in selecting[p].readfds
       /\ EntryOf(<<p, k>>).device = "devices"
       /\ EntryOf(<<p, k>>).data # NULL
       /\ DataOf(<<p, k>>).device = "tty"

SelectSkipsGaps ==
  \A p \in Process : WaitsWithGap(p) ~> (selecting[p] = Nothing \/ ~line)

(***************************************************************************)
(* A listing stays in the buffer it is given (filesystem.c:371: "the       *)
(* number of bytes available").  It does not (FilesListing.cfg).           *)
(***************************************************************************)
ListingFits ==
  \A b \in 1..Blocks : heap[b].kind = "file" => \A count \in Bytes :
    bytes_read(ramdisk_read_dirents64(heap[b].file, heap[b].read_pos, count)) <= count
=============================================================================

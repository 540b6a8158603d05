----------------------------- MODULE FileTable -----------------------------
(***************************************************************************)
(* The descriptor lists of processes (src/kernel/filesystem.c) and the     *)
(* reference counts of what they point to: a pipe_t counts its readers and *)
(* its writers (pipe.c), a ramdisk_file_entry_t its dependents             *)
(* (ramdisk.c).                                                            *)
(*                                                                         *)
(* System calls run with interrupts off, so a call is one action.  What is *)
(* read and written through a descriptor is the business of Pipe; calls    *)
(* that only look a descriptor up, or open one and close it again (kstat), *)
(* change nothing here.                                                    *)
(***************************************************************************)
EXTENDS Descriptors, Integers, Sequences, FiniteSets

CONSTANTS
  Process,   \* the processes that may ever exist
  Boot,      \* the first of them
  Obj,       \* the heap blocks a pipe_t or a ramdisk_file_entry_t may be
  FdArg,     \* the numbers programs pass to close and dup2
  IdBound,   \* bound on the numbers add_descriptor gives
  MaxOpen    \* bound on the length of a list

ASSUME FileTableAssumption ==
  /\ Boot \in Process
  /\ MaxFd \in Nat /\ MaxOpen \in Nat /\ IdBound \in Int
  /\ FdArg \subseteq (-MaxFd - 1)..MaxFd

VARIABLES
  running,      \* the processes that have been created and have not exited
  unborn,       \* those that have not been created
  file_descriptors,  \* per process, its list; exit leaves it as it is
  objects,      \* the blocks in use
  dependents,   \* per block and device, the count its device keeps there
  unlisted      \* the pipes whose writing end never got into a list

vars == <<running, unborn, file_descriptors, objects, dependents, unlisted>>

\* The read and the write end of a pipe have a device each.
PipeDevice == {"pipe_device_in", "pipe_device_out"}
Device == PipeDevice \cup {"ramdisk_device"}

Int32 == (-MaxFd - 1)..MaxFd
Descriptor == [descriptor_id : Int32, device : Device, data : Obj]

TypeOK ==
  /\ running \subseteq Process
  /\ unborn \subseteq Process \ running
  /\ file_descriptors \in [Process -> Seq(Descriptor)]
  /\ objects \subseteq Obj
  /\ dependents \in [Obj -> [Device -> Nat]]
  /\ unlisted \subseteq objects

Init ==
  /\ running = {Boot}
  /\ unborn = Process \ {Boot}
  /\ file_descriptors = [p \in Process |-> <<>>]
  /\ objects = {}
  /\ dependents = [o \in Obj |-> [d \in Device |-> 0]]
  /\ unlisted = {}

-----------------------------------------------------------------------------
(* The lists.                                                              *)

Fresh(id, d, o) == [descriptor_id |-> id, device |-> d, data |-> o]

add_descriptor(list, d, o) ==
  InsertedAt(list, Place(list) + 1, Fresh(NextId(list), d, o))

\* The bounds of the model.
MayAdd(list) == Len(list) < MaxOpen /\ NextId(list) <= IdBound

SetList(p, list) ==
  file_descriptors' = [file_descriptors EXCEPT ![p] = list]

-----------------------------------------------------------------------------
(* The counts.                                                             *)

\* Mutant: a duplicate is not counted.
DupCountForgets(deps, e) == deps

\* device->dup
DupCount(deps, e) == [deps EXCEPT ![e.data][e.device] = @ + 1]

\* Mutant: a pipe is freed with its last reader, or with its last writer.
CloseCountOneEnd(deps, used, e) ==
  LET left == [deps EXCEPT ![e.data][e.device] = @ - 1]
  IN /\ dependents' = left
     /\ objects' = IF left[e.data][e.device] = 0
                   THEN used \ {e.data} ELSE used

\* device->close: the block is freed with its last dependent, a pipe with the
\* last one of both ends.
CloseCount(deps, used, e) ==
  LET left == [deps EXCEPT ![e.data][e.device] = @ - 1]
  IN /\ dependents' = left
     /\ objects' = IF \A d \in Device : left[e.data][d] = 0
                   THEN used \ {e.data} ELSE used

-----------------------------------------------------------------------------
(* System calls.                                                           *)

sameProcesses == UNCHANGED <<running, unborn, unlisted>>

\* A file of the ramdisk.  A kexecv that fails to read what it has opened
\* (a directory) returns without closing it, and leaves the same behind.
kfopen(p) ==
  \E o \in Obj \ objects :
    /\ MayAdd(file_descriptors[p])
    /\ SetList(p, add_descriptor(file_descriptors[p], "ramdisk_device", o))
    /\ objects' = objects \cup {o}
    /\ dependents' = [dependents EXCEPT ![o]["ramdisk_device"] = 1]
    /\ sameProcesses

\* A pipe_t with a reader and a writer.
NewPipe(o) ==
  /\ objects' = objects \cup {o}
  /\ dependents' = [dependents EXCEPT ![o] =
                      [d \in Device |-> IF d \in PipeDevice THEN 1 ELSE 0]]

kpipe(p) ==
  \E o \in Obj \ objects :
    LET list == file_descriptors[p]
        fd1 == add_descriptor(list, "pipe_device_out", o)
    IN /\ MayAdd(list)
       /\ MayAdd(fd1)
       /\ SetList(p, add_descriptor(fd1, "pipe_device_in", o))
       /\ NewPipe(o)
       /\ sameProcesses

\* The store to pipefd[0] faults: the process ends, with one end in its list.
kpipe_fault(p) ==
  \E o \in Obj \ objects :
    LET list == file_descriptors[p]
    IN /\ MayAdd(list)
       /\ SetList(p, add_descriptor(list, "pipe_device_out", o))
       /\ NewPipe(o)
       /\ unlisted' = unlisted \cup {o}
       /\ running' = running \ {p}
       /\ UNCHANGED unborn

kfclose(p, fd) ==
  \E k \in 1..Len(file_descriptors[p]) :
    /\ IsFound(file_descriptors[p], fd, k)
    /\ CloseCount(dependents, objects, file_descriptors[p][k])
    /\ SetList(p, Removed(file_descriptors[p], k))
    /\ sameProcesses

\* Mutant: what newfd was is replaced, but not closed.
Dup2PlaceForgetsClose(p, fd, deps, j) ==
  LET list == file_descriptors[p]
      newfd == fd.descriptor_id
  IN /\ dependents' = deps
     /\ UNCHANGED objects
     /\ SetList(p, IF list[j].descriptor_id = newfd
                   THEN [list EXCEPT ![j] = fd]
                   ELSE InsertedAt(list, IF list[j].descriptor_id > newfd
                                         THEN j ELSE j + 1, fd))

Dup2Place(p, fd, deps, j) ==
  LET list == file_descriptors[p]
      newfd == fd.descriptor_id
  IN \/ /\ list[j].descriptor_id = newfd
        /\ CloseCount(deps, objects, list[j])
        /\ SetList(p, [list EXCEPT ![j] = fd])
     \/ /\ list[j].descriptor_id # newfd
        /\ Len(list) < MaxOpen
        /\ dependents' = deps
        /\ UNCHANGED objects
        /\ SetList(p, InsertedAt(list, IF list[j].descriptor_id > newfd
                                       THEN j ELSE j + 1, fd))

\* The duplicate is counted first.
kdup2(p, oldfd, newfd) ==
  \E k, j \in 1..Len(file_descriptors[p]) :
    LET list == file_descriptors[p]
    IN /\ IsFound(list, oldfd, k)
       /\ StopsAt(list, newfd, j)
       /\ Dup2Place(p, Fresh(newfd, list[k].device, list[k].data),
                    DupCount(dependents, list[k]), j)
       /\ sameProcesses

\* How many descriptors of list are of device d and have data o.
CountIn(list, d, o) ==
  Cardinality({k \in 1..Len(list) : list[k].device = d /\ list[k].data = o})

\* device->clone for every descriptor of list.  The block of a pipe is shared;
\* that of a file is copied, with its count, to the block new[k].
CloneCount(list, new) ==
  LET copies == {k \in 1..Len(list) : list[k].device = "ramdisk_device"}
  IN /\ objects' = objects \cup {new[k] : k \in copies}
     /\ dependents' =
          [o \in Obj |-> [d \in Device |->
             IF d \in PipeDevice
             THEN dependents[o][d] + CountIn(list, d, o)
             ELSE IF \E k \in copies : new[k] = o
                  THEN dependents[list[CHOOSE k \in copies : new[k] = o].data][d]
                  ELSE dependents[o][d]]]

\* clone_file_descriptors, as kfork calls it.
kfork(p, c) ==
  LET list == file_descriptors[p]
  IN /\ c \in unborn
     /\ running' = running \cup {c}
     /\ unborn' = unborn \ {c}
     /\ UNCHANGED unlisted
     /\ \E new \in [1..Len(list) -> Obj] :
          /\ \A k \in 1..Len(list) :
               IF list[k].device = "ramdisk_device"
               THEN /\ new[k] \notin objects
                    /\ \A j \in 1..(k - 1) :
                         list[j].device = "ramdisk_device" => new[j] # new[k]
               ELSE new[k] = list[k].data
          /\ CloneCount(list, new)
          /\ SetList(c, [k \in 1..Len(list) |-> [list[k] EXCEPT !.data = new[k]]])

\* process_exit frees no descriptor and closes none.
process_exit(p) ==
  /\ running' = running \ {p}
  /\ UNCHANGED <<unborn, file_descriptors, objects, dependents, unlisted>>

Next ==
  \E p \in running :
    \/ kfopen(p)
    \/ kpipe(p)
    \/ kpipe_fault(p)
    \/ \E fd \in FdArg : kfclose(p, fd)
    \/ \E oldfd, newfd \in FdArg : kdup2(p, oldfd, newfd)
    \/ \E c \in Process : kfork(p, c)
    \/ process_exit(p)

Spec == Init /\ [][Next]_vars

-----------------------------------------------------------------------------
(* Properties.                                                             *)

(***************************************************************************)
(* "File descriptors are in order, but there may be gaps"                  *)
(* (filesystem.c:710): strictly, so a number has one descriptor.           *)
(***************************************************************************)
DescriptorsInOrder ==
  \A p \in Process :
    LET list == file_descriptors[p]
    IN \A j, k \in 1..Len(list) :
         j < k => list[j].descriptor_id < list[k].descriptor_id

\* The descriptors, of processes that have exited too, of device d and data o.
References(d, o) ==
  {r \in Process \X (1..MaxOpen) :
     /\ r[2] <= Len(file_descriptors[r[1]])
     /\ file_descriptors[r[1]][r[2]].device = d
     /\ file_descriptors[r[1]][r[2]].data = o}

(***************************************************************************)
(* A pipe counts exactly the descriptors of its two ends, through dup2,    *)
(* fork and close in any order and in any process (pipe.c:91-146), and the *)
(* writing end of a pipe that was never listed: it is freed with the last  *)
(* one and not before.                                                     *)
(***************************************************************************)
PipeCounts ==
  \A o \in Obj, d \in PipeDevice :
    dependents[o][d] =
      Cardinality(References(d, o))
        + (IF d = "pipe_device_in" /\ o \in unlisted THEN 1 ELSE 0)

(***************************************************************************)
(* No descriptor, of a process that runs or of one that has exited, points *)
(* to a block that has been freed: the counts of pipes and of ramdisk      *)
(* files never fall short (pipe.c:104, ramdisk.c:156).                     *)
(***************************************************************************)
NoDangling ==
  \A p \in Process : \A k \in 1..Len(file_descriptors[p]) :
    file_descriptors[p][k].data \in objects

(***************************************************************************)
(* So a block is freed with its last descriptor, and not before.           *)
(***************************************************************************)
CountsSound == PipeCounts /\ NoDangling

\* A list as a function from numbers to what they name.
AsTable(list) ==
  [id \in {list[k].descriptor_id : k \in DOMAIN list} |->
     LET d == list[CHOOSE k \in DOMAIN list : list[k].descriptor_id = id]
     IN  [device |-> d.device, data |-> d.data]]

\* The tables of the processes.
Tables == [p \in Process |-> AsTable(file_descriptors[p])]

\* A list counts on from what programs pass, or from 0.
Number == {id \in Int32 : id <= IdBound /\ \E fd \in FdArg \cup {0} : fd <= id}

Table == INSTANCE FdTable WITH Fd <- Number, table <- Tables

(***************************************************************************)
(* The lists are a table from numbers to open files: open and pipe take    *)
(* numbers that are free, dup2 changes the one number it names, fork gives *)
(* the child the same numbers (filesystem.c:217-242, 253-313, 429-480,     *)
(* 561-581).                                                               *)
(***************************************************************************)
IsFdTable == Table!TableSpec
=============================================================================

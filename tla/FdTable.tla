------------------------------ MODULE FdTable ------------------------------
(***************************************************************************)
(* What the descriptors of a process are to its program: a table from      *)
(* small numbers to open files, changed by open, pipe, close and dup2 and  *)
(* copied by fork.                                                         *)
(***************************************************************************)
EXTENDS Integers

CONSTANTS
  Process,   \* processes
  Boot,      \* the first one
  Obj,       \* open files and pipes
  Fd         \* descriptor numbers

VARIABLES
  running,   \* the processes that have been created and have not exited
  unborn,    \* those that have not been created
  table      \* per process, its open descriptors

tableVars == <<running, unborn, table>>

OpenFile == [device : {"pipe_device_in", "pipe_device_out", "ramdisk_device"},
             data : Obj]

TableInit ==
  /\ running = {Boot}
  /\ unborn = Process \ {Boot}
  /\ table = [p \in Process |-> [id \in {} |-> {}]]

\* f with f[x] = y.
Bind(f, x, y) == [i \in DOMAIN f \cup {x} |-> IF i = x THEN y ELSE f[i]]
Without(f, x) == [i \in DOMAIN f \ {x} |-> f[i]]

Change(p, f) == UNCHANGED <<running, unborn>> /\ table' = [table EXCEPT ![p] = f]

\* A number that is not in use.
Open(p) ==
  \E id \in Fd \ DOMAIN table[p], o \in Obj :
    Change(p, Bind(table[p], id, [device |-> "ramdisk_device", data |-> o]))

\* Two of them, the reading end first.
Pipe(p) ==
  \E r, w \in Fd \ DOMAIN table[p], o \in Obj :
    /\ r < w
    /\ Change(p, Bind(Bind(table[p], r, [device |-> "pipe_device_out", data |-> o]),
                      w, [device |-> "pipe_device_in", data |-> o]))

\* A process may end in the middle of that.
PipeEnds(p) ==
  /\ running' = running \ {p}
  /\ UNCHANGED unborn
  /\ \E r \in Fd \ DOMAIN table[p], o \in Obj :
       table' = [table EXCEPT ![p] =
         Bind(table[p], r, [device |-> "pipe_device_out", data |-> o])]

Close(p, id) ==
  /\ id \in DOMAIN table[p]
  /\ Change(p, Without(table[p], id))

\* Whatever new was is closed.
Dup2(p, old, new) ==
  /\ old \in DOMAIN table[p]
  /\ Change(p, Bind(table[p], new, table[p][old]))

\* The child has the same numbers; a pipe is shared, a file is opened anew.
Fork(p, c) ==
  /\ c \in unborn
  /\ running' = running \cup {c}
  /\ unborn' = unborn \ {c}
  /\ \E new \in [DOMAIN table[p] -> Obj] :
       table' = [table EXCEPT ![c] =
         [id \in DOMAIN table[p] |->
            IF table[p][id].device = "ramdisk_device"
            THEN [device |-> "ramdisk_device", data |-> new[id]]
            ELSE table[p][id]]]

Exit(p) == running' = running \ {p} /\ UNCHANGED <<unborn, table>>

TableNext ==
  \E p \in running :
    \/ \E id \in Fd : Close(p, id)
    \/ \E old \in DOMAIN table[p], new \in Fd : Dup2(p, old, new)
    \/ Open(p)
    \/ Pipe(p)
    \/ PipeEnds(p)
    \/ \E c \in Process : Fork(p, c)
    \/ Exit(p)

TableSpec == TableInit /\ [][TableNext]_tableVars
=============================================================================

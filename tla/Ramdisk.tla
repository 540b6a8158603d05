------------------------------ MODULE Ramdisk ------------------------------
(***************************************************************************)
(* The image of the ramdisk, as src/buildutils/ramdisk.py builds it from a *)
(* directory, and how src/arch/x86_64/c/interface/ramdisk.c finds a file   *)
(* in it, reads it and lists a directory.                                  *)
(*                                                                         *)
(* The image is a row of headers, the entries of a directory right behind  *)
(* its own, and the data of the files behind them.  A header's address is  *)
(* its place in the row, a path the sequence of its parts.                 *)
(***************************************************************************)
EXTENDS Integers, Sequences, FiniteSets, FiniteSetsExt, Functions

CONSTANTS
  listdir,    \* the names in every directory, a path, in the order they come in
  getsize,    \* the size of every file
  strlen,     \* the length of every name
  DIRENT,     \* sizeof(struct dirent64)
  Word        \* the values of a uint64_t are 0..Word-1

ASSUME RamdiskAssumption ==
  /\ <<>> \in DOMAIN listdir /\ listdir[<<>>] # <<>>
  /\ DIRENT \in Nat /\ Word \in Nat \ {0}

NULL == 0

\* Depth first; the size of a directory is the number of headers below it.
order_recursive[path \in DOMAIN listdir] ==
  LET items == listdir[path]
      Headers(item) ==
        IF item \in DOMAIN listdir
        THEN <<[path |-> item, dir |-> TRUE, size |-> Len(order_recursive[item])]>>
               \o order_recursive[item]
        ELSE <<[path |-> item, dir |-> FALSE, size |-> getsize[item]]>>
      first[n \in 0..Len(items)] ==
        IF n = 0 THEN <<>> ELSE first[n - 1] \o Headers(Append(path, items[n]))
  IN first[Len(items)]

files == order_recursive[<<>>]
root_ents == Len(listdir[<<>>])

file_name(c) == files[c].path[Len(files[c].path)]

\* file_data: where the data of a file begins.
file_data(c) ==
  MapThenSumSet(LAMBDA j : IF files[j].dir THEN 0 ELSE files[j].size, 1..(c - 1))

\* The header behind c and what is below it.  The data behind the last header
\* is taken not to look like one, and nothing is behind that.
Behind(c) ==
  IF c > Len(files) THEN c
  ELSE IF files[c].dir THEN c + files[c].size + 1 ELSE c + 1

\* A file is taken for what is asked as soon as its name is the part that is
\* looked for, whatever parts follow.
ramdisk_get_path_header(path) ==
  LET Found[c \in 1..(Len(files) + 1), i \in 1..Len(path)] ==
        IF c > Len(files) THEN NULL
        ELSE IF file_name(c) # path[i] THEN Found[Behind(c), i]
        ELSE IF files[c].dir /\ i < Len(path) THEN Found[c + 1, i + 1]
        ELSE c
  IN IF path = <<>> THEN NULL ELSE Found[1, 1]

ramdisk_open_fails(path, flags) ==
  \/ "O_WRONLY" \in flags
  \/ /\ path # <<>>
     /\ LET file == ramdisk_get_path_header(path)
        IN file = NULL \/ (~files[file].dir /\ "O_DIRECTORY" \in flags)

\* The size of a directory is given as well; -1 stands for -ENOENT.
file_size(path) ==
  LET file == ramdisk_get_path_header(path)
  IN IF file = NULL THEN -1 ELSE files[file].size

\* How many bytes are copied.
ramdisk_read(file, read_pos, bytes_to_read) ==
  IF read_pos >= files[file].size THEN 0
  ELSE IF (read_pos + bytes_to_read) % Word > files[file].size
       THEN files[file].size - read_pos
       ELSE bytes_to_read

\* Mutant: a position counts headers, not entries.
EntryByHeader(first, n) == first + n

\* The entry that n entries lie before, where a directory begins at first.
Entry(first, n) ==
  LET Nth[k \in 0..n] == IF k = 0 THEN first ELSE Behind(Nth[k - 1])
  IN Nth[n]

NameLength(c) == IF c > Len(files) THEN 0 ELSE strlen[file_name(c)]

\* What is listed into a buffer of count bytes from read_pos on.  The room
\* that is left is taken to shrink by DIRENT for every entry; an entry takes
\* its name as well.
ramdisk_read_dirents64(file, read_pos, count) ==
  LET first == IF file = NULL THEN 1 ELSE file + 1
      max_ents == IF file = NULL THEN root_ents ELSE files[file].size
      Fits(k) ==
        DIRENT + NameLength(Entry(first, read_pos + k)) + 1 <= count - DIRENT * k
      left == IF read_pos >= max_ents THEN 0 ELSE max_ents - read_pos
      entries_read == Max({n \in 0..left : \A k \in 0..(n - 1) : Fits(k)})
  IN [k \in 1..entries_read |-> Entry(first, read_pos + k - 1)]

\* Where it writes up to, in the buffer.
bytes_read(entries) ==
  MapThenSumSet(LAMBDA k : DIRENT + NameLength(entries[k]) + 1, DOMAIN entries)

-----------------------------------------------------------------------------
(* What the image stands for.                                              *)

\* The header of path, if there is one.
Named(path) == {c \in 1..Len(files) : files[c].path = path}

IsDirectory(path) == path = <<>> \/ \E c \in Named(path) : files[c].dir

SizeOf(path) == files[CHOOSE c \in Named(path) : TRUE].size

\* The entries of a directory, in their order.
Children(file) ==
  LET path == IF file = NULL THEN <<>> ELSE files[file].path
      below == {c \in 1..Len(files) :
                  /\ Len(files[c].path) = Len(path) + 1
                  /\ SubSeq(files[c].path, 1, Len(path)) = path}
      Nth[n \in 1..Cardinality(below)] ==
        Min({c \in below : \A k \in 1..(n - 1) : Nth[k] < c})
  IN Nth

\* A directory that holds no directory, or the root, whose header counts its
\* entries alone.
IsListable(file) ==
  file = NULL \/ (files[file].dir /\ \A c \in Range(Children(file)) : ~files[c].dir)
=============================================================================

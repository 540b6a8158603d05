---------------------------- MODULE Descriptors ----------------------------
(***************************************************************************)
(* A process's list of descriptors (src/kernel/filesystem.c): where        *)
(* add_descriptor and dup2 put a descriptor, and which one a search finds. *)
(* A descriptor is a record with a descriptor_id.                          *)
(***************************************************************************)
EXTENDS Integers, Sequences

CONSTANT MaxFd   \* the largest int

\* An int that is incremented.
Incremented(i) == IF i = MaxFd THEN -MaxFd - 1 ELSE i + 1

\* Mutant: >= instead of >.
GapAfterOrNone(list, k) ==
  list[k + 1].descriptor_id >= Incremented(list[k].descriptor_id)

\* There is a gap after the k-th descriptor of list.
GapAfter(list, k) ==
  list[k + 1].descriptor_id > Incremented(list[k].descriptor_id)

\* list with e in its k-th place.
InsertedAt(list, k, e) ==
  SubSeq(list, 1, k - 1) \o <<e>> \o SubSeq(list, k, Len(list))

Least(S) == CHOOSE k \in S : \A j \in S : k <= j

\* add_descriptor stops at the first descriptor with a gap after it, or at the
\* last one (0 in an empty list), and gives the next number.
Place(list) ==
  LET gaps == {k \in 1..(Len(list) - 1) : GapAfter(list, k)}
  IN IF gaps = {} THEN Len(list) ELSE Least(gaps)

NextId(list) ==
  IF list = <<>> THEN 0 ELSE Incremented(list[Place(list)].descriptor_id)

\* The k-th descriptor is the one a search for id finds.
IsFound(list, id, k) ==
  /\ k \in 1..Len(list)
  /\ list[k].descriptor_id = id
  /\ \A j \in 1..(k - 1) : list[j].descriptor_id # id

\* Mutant: the rest of the list is lost.
RemovedWithRest(list, k) == SubSeq(list, 1, k - 1)

Removed(list, k) ==
  SubSeq(list, 1, k - 1) \o SubSeq(list, k + 1, Len(list))

\* dup2 searches the list for the place of newfd: a descriptor of that number,
\* which is closed and replaced; the first one that is greater, which gets the
\* duplicate in front of it; or the last one, which gets it behind.
StopsAt(list, newfd, j) ==
  /\ j \in 1..Len(list)
  /\ list[j].descriptor_id >= newfd \/ j = Len(list)
  /\ \A i \in 1..(j - 1) : list[i].descriptor_id < newfd
=============================================================================

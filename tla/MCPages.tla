------------------------------ MODULE MCPages ------------------------------
(* Pages on a machine of a dozen pages, for TLC. *)
EXTENDS Pages, TLC

CONSTANTS p1, p2

S(vaddr, memsz) == [vaddr |-> vaddr, memsz |-> memsz]

\* One page, and a byte of it is left.
MCInit == [valid |-> TRUE, segments |-> <<S(0, 1)>>]

\* A file that is no program; one whose segments share a page, and the second
\* begins in the middle of it and ends in the next; one that is linked for the
\* kernel half, behind the heap, and for the heap itself.
MCProgram ==
  {[valid |-> FALSE, segments |-> <<>>],
   [valid |-> TRUE, segments |-> <<S(0, 1), S(1, 2)>>],
   [valid |-> TRUE, segments |-> <<S(12, 1), S(8, 1)>>]}

MCSymmetry == Permutations({p1, p2})
=============================================================================

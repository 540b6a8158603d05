---------------------------- MODULE MCFileTable ----------------------------
(* FileTable with a few processes, blocks and numbers, for TLC. *)
EXTENDS FileTable, TLC

CONSTANTS p1, p2, o1, o2, o3

MCSymmetry == Permutations({o1, o2, o3})
=============================================================================

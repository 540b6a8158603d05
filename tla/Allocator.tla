----------------------------- MODULE Allocator -----------------------------
(***************************************************************************)
(* What the kernel's heap promises: a block that is given out lies apart   *)
(* from every block that is held, and stays so until it is given back.     *)
(***************************************************************************)
EXTENDS Naturals

CONSTANTS
  Address,   \* where blocks may lie
  Length     \* how long they may be

VARIABLE live   \* the blocks that are held: [ptr, size, aligned, kind]

Apart(b, c) == b.ptr + b.size <= c.ptr \/ c.ptr + c.size <= b.ptr

Blocks == [ptr : Address, size : Length, aligned : BOOLEAN, kind : {"program", "table"}]

AllocatorInit == live = {}

Alloc == \E b \in live' \ live :
           /\ b \in Blocks
           /\ \A c \in live : Apart(b, c)
           /\ live' = live \cup {b}

Free == \E b \in live : live' = live \ {b}

\* A block for another, both held while one is copied to the other.
Realloc == \E b \in live, c \in live' \ live :
             /\ c \in Blocks
             /\ \A d \in live : Apart(c, d)
             /\ live' = (live \ {b}) \cup {c}

AllocatorNext == Alloc \/ Free \/ Realloc

AllocatorSpec == AllocatorInit /\ [][AllocatorNext]_live
=============================================================================

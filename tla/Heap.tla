-------------------------------- MODULE Heap --------------------------------
(***************************************************************************)
(* The kernel's heap (src/arch/x86_64/c/hardware/memory.c): blocks behind  *)
(* headers that are linked in both directions, first fit, split on         *)
(* allocation and merged on release.  When nothing fits the heap grows at  *)
(* its end; that takes a page table, which was allocated ahead, and the    *)
(* next one is then allocated from the heap that has just grown.           *)
(*                                                                         *)
(* The three levels of tables above the page tables are allocated ahead in *)
(* the same way, once in 512 expansions at most, and are left out.         *)
(***************************************************************************)
EXTENDS Integers, Sequences, FiniteSets

CONSTANTS
  HEADER,      \* sizeof(heap_header_t)
  ALIGN,       \* a page
  Kheap,       \* where the heap begins
  INIT_HEAP,   \* its first size
  EXPAND,      \* what an expansion adds
  TABLE,       \* sizeof(page_table_t)
  Size,        \* what programs ask kmalloc for
  SizeA,       \* what programs ask kmalloc_a for
  Growth,      \* by how much krealloc makes a block longer
  MaxEnd,      \* bound: the physical memory ends there
  MaxLive      \* bound on the blocks that programs hold

ASSUME HeapAssumption ==
  /\ HEADER \in Nat \ {0} /\ ALIGN \in Nat \ {0} /\ TABLE \in Nat \ {0}
  /\ Kheap \in Nat \ {0} /\ Kheap % ALIGN = 0
  /\ INIT_HEAP \in Nat /\ INIT_HEAP > HEADER + ALIGN + TABLE
  /\ EXPAND \in Nat /\ EXPAND > HEADER + ALIGN + TABLE
  /\ Size \subseteq Nat /\ SizeA \subseteq Nat \ {0}
  /\ Growth \subseteq Nat /\ \A g \in Growth : g >= HEADER
  /\ MaxEnd \in Nat /\ MaxLive \in Nat

VARIABLES
  headers,       \* the headers in the list, by address
  magic,         \* the addresses at which HEAP_MAGIC stands
  kheap_end,
  prealloc_pt,   \* the page table for the next expansion is there
  calls,         \* the calls of kmalloc that have not returned, innermost first
  live,          \* the blocks that programs and page tables hold
  trouble        \* why the kernel has stopped, or "none"

vars == <<headers, magic, kheap_end, prealloc_pt, calls, live, trouble>>

NULL == 0

\* For whom a call is; a program's call of krealloc carries its old block.
Call(size, aligned, for, old) ==
  [size |-> size, aligned |-> aligned, for |-> for, old |-> old]

\* Mutant: the page table is not kept for the next expansion.
TableCallLost == Call(TABLE, TRUE, "program", NULL)

TableCall == Call(TABLE, TRUE, "table", NULL)

Header == [length : Nat, free : BOOLEAN, next : Nat, prev : Nat]

TypeOK ==
  /\ kheap_end \in Nat
  /\ DOMAIN headers \subseteq Kheap..kheap_end
  /\ \A a \in DOMAIN headers : headers[a] \in Header
  /\ DOMAIN headers \subseteq magic
  /\ prealloc_pt \in BOOLEAN
  /\ trouble \in {"none", "memory", "prealloc", "far", "astray", "overrun"}
  /\ \A b \in live : b.aligned => b.ptr % ALIGN = 0

Init ==
  /\ headers = [a \in {Kheap} |-> [length |-> INIT_HEAP - 1 - HEADER, free |-> TRUE,
                                   next |-> NULL, prev |-> NULL]]
  /\ magic = {Kheap}
  /\ kheap_end = Kheap + INIT_HEAP - 1
  /\ prealloc_pt = FALSE
  /\ calls = <<TableCall>>
  /\ live = {}
  /\ trouble = "none"

-----------------------------------------------------------------------------
(* The list of headers.                                                    *)

End(hs, a) == a + HEADER + hs[a].length

\* A header at n, inside the block of a; it takes the rest of that block.
Split(hs, a, n, free) ==
  [x \in DOMAIN hs \cup {n} |->
     CASE x = n -> [length |-> End(hs, a) - n - HEADER, free |-> free,
                    next |-> hs[a].next, prev |-> a]
       [] x = a -> [hs[a] EXCEPT !.next = n, !.length = n - a - HEADER]
       [] x = hs[a].next -> [hs[x] EXCEPT !.prev = n]
       [] OTHER -> hs[x]]

\* Mutant: the header behind the one that goes keeps its prev.
MergedPrevKept(hs, a) ==
  LET n == hs[a].next
  IN [x \in DOMAIN hs \ {n} |->
        IF x = a
        THEN [hs[a] EXCEPT !.next = hs[n].next, !.length = @ + HEADER + hs[n].length]
        ELSE hs[x]]

\* The header behind a goes; its block becomes part of that of a.
Merged(hs, a) ==
  LET n == hs[a].next
  IN [x \in DOMAIN hs \ {n} |->
        CASE x = a -> [hs[a] EXCEPT !.next = hs[n].next,
                                    !.length = @ + HEADER + hs[n].length]
          [] x = hs[n].next -> [hs[x] EXCEPT !.prev = a]
          [] OTHER -> hs[x]]

\* Headers that are new are written over whatever was there.
MagicOf(hs) ==
  LET new == DOMAIN hs \ DOMAIN headers
  IN (magic \ UNION {n..(n + HEADER - 1) : n \in new}) \cup new

-----------------------------------------------------------------------------
(* kmalloc                                                                 *)

AlignUp(x) == ((x + ALIGN - 1) \div ALIGN) * ALIGN

\* Where a block behind a would begin.
Begin(a, aligned) == IF aligned THEN AlignUp(a + HEADER) ELSE a + HEADER

\* Mutant: the space lost to the alignment is forgotten.
FitsUnaligned(a, size, aligned) == headers[a].free /\ headers[a].length >= size

\* Mutant: blocks that are in use are taken.
FitsUsed(a, size, aligned) == Begin(a, aligned) + size <= End(headers, a)

Fits(a, size, aligned) ==
  headers[a].free /\ Begin(a, aligned) + size <= End(headers, a)

\* The list is in the order of the addresses (Tiling), and is searched from
\* its head.
FirstFit(a, size, aligned) ==
  /\ Fits(a, size, aligned)
  /\ \A b \in DOMAIN headers : b < a => ~Fits(b, size, aligned)

\* There is room for one more header and a block before p.
RoomBefore(a, p) == p - a > 2 * HEADER

\* The header of the block at p, found behind a.
OwnerAt(a, p) == IF RoomBefore(a, p) THEN p - HEADER ELSE a

\* Mutant: the block keeps up to two headers more than it was asked for.
RoomAfterWide(rest) == rest > 2 * HEADER

\* Mutant: the size of the new header is forgotten.
RoomAfterNoHeader(rest) == rest > 0

RoomAfter(rest) == rest > HEADER

\* The list with the block at p given out.
Given(a, p, size) ==
  LET o   == OwnerAt(a, p)
      hs1 == IF o # a THEN Split(headers, a, o, FALSE) ELSE headers
      hs2 == IF RoomAfter(End(hs1, o) - (p + size)) THEN Split(hs1, o, p + size, TRUE) ELSE hs1
  IN [hs2 EXCEPT ![o].free = FALSE]

\* Mutant: a block is not merged with what is free before it.
ReturnedForward(hs, a) ==
  LET hs1 == [hs EXCEPT ![a].free = TRUE]
      n   == hs[a].next
  IN IF n # NULL /\ hs[n].free THEN Merged(hs1, a) ELSE hs1

\* The list with the block of a free, merged with what is free behind it and
\* before it.
Returned(hs, a) ==
  LET hs1 == [hs EXCEPT ![a].free = TRUE]
      n   == hs[a].next
      hs2 == IF n # NULL /\ hs[n].free THEN Merged(hs1, a) ELSE hs1
      q   == hs[a].prev
  IN IF q # NULL /\ hs[q].free THEN Merged(hs2, q) ELSE hs2

Running == trouble = "none"

\* A program calls kmalloc or kmalloc_a.
kmalloc(size, aligned) ==
  /\ Running /\ calls = <<>> /\ Cardinality(live) < MaxLive
  /\ calls' = <<Call(size, aligned, "program", NULL)>>
  /\ UNCHANGED <<headers, magic, kheap_end, prealloc_pt, live, trouble>>

\* A program makes a block longer.
krealloc(b, growth) ==
  /\ Running /\ calls = <<>>
  /\ b.kind = "program" /\ ~b.aligned
  /\ calls' = <<Call(b.size + growth, FALSE, "program", b.ptr)>>
  /\ UNCHANGED <<headers, magic, kheap_end, prealloc_pt, live, trouble>>

\* The innermost call finds a block and returns it; krealloc copies as much
\* as the old block holds, and releases it.
kmalloc_int ==
  /\ Running /\ calls # <<>>
  /\ LET c == Head(calls)
     IN \E a \in DOMAIN headers :
          /\ FirstFit(a, c.size, c.aligned)
          /\ LET p   == Begin(a, c.aligned)
                 hs  == Given(a, p, c.size)
                 b   == [ptr |-> p, size |-> c.size, aligned |-> c.aligned, kind |-> c.for]
                 old == {d \in live : d.ptr = c.old}
             IN \/ /\ c.old # NULL
                   /\ hs[c.old - HEADER].length > hs[OwnerAt(a, p)].length
                   /\ trouble' = "overrun"
                   /\ UNCHANGED <<headers, magic, kheap_end, prealloc_pt, calls, live>>
                \/ /\ c.old # NULL => hs[c.old - HEADER].length <= hs[OwnerAt(a, p)].length
                   /\ headers' = IF c.old # NULL THEN Returned(hs, c.old - HEADER) ELSE hs
                   /\ magic' = MagicOf(hs)
                   /\ live' = (live \ old) \cup {b}
                   /\ calls' = Tail(calls)
                   /\ prealloc_pt' = (prealloc_pt \/ c.for = "table")
                   /\ UNCHANGED <<kheap_end, trouble>>

Last(hs) == CHOOSE a \in DOMAIN hs : hs[a].next = NULL

\* The list with what an expansion adds.
Expanded ==
  LET a == Last(headers)
  IN IF headers[a].free
     THEN [headers EXCEPT ![a].length = @ + EXPAND]
     ELSE [x \in DOMAIN headers \cup {kheap_end} |->
             CASE x = kheap_end -> [length |-> EXPAND - HEADER, free |-> TRUE,
                                    next |-> NULL, prev |-> a]
               [] x = a -> [headers[a] EXCEPT !.next = kheap_end]
               [] OTHER -> headers[x]]

\* Nothing fits the innermost call: the heap grows, and asks itself for the
\* next page table before it tries again.
heap_expand ==
  /\ Running /\ calls # <<>>
  /\ \A a \in DOMAIN headers : ~Fits(a, Head(calls).size, Head(calls).aligned)
  /\ \/ /\ kheap_end + EXPAND > MaxEnd
        /\ trouble' = "memory"
        /\ UNCHANGED <<headers, magic, kheap_end, prealloc_pt, calls>>
     \/ /\ kheap_end + EXPAND <= MaxEnd /\ ~prealloc_pt
        /\ trouble' = "prealloc"
        /\ UNCHANGED <<headers, magic, kheap_end, prealloc_pt, calls>>
     \/ /\ kheap_end + EXPAND <= MaxEnd /\ prealloc_pt
        /\ headers' = Expanded
        /\ magic' = MagicOf(Expanded)
        /\ kheap_end' = kheap_end + EXPAND
        /\ prealloc_pt' = FALSE
        /\ calls' = <<TableCall>> \o calls
        /\ UNCHANGED trouble
  /\ UNCHANGED live

-----------------------------------------------------------------------------
(* Release.                                                                *)

\* The block at ptr goes back to the list, its header being at a.
Release(b, a) ==
  /\ headers' = Returned(headers, a)
  /\ live' = live \ {b}
  /\ UNCHANGED <<magic, kheap_end, prealloc_pt, calls, trouble>>

kfree(b) ==
  /\ Running /\ calls = <<>>
  /\ b.kind = "program" /\ ~b.aligned
  /\ Release(b, b.ptr - HEADER)

\* The header is the first magic number on the way back from the block.
Found(b, a) ==
  /\ a \in magic /\ a <= b.ptr - HEADER
  /\ \A m \in magic : m > a => m > b.ptr - HEADER

kfree_a(b) ==
  /\ Running /\ calls = <<>>
  /\ b.kind = "program" /\ b.aligned
  /\ \E a \in magic :
       /\ Found(b, a)
       /\ \/ /\ b.ptr - a > HEADER
             /\ trouble' = "far"
             /\ UNCHANGED <<headers, magic, kheap_end, prealloc_pt, calls, live>>
          \/ /\ b.ptr - a <= HEADER /\ a \notin DOMAIN headers
             /\ trouble' = "astray"
             /\ UNCHANGED <<headers, magic, kheap_end, prealloc_pt, calls, live>>
          \/ /\ b.ptr - a <= HEADER /\ a \in DOMAIN headers
             /\ Release(b, a)

\* A program writes to its block, over what headers have left there.
Write(b) ==
  /\ Running /\ calls = <<>>
  /\ \E m \in magic \cap b.ptr..(b.ptr + b.size - 1) : magic' = magic \ {m}
  /\ UNCHANGED <<headers, kheap_end, prealloc_pt, calls, live, trouble>>

Next ==
  \/ \E n \in Size : kmalloc(n, FALSE)
  \/ \E n \in SizeA : kmalloc(n, TRUE)
  \/ \E b \in live :
       \/ \E g \in Growth : krealloc(b, g)
       \/ kfree(b)
       \/ kfree_a(b)
       \/ Write(b)
  \/ kmalloc_int
  \/ heap_expand

Spec == Init /\ [][Next]_vars

-----------------------------------------------------------------------------
(* Properties.                                                             *)

(***************************************************************************)
(* The headers lie one behind the other, each where the block of the one   *)
(* before ends, from the first address of the heap to its end, and are     *)
(* linked in that order in both directions (memory.c:838-1019).            *)
(***************************************************************************)
Tiling ==
  /\ Kheap \in DOMAIN headers /\ headers[Kheap].prev = NULL
  /\ \A a \in DOMAIN headers :
       /\ IF headers[a].next = NULL
          THEN End(headers, a) = kheap_end
          ELSE /\ headers[a].next = End(headers, a)
               /\ headers[a].next \in DOMAIN headers
               /\ headers[headers[a].next].prev = a
       /\ \A b \in DOMAIN headers : a < b => End(headers, a) <= b

(***************************************************************************)
(* Two blocks side by side are never both free: what is released is merged *)
(* with what is free before and behind it (memory.c:999-1018), or no large *)
(* block could ever be given out again.                                    *)
(***************************************************************************)
Coalesced ==
  \A a \in DOMAIN headers :
    headers[a].free /\ headers[a].next # NULL => ~headers[headers[a].next].free

Holds(a, b) == a + HEADER <= b.ptr /\ b.ptr + b.size <= End(headers, a)

(***************************************************************************)
(* Every block that is held lies in a block of the list that is not free,  *)
(* one in each, and no block of the list is kept from use by nobody        *)
(* (memory.c:838-975).                                                     *)
(***************************************************************************)
Owned ==
  /\ \A b \in live : \E a \in DOMAIN headers : ~headers[a].free /\ Holds(a, b)
  /\ \A a \in DOMAIN headers :
       /\ ~headers[a].free => \E b \in live : Holds(a, b)
       /\ \A b, c \in live : Holds(a, b) /\ Holds(a, c) => b = c

(***************************************************************************)
(* The list of headers is what all of kmalloc, kmalloc_a and kfree take it *)
(* for, after any sequence of calls.                                       *)
(***************************************************************************)
ListSound == Tiling /\ Coalesced /\ Owned

Promise == INSTANCE Allocator WITH Address <- Nat, Length <- Nat

(***************************************************************************)
(* What kmalloc, krealloc and kfree do to the blocks that are held is what *)
(* the allocator promises.                                                 *)
(***************************************************************************)
IsAllocator == Promise!AllocatorSpec

(***************************************************************************)
(* krealloc copies all that the old block holds (memory.c:1055), which may *)
(* be more than was asked for, and never more than the new block has; and  *)
(* when the heap grows, the page table it needs is there (memory.c:182).   *)
(***************************************************************************)
NoTrouble == trouble \notin {"overrun", "prealloc"}

(***************************************************************************)
(* "The header may be up to sizeof(heap_header_t) bytes before the         *)
(* pointer" (memory.c:987): the header that kfree_a finds is that of the   *)
(* block.  It need not be (HeapAstray.cfg), and there may be none.         *)
(***************************************************************************)
HeaderIsItsOwn == trouble # "astray"
=============================================================================

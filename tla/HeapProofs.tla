----------------------------- MODULE HeapProofs -----------------------------
(***************************************************************************)
(* The heap, for any sizes, alignments and expansions: after any calls the *)
(* headers tile the heap, free blocks are merged, every block that is held *)
(* has a header of its own, krealloc copies into a block that is as long,  *)
(* and a page table is there when the heap grows.                          *)
(***************************************************************************)
EXTENDS Heap, SequenceTheorems, TLAPS

(***************************************************************************)
(* A list of headers hs that tiles the heap up to end.  Where a block ends *)
(* says what its links are.                                                *)
(***************************************************************************)
Link(e, end) == IF e = end THEN NULL ELSE e

ListAt(hs, end) ==
  /\ Kheap \in DOMAIN hs
  /\ \A a \in DOMAIN hs : a \in Nat /\ Kheap <= a /\ hs[a] \in Header
  /\ \A a \in DOMAIN hs : End(hs, a) <= end /\ (End(hs, a) = end \/ End(hs, a) \in DOMAIN hs)
  /\ \E a \in DOMAIN hs : End(hs, a) = end
  /\ \A a, b \in DOMAIN hs : a < b => End(hs, a) <= b
  /\ \A a \in DOMAIN hs : hs[a].next = Link(End(hs, a), end)
  /\ hs[Kheap].prev = NULL
  /\ \A a \in DOMAIN hs :
       a # Kheap => hs[a].prev \in DOMAIN hs /\ End(hs, hs[a].prev) = a

\* No two blocks side by side are free, except with that of b.
CoalescedBut(hs, b) ==
  \A x, y \in DOMAIN hs : End(hs, x) = y /\ hs[x].free /\ hs[y].free => y = b

\* 0 is no header.
CoalescedAt(hs) == CoalescedBut(hs, NULL)

HoldsIn(hs, a, b) == a + HEADER <= b.ptr /\ b.ptr + b.size <= End(hs, a)

LEMMA EndType ==
  ASSUME NEW hs, NEW end \in Nat, ListAt(hs, end), NEW a \in DOMAIN hs
  PROVE  /\ a \in Nat /\ End(hs, a) \in Nat /\ a + HEADER <= End(hs, a)
         /\ a < End(hs, a) /\ Kheap <= a /\ a # NULL
         /\ hs[a].length = End(hs, a) - a - HEADER
BY HeapAssumption DEF ListAt, End, Header, NULL

\* Who ends where another begins is the one before it.
LEMMA BeforeIsOne ==
  ASSUME NEW hs, NEW end \in Nat, ListAt(hs, end),
         NEW a \in DOMAIN hs, NEW b \in DOMAIN hs, End(hs, a) = End(hs, b)
  PROVE  a = b
<1>1. /\ a \in Nat /\ b \in Nat /\ End(hs, a) \in Nat
      /\ a < End(hs, a) /\ b < End(hs, b)
  BY EndType
<1>2. (a < b => End(hs, a) <= b) /\ (b < a => End(hs, b) <= a)
  BY DEF ListAt
<1> QED
  BY <1>1, <1>2

\* A place lies behind the header of one block at most.
LEMMA HolderOfPlace ==
  ASSUME NEW hs, NEW end \in Nat, ListAt(hs, end),
         NEW a \in DOMAIN hs, NEW c \in DOMAIN hs, NEW t \in Nat,
         a + HEADER <= t, t <= End(hs, a), c + HEADER <= t, t <= End(hs, c)
  PROVE  a = c
<1> USE HeapAssumption
<1>1. a \in Nat /\ c \in Nat /\ End(hs, a) \in Nat /\ End(hs, c) \in Nat
  BY EndType
<1>2. (a < c => End(hs, a) <= c) /\ (c < a => End(hs, c) <= a)
  BY DEF ListAt
<1> QED
  BY <1>1, <1>2

LEMMA HolderIsOne ==
  ASSUME NEW hs, NEW end \in Nat, ListAt(hs, end),
         NEW a \in DOMAIN hs, NEW c \in DOMAIN hs, NEW b,
         b.ptr \in Nat, b.size \in Nat, HoldsIn(hs, a, b), HoldsIn(hs, c, b)
  PROVE  a = c
<1>1. End(hs, a) \in Nat /\ End(hs, c) \in Nat
  BY EndType
<1>2. /\ a + HEADER <= b.ptr /\ b.ptr <= End(hs, a)
      /\ c + HEADER <= b.ptr /\ b.ptr <= End(hs, c)
  BY <1>1 DEF HoldsIn
<1> QED
  BY <1>2, HolderOfPlace

\* A header in front of a place that lies in a block is the header of it.
LEMMA HeaderIsHolders ==
  ASSUME NEW hs, NEW end \in Nat, ListAt(hs, end),
         NEW a \in DOMAIN hs, NEW t \in Nat, a + HEADER <= t, t <= End(hs, a),
         t - HEADER \in DOMAIN hs
  PROVE  a = t - HEADER
<1> USE HeapAssumption
<1>1. a \in Nat /\ End(hs, a) \in Nat
  BY EndType
<1>2. a < t - HEADER => End(hs, a) <= t - HEADER
  BY DEF ListAt
<1> QED
  BY <1>1, <1>2

(***************************************************************************)
(* Free and in use.                                                        *)
(***************************************************************************)
Marks(hs, new, a, f) ==
  /\ DOMAIN new = DOMAIN hs
  /\ \A x \in DOMAIN hs :
       /\ End(new, x) = End(hs, x)
       /\ new[x].free = IF x = a THEN f ELSE hs[x].free

LEMMA MarkList ==
  ASSUME NEW hs, NEW end \in Nat, ListAt(hs, end), NEW a \in DOMAIN hs,
         NEW f \in BOOLEAN, NEW new, new = [hs EXCEPT ![a].free = f]
  PROVE  ListAt(new, end) /\ Marks(hs, new, a, f)
<1>1. DOMAIN new = DOMAIN hs
  OBVIOUS
<1>2. ASSUME NEW x \in DOMAIN hs
      PROVE  /\ new[x] \in Header /\ new[x].length = hs[x].length
             /\ new[x].next = hs[x].next /\ new[x].prev = hs[x].prev
             /\ new[x].free = IF x = a THEN f ELSE hs[x].free
  <2>1. hs[x] \in Header
    BY DEF ListAt
  <2> QED
    BY <2>1 DEF Header
<1>3. \A x \in DOMAIN hs : End(new, x) = End(hs, x)
  BY <1>2 DEF End
<1>4. /\ Kheap \in DOMAIN new /\ new[Kheap].prev = NULL
      /\ \A x \in DOMAIN new : x \in Nat /\ Kheap <= x /\ new[x] \in Header
      /\ \A x \in DOMAIN new :
           End(new, x) <= end /\ (End(new, x) = end \/ End(new, x) \in DOMAIN new)
      /\ \E x \in DOMAIN new : End(new, x) = end
      /\ \A x, y \in DOMAIN new : x < y => End(new, x) <= y
  BY <1>1, <1>2, <1>3 DEF ListAt
<1>5. ASSUME NEW x \in DOMAIN new
      PROVE  /\ new[x].next = Link(End(new, x), end)
             /\ x # Kheap => new[x].prev \in DOMAIN new /\ End(new, new[x].prev) = x
  <2>1. hs[x].next = Link(End(hs, x), end)
    BY <1>1 DEF ListAt
  <2>2. x # Kheap => hs[x].prev \in DOMAIN hs /\ End(hs, hs[x].prev) = x
    BY <1>1 DEF ListAt
  <2>3. new[x].next = hs[x].next /\ new[x].prev = hs[x].prev /\ End(new, x) = End(hs, x)
    BY <1>1, <1>2, <1>3
  <2> QED
    BY <1>1, <1>3, <2>1, <2>2, <2>3
<1>6. ListAt(new, end)
  BY <1>4, <1>5, Zenon DEF ListAt
<1>7. Marks(hs, new, a, f)
  BY <1>1, <1>2, <1>3 DEF Marks
<1> QED
  BY <1>6, <1>7

(***************************************************************************)
(* A block that is cut in two.                                             *)
(***************************************************************************)
Cuts(hs, new, a, n, f) ==
  /\ DOMAIN new = DOMAIN hs \cup {n}
  /\ End(new, a) = n
  /\ End(new, n) = End(hs, a)
  /\ new[n].free = f
  /\ \A x \in DOMAIN hs : new[x].free = hs[x].free
  /\ \A x \in DOMAIN hs \ {a} : End(new, x) = End(hs, x)

\* There is room for a header at n in the block of a.
Inside(hs, a, n) == a + HEADER <= n /\ n + HEADER <= End(hs, a)

LEMMA InsideIsNew ==
  ASSUME NEW hs, NEW end \in Nat, ListAt(hs, end), NEW a \in DOMAIN hs,
         NEW n \in Nat, Inside(hs, a, n)
  PROVE  n \notin DOMAIN hs /\ a < n /\ n < End(hs, a) /\ n # NULL
<1> USE HeapAssumption
<1>1. a \in Nat /\ End(hs, a) \in Nat /\ Kheap <= a
  BY EndType
<1>2. a < n /\ n < End(hs, a) /\ n # NULL
  BY <1>1 DEF Inside, NULL
<1>3. n \in DOMAIN hs => End(hs, a) <= n
  BY <1>2 DEF ListAt
<1> QED
  BY <1>1, <1>2, <1>3

LEMMA SplitList ==
  ASSUME NEW hs, NEW end \in Nat, ListAt(hs, end), NEW a \in DOMAIN hs,
         NEW n \in Nat, Inside(hs, a, n), NEW f \in BOOLEAN,
         NEW new, new = Split(hs, a, n, f)
  PROVE  ListAt(new, end) /\ Cuts(hs, new, a, n, f)
<1> USE HeapAssumption
<1> DEFINE m == hs[a].next
<1>1. n \notin DOMAIN hs /\ a < n /\ n < End(hs, a) /\ n # NULL
  BY InsideIsNew
<1>2. /\ a \in Nat /\ End(hs, a) \in Nat /\ a + HEADER <= n /\ n + HEADER <= End(hs, a)
      /\ Kheap <= a /\ a # NULL
  BY EndType DEF Inside
<1>3. m = Link(End(hs, a), end) /\ m \in Nat
  BY <1>2 DEF ListAt, Link, NULL
<1>4. m # a /\ m # n /\ n # a
  BY <1>1, <1>2, <1>3 DEF Link
<1>5. DOMAIN new = DOMAIN hs \cup {n}
  BY DEF Split
<1>6. new[n] = [length |-> End(hs, a) - n - HEADER, free |-> f, next |-> m, prev |-> a]
  BY <1>4 DEF Split
<1>7. new[a] = [hs[a] EXCEPT !.next = n, !.length = n - a - HEADER]
  BY <1>4 DEF Split
<1>8. \A x \in DOMAIN hs \ {a} : new[x] = IF x = m THEN [hs[x] EXCEPT !.prev = n] ELSE hs[x]
  BY <1>1 DEF Split
<1> HIDE DEF m
<1>9. \A x \in DOMAIN hs : hs[x] \in Header
  BY DEF ListAt
<1>10. /\ new[n] \in Header /\ new[n].length = End(hs, a) - n - HEADER
       /\ new[n].free = f /\ new[n].next = m /\ new[n].prev = a
  BY <1>1, <1>2, <1>3, <1>6 DEF Header
<1>11. /\ new[a] \in Header /\ new[a].length = n - a - HEADER
       /\ new[a].free = hs[a].free /\ new[a].next = n /\ new[a].prev = hs[a].prev
  <2>1. n - a - HEADER \in Nat
    BY <1>2
  <2> QED
    BY <1>7, <1>9, <2>1 DEF Header
<1>12. ASSUME NEW x \in DOMAIN hs \ {a}
       PROVE  /\ new[x] \in Header /\ new[x].length = hs[x].length
              /\ new[x].free = hs[x].free /\ new[x].next = hs[x].next
              /\ new[x].prev = IF x = m THEN n ELSE hs[x].prev
  <2>1. hs[x] \in Header
    BY <1>9
  <2>2. CASE x = m
    <3>1. new[x] = [hs[x] EXCEPT !.prev = n]
      BY <1>8, <2>2
    <3> QED
      BY <2>1, <2>2, <3>1 DEF Header
  <2>3. CASE x # m
    <3>1. new[x] = hs[x]
      BY <1>8, <2>3
    <3> QED
      BY <2>1, <2>3, <3>1 DEF Header
  <2> QED
    BY <2>2, <2>3
<1>13. /\ End(new, a) = n /\ End(new, n) = End(hs, a)
       /\ \A x \in DOMAIN hs \ {a} : End(new, x) = End(hs, x)
  BY <1>2, <1>10, <1>11, <1>12 DEF End
<1>14. Cuts(hs, new, a, n, f)
  BY <1>5, <1>10, <1>11, <1>12, <1>13 DEF Cuts
<1>15. ListAt(new, end)
  <2>1. Kheap \in DOMAIN new /\ new[Kheap].prev = NULL
    <3>1. Kheap \in DOMAIN hs /\ hs[Kheap].prev = NULL
      BY DEF ListAt
    <3>2. Kheap # m
      BY <1>2, <1>3, <1>1 DEF Link, NULL
    <3> QED
      BY <1>5, <1>11, <1>12, <3>1, <3>2
  <2>2. \A x \in DOMAIN new : x \in Nat /\ Kheap <= x /\ new[x] \in Header
    BY <1>1, <1>2, <1>5, <1>10, <1>11, <1>12 DEF ListAt
  <2>3. \A x \in DOMAIN new : End(new, x) <= end /\ (End(new, x) = end \/ End(new, x) \in DOMAIN new)
    <3>1. End(hs, a) <= end
      BY DEF ListAt
    <3> QED
      BY <1>1, <1>2, <1>5, <1>13, <3>1 DEF ListAt
  <2>4. \E x \in DOMAIN new : End(new, x) = end
    <3>1. PICK x \in DOMAIN hs : End(hs, x) = end
      BY DEF ListAt
    <3> QED
      BY <1>5, <1>13, <3>1
  <2>5. ASSUME NEW x \in DOMAIN new, NEW y \in DOMAIN new, x < y
        PROVE  End(new, x) <= y
    <3>1. x \in Nat /\ y \in Nat
      BY <2>2
    <3>2. \A u, v \in DOMAIN hs : u < v => End(hs, u) <= v
      BY DEF ListAt
    <3>3. CASE x \in DOMAIN hs \ {a} /\ y \in DOMAIN hs
      BY <1>13, <2>5, <3>2, <3>3
    <3>4. CASE x \in DOMAIN hs \ {a} /\ y = n
      <4>1. End(new, x) = End(hs, x) /\ End(hs, x) \in Nat
        BY <1>13, <3>4, EndType
      <4>2. x < a => End(hs, x) <= a
        BY <3>2, <3>4
      <4>3. a < x => End(hs, a) <= x
        BY <3>2, <3>4
      <4> QED
        BY <1>1, <1>2, <2>5, <3>1, <3>4, <4>1, <4>2, <4>3
    <3>5. CASE x = a /\ y \in DOMAIN hs
      <4>1. End(hs, a) <= y
        BY <2>5, <3>2, <3>5
      <4> QED
        BY <1>1, <1>2, <1>13, <3>1, <3>5, <4>1
    <3>6. CASE x = a /\ y = n
      BY <1>2, <1>13, <3>6
    <3>7. CASE x = n /\ y \in DOMAIN hs
      <4>1. End(hs, a) <= y
        BY <1>1, <1>2, <2>5, <3>1, <3>2, <3>7
      <4> QED
        BY <1>13, <3>7, <4>1
    <3>8. CASE x = n /\ y = n
      BY <2>5, <3>1, <3>8
    <3> QED
      BY <1>5, <3>3, <3>4, <3>5, <3>6, <3>7, <3>8
  <2>6. \A x \in DOMAIN new : new[x].next = Link(End(new, x), end)
    <3>1. Link(n, end) = n
      <4>1. End(hs, a) <= end
        BY DEF ListAt
      <4> QED
        BY <1>1, <1>2, <4>1 DEF Link
    <3>2. \A x \in DOMAIN hs : hs[x].next = Link(End(hs, x), end)
      BY DEF ListAt
    <3> QED
      BY <1>3, <1>5, <1>10, <1>11, <1>12, <1>13, <3>1, <3>2
  <2>7. ASSUME NEW x \in DOMAIN new, x # Kheap
        PROVE  new[x].prev \in DOMAIN new /\ End(new, new[x].prev) = x
    <3>1. x \in DOMAIN hs => hs[x].prev \in DOMAIN hs /\ End(hs, hs[x].prev) = x
      BY <2>7 DEF ListAt
    <3>2. CASE x = n
      BY <1>5, <1>10, <1>13, <3>2
    <3>3. CASE x = a
      <4>1. hs[a].prev # a
        BY <1>2, <1>1, <3>1, <3>3
      <4> QED
        BY <1>5, <1>11, <1>13, <3>1, <3>3, <4>1
    <3>4. CASE x \in DOMAIN hs \ {a} /\ x = m
      <4>1. End(hs, a) = x
        BY <1>3, <3>4, EndType DEF Link
      <4> QED
        BY <1>5, <1>12, <1>13, <3>4, <4>1
    <3>5. CASE x \in DOMAIN hs \ {a} /\ x # m
      <4>1. End(hs, a) # x
        <5>1. x # end
          <6>1. End(hs, x) <= end /\ x < End(hs, x) /\ x \in Nat /\ End(hs, x) \in Nat
            BY <3>5, EndType DEF ListAt
          <6> QED
            BY <6>1
        <5> QED
          BY <1>3, <3>5, <5>1 DEF Link
      <4>2. hs[x].prev # a
        BY <3>1, <3>5, <4>1
      <4> QED
        BY <1>5, <1>12, <1>13, <3>1, <3>5, <4>2
    <3> QED
      BY <1>5, <3>2, <3>3, <3>4, <3>5
  <2> QED
    BY <2>1, <2>2, <2>3, <2>4, <2>5, <2>6, <2>7 DEF ListAt
<1> QED
  BY <1>14, <1>15

(***************************************************************************)
(* Two blocks that become one.                                             *)
(***************************************************************************)
Joins(hs, new, a, n) ==
  /\ DOMAIN new = DOMAIN hs \ {n}
  /\ End(new, a) = End(hs, n)
  /\ \A x \in DOMAIN new : new[x].free = hs[x].free
  /\ \A x \in DOMAIN new \ {a} : End(new, x) = End(hs, x)

LEMMA NextIsHeader ==
  ASSUME NEW hs, NEW end \in Nat, ListAt(hs, end), NEW a \in DOMAIN hs,
         hs[a].next # NULL
  PROVE  /\ hs[a].next \in DOMAIN hs /\ hs[a].next = End(hs, a) /\ a < hs[a].next
<1>1. hs[a].next = Link(End(hs, a), end)
  BY DEF ListAt
<1>2. End(hs, a) # end /\ hs[a].next = End(hs, a)
  BY <1>1 DEF Link
<1>3. End(hs, a) \in DOMAIN hs
  BY <1>2 DEF ListAt
<1> QED
  BY <1>2, <1>3, EndType

LEMMA MergeList ==
  ASSUME NEW hs, NEW end \in Nat, ListAt(hs, end), NEW a \in DOMAIN hs,
         hs[a].next # NULL, NEW new, new = Merged(hs, a)
  PROVE  ListAt(new, end) /\ Joins(hs, new, a, hs[a].next)
<1> USE HeapAssumption
<1> DEFINE n == hs[a].next
           m == hs[n].next
<1>1. n \in DOMAIN hs /\ n = End(hs, a)
  BY NextIsHeader
<1>2. /\ a \in Nat /\ n \in Nat /\ a < n /\ Kheap <= a /\ End(hs, n) \in Nat
      /\ n < End(hs, n) /\ a # NULL
  BY <1>1, EndType
<1>3. m = Link(End(hs, n), end) /\ m \in Nat
  BY <1>1, <1>2 DEF ListAt, Link, NULL
<1>4. m # a /\ m # n
  BY <1>1, <1>2, <1>3 DEF Link, NULL
<1>5. DOMAIN new = DOMAIN hs \ {n}
  BY DEF Merged
<1>6. new[a] = [hs[a] EXCEPT !.next = m, !.length = @ + HEADER + hs[n].length]
  BY <1>2, <1>4 DEF Merged
<1>7. \A x \in DOMAIN new \ {a} : new[x] = IF x = m THEN [hs[x] EXCEPT !.prev = a] ELSE hs[x]
  BY <1>5, <1>4 DEF Merged
<1>8. \A x \in DOMAIN hs : hs[x] \in Header
  BY DEF ListAt
<1> HIDE DEF n, m
<1>9. /\ new[a] \in Header /\ new[a].length = hs[a].length + HEADER + hs[n].length
      /\ new[a].free = hs[a].free /\ new[a].next = m /\ new[a].prev = hs[a].prev
  <2>1. hs[a] \in Header /\ hs[n] \in Header
    BY <1>1, <1>8
  <2>2. hs[a].length + HEADER + hs[n].length \in Nat
    BY <2>1 DEF Header
  <2> QED
    BY <1>3, <1>6, <2>1, <2>2 DEF Header
<1>10. ASSUME NEW x \in DOMAIN new \ {a}
       PROVE  /\ new[x] \in Header /\ new[x].length = hs[x].length
              /\ new[x].free = hs[x].free /\ new[x].next = hs[x].next
              /\ new[x].prev = IF x = m THEN a ELSE hs[x].prev
  BY <1>2, <1>5, <1>7, <1>8 DEF Header
<1>11. /\ End(new, a) = End(hs, n)
       /\ \A x \in DOMAIN new \ {a} : End(new, x) = End(hs, x)
  <2>1. hs[a].length = n - a - HEADER /\ hs[n].length = End(hs, n) - n - HEADER
    BY <1>1, EndType
  <2>2. new[a].length = End(hs, n) - a - HEADER
    BY <1>2, <1>9, <2>1
  <2>3. End(new, a) = End(hs, n)
    BY <1>2, <2>2 DEF End
  <2> QED
    BY <1>10, <2>3 DEF End
<1>12. Joins(hs, new, a, n)
  BY <1>5, <1>9, <1>10, <1>11 DEF Joins
<1>13. a \in DOMAIN new
  BY <1>2, <1>5
<1>14. ListAt(new, end)
  <2>1. Kheap \in DOMAIN new /\ new[Kheap].prev = NULL
    <3>1. Kheap \in DOMAIN hs /\ hs[Kheap].prev = NULL
      BY DEF ListAt
    <3>2. Kheap # m /\ Kheap # n
      BY <1>2, <1>3 DEF Link, NULL
    <3> QED
      BY <1>5, <1>9, <1>10, <3>1, <3>2
  <2>2. \A x \in DOMAIN new : x \in Nat /\ Kheap <= x /\ new[x] \in Header
    BY <1>5, <1>9, <1>10 DEF ListAt
  <2>3. ASSUME NEW x \in DOMAIN new
        PROVE  End(new, x) <= end /\ (End(new, x) = end \/ End(new, x) \in DOMAIN new)
    <3> DEFINE y == IF x = a THEN n ELSE x
    <3>1. y \in DOMAIN hs /\ End(new, x) = End(hs, y)
      BY <1>1, <1>5, <1>11
    <3>2. End(hs, y) # n
      <4>1. CASE x = a
        BY <1>2, <4>1
      <4>2. CASE x # a
        BY <1>1, <3>1, <4>2, BeforeIsOne
      <4> QED
        BY <4>1, <4>2
    <3>3. End(hs, y) <= end /\ (End(hs, y) = end \/ End(hs, y) \in DOMAIN hs)
      BY <3>1 DEF ListAt
    <3> QED
      BY <1>5, <3>1, <3>2, <3>3
  <2>4. \E x \in DOMAIN new : End(new, x) = end
    <3>1. PICK x \in DOMAIN hs : End(hs, x) = end
      BY DEF ListAt
    <3>2. x # a
      <4>1. n < End(hs, n) /\ End(hs, n) <= end /\ end \in Nat
        BY <1>1, <1>2 DEF ListAt
      <4> QED
        BY <1>1, <1>2, <3>1, <4>1
    <3> QED
      BY <1>5, <1>11, <1>13, <3>1, <3>2
  <2>5. ASSUME NEW x \in DOMAIN new, NEW y \in DOMAIN new, x < y
        PROVE  End(new, x) <= y
    <3>1. x \in Nat /\ y \in Nat /\ x \in DOMAIN hs /\ y \in DOMAIN hs /\ y # n
      BY <1>5, <2>2
    <3>2. End(hs, x) <= y
      BY <2>5, <3>1 DEF ListAt
    <3>3. CASE x = a
      <4>1. n < y
        BY <1>1, <1>2, <3>1, <3>2, <3>3
      <4>2. End(hs, n) <= y
        BY <1>1, <3>1, <4>1 DEF ListAt
      <4> QED
        BY <1>11, <3>3, <4>2
    <3>4. CASE x # a
      BY <1>11, <3>2, <3>4
    <3> QED
      BY <3>3, <3>4
  <2>6. ASSUME NEW x \in DOMAIN new
        PROVE  new[x].next = Link(End(new, x), end)
    <3>1. hs[x].next = Link(End(hs, x), end)
      BY <1>5 DEF ListAt
    <3> QED
      BY <1>3, <1>9, <1>10, <1>11, <3>1
  <2>7. ASSUME NEW x \in DOMAIN new, x # Kheap
        PROVE  new[x].prev \in DOMAIN new /\ End(new, new[x].prev) = x
    <3>1. hs[x].prev \in DOMAIN hs /\ End(hs, hs[x].prev) = x
      BY <1>5, <2>7 DEF ListAt
    <3>2. x \in Nat /\ x # n
      BY <1>5, <2>2
    <3>3. CASE x = a
      <4>1. hs[a].prev # a /\ hs[a].prev # n
        BY <1>1, <1>2, <3>1, <3>3
      <4> QED
        BY <1>5, <1>9, <1>11, <3>1, <3>3, <4>1
    <3>4. CASE x # a /\ x = m
      <4>1. End(hs, n) = x
        <5>1. x # NULL
          BY <2>2, <3>2 DEF NULL
        <5> QED
          BY <1>3, <3>4, <5>1 DEF Link
      <4> QED
        BY <1>5, <1>10, <1>11, <1>13, <3>4, <4>1
    <3>5. CASE x # a /\ x # m
      <4>1. End(hs, n) # x
        <5>1. x # end
          <6>1. End(hs, x) <= end /\ x < End(hs, x) /\ End(hs, x) \in Nat
            BY <1>5, EndType DEF ListAt
          <6> QED
            BY <3>2, <6>1
        <5> QED
          BY <1>3, <3>5, <5>1 DEF Link
      <4>2. hs[x].prev # a /\ hs[x].prev # n
        BY <1>1, <3>1, <3>2, <4>1
      <4> QED
        BY <1>5, <1>10, <1>11, <3>1, <3>5, <4>2
    <3> QED
      BY <3>3, <3>4, <3>5
  <2> QED
    BY <2>1, <2>2, <2>3, <2>4, <2>5, <2>6, <2>7 DEF ListAt
<1> QED
  BY <1>12, <1>14 DEF n

(***************************************************************************)
(* A block that is given out.                                              *)
(***************************************************************************)
LEMMA Division ==
  ASSUME NEW n \in Nat, NEW d \in Nat \ {0}
  PROVE  /\ n \div d \in Nat
         /\ (n \div d) * d \in Nat
         /\ (n \div d) * d <= n /\ n < (n \div d) * d + d
         /\ ((n \div d) * d) % d = 0
<1>1. n \div d \in Nat /\ (n \div d) * d <= n /\ n < (n \div d) * d + d
  BY SMTT(30)
<1>2. PICK q \in Nat : q = n \div d
  BY <1>1
<1>3. q * d \in Nat
  BY SMTT(30)
<1>4. (q * d) % d = 0
  BY SMTT(30)
<1> QED
  BY <1>1, <1>2, <1>3, <1>4

LEMMA BeginType ==
  ASSUME NEW a \in Nat, NEW aligned \in BOOLEAN
  PROVE  /\ Begin(a, aligned) \in Nat
         /\ a + HEADER <= Begin(a, aligned)
         /\ aligned => /\ Begin(a, aligned) % ALIGN = 0
                       /\ Begin(a, aligned) < a + HEADER + ALIGN
         /\ ~aligned => Begin(a, aligned) = a + HEADER
<1> USE HeapAssumption
<1>1. CASE ~aligned
  BY <1>1 DEF Begin
<1>2. CASE aligned
  <2> DEFINE n == a + HEADER + ALIGN - 1
             p == (n \div ALIGN) * ALIGN
  <2>1. n \in Nat
    OBVIOUS
  <2>2. Begin(a, aligned) = p
    BY <1>2 DEF Begin, AlignUp
  <2> HIDE DEF n
  <2>3. p \in Nat /\ p <= n /\ n < p + ALIGN /\ p % ALIGN = 0
    BY <2>1, Division
  <2> HIDE DEF p
  <2>4. a + HEADER <= p /\ p < a + HEADER + ALIGN
    BY <2>3 DEF n
  <2> QED
    BY <1>2, <2>2, <2>3, <2>4, Zenon
<1> QED
  BY <1>1, <1>2

\* The block at p, found behind a, is given out with the header at o.
Gives(hs, new, a, o, p, size) ==
  /\ o \in DOMAIN new /\ ~new[o].free
  /\ o + HEADER <= p /\ p + size <= End(new, o) /\ End(new, o) <= p + size + HEADER
  /\ o # a => o \notin DOMAIN hs
  /\ \A x \in DOMAIN hs \ {a} :
       x \in DOMAIN new /\ End(new, x) = End(hs, x) /\ new[x].free = hs[x].free
  /\ \A x \in DOMAIN new :
       \/ x \in DOMAIN hs \ {a}
       \/ x = o
       \/ x = a /\ End(new, x) = o /\ new[x].free
       \/ End(new, o) = x /\ End(new, x) = End(hs, a) /\ new[x].free

LEMMA GivenList ==
  ASSUME NEW end \in Nat, ListAt(headers, end), NEW a \in DOMAIN headers,
         NEW aligned \in BOOLEAN, NEW size \in Nat, Fits(a, size, aligned),
         NEW p, p = Begin(a, aligned), NEW o, o = OwnerAt(a, p),
         NEW new, new = Given(a, p, size)
  PROVE  /\ ListAt(new, end)
         /\ Gives(headers, new, a, o, p, size)
         /\ ~aligned => o = a
<1> USE HeapAssumption
<1> DEFINE hs1 == IF o # a THEN Split(headers, a, o, FALSE) ELSE headers
           q   == p + size
           cut == RoomAfter(End(hs1, o) - q)
           hs2 == IF cut THEN Split(hs1, o, q, TRUE) ELSE hs1
<1>1. /\ a \in Nat /\ End(headers, a) \in Nat /\ p \in Nat /\ a + HEADER <= p
      /\ q \in Nat /\ q <= End(headers, a) /\ p <= q
  <2>1. a \in Nat /\ End(headers, a) \in Nat
    BY EndType
  <2>2. p \in Nat /\ a + HEADER <= p
    BY <2>1, BeginType
  <2> QED
    BY <2>1, <2>2 DEF Fits
<1>2. /\ o \in Nat /\ o + HEADER <= p
      /\ o # a => a + HEADER <= o
      /\ ~aligned => o = a
  <2>1. ~aligned => p = a + HEADER
    BY <1>1, BeginType
  <2> QED
    BY <1>1, <2>1 DEF OwnerAt, RoomBefore
<1>3. new = [hs2 EXCEPT ![o].free = FALSE]
  BY DEF Given
<1>4. /\ ListAt(hs1, end) /\ o \in DOMAIN hs1 /\ End(hs1, o) = End(headers, a)
      /\ o # a => Cuts(headers, hs1, a, o, FALSE) /\ o \notin DOMAIN headers
  <2>1. CASE o = a
    BY <2>1
  <2>2. CASE o # a
    <3>1. Inside(headers, a, o)
      BY <1>1, <1>2, <2>2 DEF Inside
    <3>2. ListAt(hs1, end) /\ Cuts(headers, hs1, a, o, FALSE)
      BY <1>2, <2>2, <3>1, SplitList
    <3>3. o \notin DOMAIN headers
      BY <1>2, <3>1, InsideIsNew
    <3> HIDE DEF hs1
    <3> QED
      BY <3>2, <3>3 DEF Cuts
  <2> QED
    BY <2>1, <2>2
<1>5. /\ DOMAIN hs1 = DOMAIN headers \cup {o}
      /\ o # a => End(hs1, a) = o /\ hs1[a].free
      /\ \A x \in DOMAIN headers \ {a} :
           End(hs1, x) = End(headers, x) /\ hs1[x].free = headers[x].free
  <2>1. CASE o = a
    BY <2>1
  <2>2. CASE o # a
    <3>1. headers[a].free
      BY DEF Fits
    <3> HIDE DEF hs1
    <3> QED
      BY <1>4, <2>2, <3>1 DEF Cuts
  <2> QED
    BY <2>1, <2>2
<1> HIDE DEF hs1
<1>6. /\ ListAt(hs2, end) /\ o \in DOMAIN hs2
      /\ cut => Cuts(hs1, hs2, o, q, TRUE) /\ q \notin DOMAIN hs1
  <2>1. CASE ~cut
    BY <1>4, <2>1
  <2>2. CASE cut
    <3>1. Inside(hs1, o, q)
      BY <1>1, <1>2, <1>4, <2>2 DEF Inside, RoomAfter
    <3> HIDE DEF q
    <3>2. ListAt(hs2, end) /\ Cuts(hs1, hs2, o, q, TRUE)
      BY <1>1, <1>4, <2>2, <3>1, SplitList
    <3>3. q \notin DOMAIN hs1
      BY <1>1, <1>4, <3>1, InsideIsNew
    <3> HIDE DEF hs2
    <3> QED
      BY <1>4, <3>2, <3>3 DEF Cuts
  <2> QED
    BY <2>1, <2>2
<1>7. /\ DOMAIN hs2 = IF cut THEN DOMAIN hs1 \cup {q} ELSE DOMAIN hs1
      /\ End(hs2, o) = IF cut THEN q ELSE End(headers, a)
      /\ cut => End(hs2, q) = End(headers, a) /\ hs2[q].free
      /\ \A x \in DOMAIN hs1 \ {o} :
           End(hs2, x) = End(hs1, x) /\ hs2[x].free = hs1[x].free
  <2>1. CASE ~cut
    BY <1>4, <2>1
  <2>2. CASE cut
    <3> HIDE DEF hs2, cut
    <3> QED
      BY <1>4, <1>6, <2>2 DEF Cuts
  <2> QED
    BY <2>1, <2>2
<1>8. q <= End(hs2, o) /\ End(hs2, o) <= q + HEADER
  <2>1. CASE cut
    <3> HIDE DEF q, cut, hs2
    <3>1. End(hs2, o) = q
      BY <1>7, <2>1
    <3>2. q \in Nat
      BY <1>1
    <3> QED
      BY <3>1, <3>2
  <2>2. CASE ~cut
    <3>1. ~(End(headers, a) - q > HEADER)
      BY <1>4, <2>2 DEF RoomAfter
    <3> HIDE DEF q, cut, hs2
    <3>2. End(hs2, o) = End(headers, a)
      BY <1>7, <2>2
    <3>3. q \in Nat /\ End(headers, a) \in Nat /\ q <= End(headers, a)
      BY <1>1
    <3> QED
      BY <3>1, <3>2, <3>3
  <2> QED
    BY <2>1, <2>2
<1> HIDE DEF hs2, q, cut
<1>9. ListAt(new, end) /\ Marks(hs2, new, o, FALSE)
  BY <1>3, <1>6, MarkList
<1>10. /\ DOMAIN new = DOMAIN hs2 /\ ~new[o].free
       /\ \A x \in DOMAIN hs2 : End(new, x) = End(hs2, x)
       /\ \A x \in DOMAIN hs2 \ {o} : new[x].free = hs2[x].free
  BY <1>6, <1>9 DEF Marks
<1>11. /\ o \in DOMAIN new /\ o + HEADER <= p
       /\ p + size <= End(new, o) /\ End(new, o) <= p + size + HEADER
       /\ o # a => o \notin DOMAIN headers
  <2>1. o \in DOMAIN new /\ End(new, o) = End(hs2, o)
    BY <1>6, <1>10
  <2>2. q <= End(new, o) /\ End(new, o) <= q + HEADER
    BY <1>8, <2>1, Zenon
  <2> QED
    <3>1. p + size <= End(new, o) /\ End(new, o) <= p + size + HEADER
      BY <2>2, Zenon DEF q
    <3>2. o # a => o \notin DOMAIN headers
      BY <1>4
    <3> QED
      BY <1>2, <2>1, <3>1, <3>2
<1>12. ASSUME NEW x \in DOMAIN headers \ {a}
       PROVE  x \in DOMAIN new /\ End(new, x) = End(headers, x) /\ new[x].free = headers[x].free
  <2>1. x \in DOMAIN hs1 /\ x # o
    BY <1>4, <1>5
  <2>2. x \in DOMAIN hs2 /\ End(hs2, x) = End(hs1, x) /\ hs2[x].free = hs1[x].free
    BY <1>7, <2>1
  <2>3. x \in DOMAIN new /\ End(new, x) = End(hs2, x) /\ new[x].free = hs2[x].free
    BY <1>10, <2>1, <2>2
  <2> QED
    BY <1>5, <2>2, <2>3
<1>13. ASSUME NEW x \in DOMAIN new
       PROVE  \/ x \in DOMAIN headers \ {a}
              \/ x = o
              \/ x = a /\ End(new, x) = o /\ new[x].free
              \/ End(new, o) = x /\ End(new, x) = End(headers, a) /\ new[x].free
  <2>1. CASE cut /\ x = q
    BY <1>4, <1>6, <1>7, <1>10, <2>1
  <2>2. CASE x \in DOMAIN headers \cup {o}
    BY <1>4, <1>5, <1>6, <1>7, <1>10, <2>2
  <2> QED
    BY <1>5, <1>7, <1>10, <2>1, <2>2
<1>14. Gives(headers, new, a, o, p, size)
  BY <1>10, <1>11, <1>12, <1>13 DEF Gives
<1> QED
  BY <1>2, <1>9, <1>14

LEMMA GivenCoalesced ==
  ASSUME NEW end \in Nat, NEW hs, ListAt(hs, end), NEW a \in DOMAIN hs,
         hs[a].free, CoalescedAt(hs),
         NEW new, ListAt(new, end), NEW o, NEW p \in Nat, NEW size \in Nat,
         Gives(hs, new, a, o, p, size)
  PROVE  CoalescedAt(new)
<1> USE HeapAssumption
<1>1. SUFFICES ASSUME NEW x \in DOMAIN new, NEW y \in DOMAIN new,
                      End(new, x) = y, new[x].free, new[y].free
               PROVE  FALSE
  BY DEF CoalescedAt, CoalescedBut
<1>2. /\ o \in DOMAIN new /\ ~new[o].free
      /\ \A z \in DOMAIN hs \ {a} :
           z \in DOMAIN new /\ End(new, z) = End(hs, z) /\ new[z].free = hs[z].free
      /\ \A z \in DOMAIN new : \/ z \in DOMAIN hs \ {a}
                               \/ z = o
                               \/ z = a /\ End(new, z) = o
                               \/ End(new, o) = z /\ End(new, z) = End(hs, a)
  BY DEF Gives
<1>3. \A u, v \in DOMAIN hs : End(hs, u) = v /\ hs[u].free => ~hs[v].free
  <2>1. \A v \in DOMAIN hs : v # NULL
    BY EndType
  <2> QED
    BY <2>1 DEF CoalescedAt, CoalescedBut
<1>4. x # o /\ y # o
  BY <1>1, <1>2
<1>5. End(new, x) # o
  BY <1>1, <1>4
<1>6. CASE x \in DOMAIN hs \ {a}
  <2>1. End(hs, x) = y /\ hs[x].free
    BY <1>1, <1>2, <1>6
  <2>2. CASE y \in DOMAIN hs \ {a}
    BY <1>1, <1>2, <1>3, <1>6, <2>1, <2>2
  <2>3. CASE y = a
    BY <1>3, <1>6, <2>1, <2>3
  <2>4. CASE End(new, o) = y
    <3>1. x = o
      BY <1>1, <1>2, <2>4, BeforeIsOne
    <3> QED
      BY <1>4, <3>1
  <2> QED
    BY <1>2, <1>4, <2>2, <2>3, <2>4
<1>7. CASE End(new, o) = x /\ End(new, x) = End(hs, a)
  <2>1. End(hs, a) = y
    BY <1>1, <1>7
  <2>2. CASE y \in DOMAIN hs \ {a}
    BY <1>1, <1>2, <1>3, <2>1, <2>2
  <2>3. CASE y = a
    BY <2>1, <2>3, EndType
  <2>4. CASE End(new, o) = y
    <3>1. x = y
      BY <1>7, <2>4
    <3> QED
      BY <1>1, <3>1, EndType
  <2> QED
    BY <1>2, <1>4, <2>2, <2>3, <2>4
<1> QED
  BY <1>2, <1>4, <1>5, <1>6, <1>7

(***************************************************************************)
(* A block that is released.                                               *)
(***************************************************************************)
\* The block of a goes back; those that are in use stay.
Returns(hs, new, a) ==
  /\ \A x \in DOMAIN new : x \in DOMAIN hs
  /\ \A x \in DOMAIN hs :
       ~hs[x].free /\ x # a =>
         x \in DOMAIN new /\ End(new, x) = End(hs, x) /\ ~new[x].free
  /\ \A x \in DOMAIN new : ~new[x].free => ~hs[x].free /\ x # a

LEMMA NotCoalesced ==
  ASSUME NEW end \in Nat, NEW hs, ListAt(hs, end), CoalescedAt(hs),
         NEW x \in DOMAIN hs, NEW y \in DOMAIN hs, End(hs, x) = y
  PROVE  ~(hs[x].free /\ hs[y].free)
<1>1. y # NULL
  BY EndType
<1> QED
  BY <1>1 DEF CoalescedAt, CoalescedBut

\* Merging what is free behind a block that has just become free.
MergesBehind(hs, hs1, a, new) ==
  LET n == hs[a].next
  IN new = IF n # NULL /\ hs[n].free THEN Merged(hs1, a) ELSE hs1

\* The list that results; only what lies before a may still be free beside it.
MergedBehind(hs, new, a, end) ==
  /\ ListAt(new, end) /\ Returns(hs, new, a) /\ CoalescedBut(new, a)
  /\ a \in DOMAIN new /\ new[a].free
  /\ \A x \in DOMAIN hs : x # a /\ x # hs[a].next => x \in DOMAIN new
  /\ \A x \in DOMAIN new : x # a => End(new, x) = End(hs, x) /\ new[x].free = hs[x].free

LEMMA MergeBehind ==
  ASSUME NEW end \in Nat, NEW hs, ListAt(hs, end), CoalescedAt(hs),
         NEW a \in DOMAIN hs, ~hs[a].free,
         NEW hs1, ListAt(hs1, end), Marks(hs, hs1, a, TRUE),
         NEW new, MergesBehind(hs, hs1, a, new)
  PROVE  MergedBehind(hs, new, a, end)
<1> USE HeapAssumption
<1> DEFINE n == hs[a].next
<1>0. new = IF n # NULL /\ hs[n].free THEN Merged(hs1, a) ELSE hs1
  BY DEF MergesBehind
<1>n. n = Link(End(hs, a), end)
  BY DEF ListAt
<1>1. /\ DOMAIN hs1 = DOMAIN hs
      /\ \A x \in DOMAIN hs : /\ End(hs1, x) = End(hs, x)
                              /\ hs1[x].free = IF x = a THEN TRUE ELSE hs[x].free
  BY DEF Marks
<1>2. hs1[a].next = n
  <2>1. hs1[a].next = Link(End(hs1, a), end)
    BY <1>1 DEF ListAt
  <2> QED
    BY <1>1, <1>n, <2>1
<1> HIDE DEF n
<1>3. CASE ~(n # NULL /\ hs[n].free)
  <2>1. new = hs1
    BY <1>0, <1>3
  <2>2. CoalescedBut(new, a)
    <3>1. SUFFICES ASSUME NEW x \in DOMAIN hs, NEW y \in DOMAIN hs,
                          End(hs, x) = y, hs1[x].free, hs1[y].free, y # a
                   PROVE  FALSE
      BY <1>1, <2>1 DEF CoalescedBut
    <3>2. hs[y].free
      BY <1>1, <3>1
    <3>3. CASE x = a
      <4>1. n = y
        <5>1. n = Link(y, end)
          BY <1>n, <3>1, <3>3
        <5>2. y # end
          <6>1. End(hs, y) <= end /\ y < End(hs, y) /\ y \in Nat /\ End(hs, y) \in Nat
            BY EndType DEF ListAt
          <6> QED
            BY <6>1
        <5> QED
          BY <5>1, <5>2 DEF Link
      <4>2. y # NULL
        BY EndType
      <4> QED
        BY <1>3, <3>2, <4>1, <4>2
    <3>4. CASE x # a
      BY <1>1, <3>1, <3>2, <3>4, NotCoalesced
    <3> QED
      BY <3>3, <3>4
  <2>3. Returns(hs, new, a)
    BY <1>1, <2>1 DEF Returns
  <2> QED
    BY <1>1, <2>1, <2>2, <2>3 DEF MergedBehind, n
<1>4. CASE n # NULL /\ hs[n].free
  <2>1. new = Merged(hs1, a)
    BY <1>0, <1>4
  <2>2. ListAt(new, end) /\ Joins(hs1, new, a, n)
    BY <1>1, <1>2, <1>4, <2>1, MergeList
  <2>3. n \in DOMAIN hs /\ n = End(hs, a) /\ n # a
    <3>1. n \in DOMAIN hs /\ n = End(hs, a) /\ a < n
      BY <1>4, NextIsHeader DEF n
    <3>2. a \in Nat
      BY EndType
    <3> QED
      BY <3>1, <3>2
  <2>4. /\ DOMAIN new = DOMAIN hs \ {n} /\ a \in DOMAIN new /\ new[a].free
        /\ End(new, a) = End(hs, n)
        /\ \A x \in DOMAIN new : x # a => End(new, x) = End(hs, x) /\ new[x].free = hs[x].free
    BY <1>1, <2>2, <2>3 DEF Joins
  <2>5. CoalescedBut(new, a)
    <3>1. SUFFICES ASSUME NEW x \in DOMAIN new, NEW y \in DOMAIN new,
                          End(new, x) = y, new[x].free, new[y].free, y # a
                   PROVE  FALSE
      BY DEF CoalescedBut
    <3>2. hs[y].free /\ y \in DOMAIN hs
      BY <2>4, <3>1
    <3>3. CASE x = a
      <4>1. End(hs, n) = y
        BY <2>4, <3>1, <3>3
      <4> QED
        BY <1>4, <2>3, <3>2, <4>1, NotCoalesced
    <3>4. CASE x # a
      <4>1. End(hs, x) = y /\ hs[x].free /\ x \in DOMAIN hs
        BY <2>4, <3>1, <3>4
      <4> QED
        BY <3>2, <4>1, NotCoalesced
    <3> QED
      BY <3>3, <3>4
  <2>6. Returns(hs, new, a)
    BY <1>4, <2>4 DEF Returns
  <2> QED
    BY <2>2, <2>4, <2>5, <2>6 DEF n, MergedBehind
<1> QED
  BY <1>3, <1>4 DEF n

LEMMA ReturnedList ==
  ASSUME NEW end \in Nat, NEW hs, ListAt(hs, end), CoalescedAt(hs),
         NEW a \in DOMAIN hs, ~hs[a].free,
         NEW new, new = Returned(hs, a)
  PROVE  ListAt(new, end) /\ CoalescedAt(new) /\ Returns(hs, new, a)
<1> USE HeapAssumption
<1> DEFINE hs1 == [hs EXCEPT ![a].free = TRUE]
           n   == hs[a].next
           hs2 == IF n # NULL /\ hs[n].free THEN Merged(hs1, a) ELSE hs1
           q   == hs[a].prev
<1>1. new = IF q # NULL /\ hs[q].free THEN Merged(hs2, q) ELSE hs2
  BY DEF Returned
<1>2. ListAt(hs1, end) /\ Marks(hs, hs1, a, TRUE)
  BY MarkList
<1> HIDE DEF hs1
<1>3. /\ ListAt(hs2, end) /\ Returns(hs, hs2, a) /\ CoalescedBut(hs2, a)
      /\ a \in DOMAIN hs2 /\ hs2[a].free
      /\ \A x \in DOMAIN hs : x # a /\ x # n => x \in DOMAIN hs2
      /\ \A x \in DOMAIN hs2 : x # a => End(hs2, x) = End(hs, x) /\ hs2[x].free = hs[x].free
  <2>1. MergesBehind(hs, hs1, a, hs2)
    BY DEF MergesBehind
  <2> HIDE DEF hs2
  <2>2. MergedBehind(hs, hs2, a, end)
    BY <1>2, <2>1, MergeBehind
  <2> QED
    BY <2>2 DEF MergedBehind
<1> HIDE DEF hs2
<1>4. /\ a \in Nat /\ a < End(hs, a) /\ End(hs, a) \in Nat /\ Kheap <= a
      /\ \A x \in DOMAIN hs2 : x \in DOMAIN hs /\ x \in Nat /\ x < End(hs2, x)
  BY <1>3, EndType DEF Returns
<1>5. a # Kheap => q \in DOMAIN hs /\ End(hs, q) = a
  BY DEF ListAt
<1>6. a = Kheap => q = NULL
  BY DEF ListAt
<1>7. n = Link(End(hs, a), end)
  BY DEF ListAt
<1>8. CASE q # NULL /\ hs[q].free
  <2>1. q \in DOMAIN hs /\ End(hs, q) = a /\ q \in Nat /\ q < a
    BY <1>5, <1>6, <1>8, EndType
  <2>2. q # n
    BY <1>4, <1>7, <2>1, <1>8 DEF Link
  <2> HIDE DEF q, n
  <2>3. q \in DOMAIN hs2 /\ End(hs2, q) = a /\ q # a
    BY <1>3, <1>4, <2>1, <2>2
  <2>4. hs2[q].next = a
    <3>1. hs2[q].next = Link(a, end)
      BY <1>3, <2>3 DEF ListAt
    <3>2. a # end
      <4>1. End(hs2, a) <= end /\ End(hs2, a) \in Nat
        BY <1>3, EndType DEF ListAt
      <4> QED
        BY <1>3, <1>4, <4>1
    <3> QED
      BY <3>1, <3>2 DEF Link
  <2>5. a # NULL
    BY EndType
  <2>6. new = Merged(hs2, q)
    BY <1>1, <1>8
  <2>7. ListAt(new, end) /\ Joins(hs2, new, q, a)
    BY <1>3, <2>3, <2>4, <2>5, <2>6, MergeList
  <2>8. /\ DOMAIN new = DOMAIN hs2 \ {a}
        /\ End(new, q) = End(hs2, a)
        /\ \A x \in DOMAIN new : new[x].free = hs2[x].free
        /\ \A x \in DOMAIN new : x # q => End(new, x) = End(hs2, x)
    BY <2>7 DEF Joins
  <2>9. CoalescedAt(new)
    <3>1. SUFFICES ASSUME NEW x \in DOMAIN new, NEW y \in DOMAIN new,
                          End(new, x) = y, new[x].free, new[y].free
                   PROVE  FALSE
      BY DEF CoalescedAt, CoalescedBut
    <3>2. x \in DOMAIN hs2 /\ y \in DOMAIN hs2 /\ y # a /\ hs2[x].free /\ hs2[y].free
      BY <2>8, <3>1
    <3>3. CASE x = q
      BY <1>3, <2>8, <3>1, <3>2, <3>3 DEF CoalescedBut
    <3>4. CASE x # q
      BY <1>3, <2>8, <3>1, <3>2, <3>4 DEF CoalescedBut
    <3> QED
      BY <3>3, <3>4
  <2>10. Returns(hs, new, a)
    BY <1>3, <1>8, <2>8 DEF Returns
  <2> QED
    BY <2>7, <2>9, <2>10
<1>9. CASE ~(q # NULL /\ hs[q].free)
  <2>1. new = hs2
    BY <1>1, <1>9
  <2>2. CoalescedAt(hs2)
    <3>1. SUFFICES ASSUME NEW x \in DOMAIN hs2, NEW y \in DOMAIN hs2,
                          End(hs2, x) = y, hs2[x].free, hs2[y].free
                   PROVE  FALSE
      BY DEF CoalescedAt, CoalescedBut
    <3>2. y = a
      BY <1>3, <3>1 DEF CoalescedBut
    <3>3. x # a /\ End(hs, x) = a /\ hs[x].free /\ x \in DOMAIN hs
      BY <1>3, <1>4, <3>1, <3>2
    <3>4. a # Kheap
      <4>1. Kheap <= x /\ x < a
        BY <1>4, <3>1, <3>2, <3>3, EndType
      <4> QED
        BY <1>4, <3>3, <4>1
    <3>5. x = q
      BY <1>5, <3>3, <3>4, BeforeIsOne
    <3>6. x # NULL
      BY <3>3, EndType
    <3> QED
      BY <1>9, <3>3, <3>5, <3>6
  <2> QED
    BY <1>3, <2>1, <2>2
<1> QED
  BY <1>8, <1>9

(***************************************************************************)
(* Who holds what.                                                         *)
(***************************************************************************)
Kind == {"program", "table"}

Block == [ptr : Nat, size : Nat, aligned : BOOLEAN, kind : Kind]

OwnedAt(hs, lv) ==
  /\ \A b \in lv : \E a \in DOMAIN hs : ~hs[a].free /\ HoldsIn(hs, a, b)
  /\ \A a \in DOMAIN hs :
       /\ ~hs[a].free => \E b \in lv : HoldsIn(hs, a, b)
       /\ \A b, c \in lv : HoldsIn(hs, a, b) /\ HoldsIn(hs, a, c) => b = c

\* A block that is not aligned comes right behind its header, which is at most
\* one header longer than it.
BlockOK(hs, b) ==
  /\ b \in Block
  /\ b.aligned => b.ptr % ALIGN = 0
  /\ ~b.aligned => /\ b.ptr - HEADER \in DOMAIN hs
                   /\ End(hs, b.ptr - HEADER) <= b.ptr + b.size + HEADER

BlocksOK(hs, lv) == \A b \in lv : BlockOK(hs, b)

LEMMA BlockType ==
  ASSUME NEW hs, NEW b, BlockOK(hs, b)
  PROVE  b.ptr \in Nat /\ b.size \in Nat /\ b.aligned \in BOOLEAN /\ b.kind \in Kind
BY DEF BlockOK, Block

\* The header of a block, where the list has it.
LEMMA OwnerOf ==
  ASSUME NEW hs, NEW end \in Nat, ListAt(hs, end), NEW lv, OwnedAt(hs, lv),
         BlocksOK(hs, lv), NEW b \in lv
  PROVE  \E a \in DOMAIN hs : /\ ~hs[a].free /\ HoldsIn(hs, a, b)
                              /\ a + HEADER <= b.ptr /\ b.ptr <= End(hs, a)
                              /\ b.ptr + b.size <= End(hs, a)
<1>1. PICK a \in DOMAIN hs : ~hs[a].free /\ HoldsIn(hs, a, b)
  BY DEF OwnedAt
<1>2. b.ptr \in Nat /\ b.size \in Nat
  BY BlockType DEF BlocksOK
<1>3. End(hs, a) \in Nat
  BY EndType
<1> QED
  BY <1>1, <1>2, <1>3 DEF HoldsIn

LEMMA HeaderBefore ==
  ASSUME NEW hs, NEW end \in Nat, ListAt(hs, end), NEW lv, OwnedAt(hs, lv),
         BlocksOK(hs, lv), NEW b \in lv, b.ptr - HEADER \in DOMAIN hs
  PROVE  ~hs[b.ptr - HEADER].free /\ HoldsIn(hs, b.ptr - HEADER, b)
<1>1. PICK a \in DOMAIN hs : /\ ~hs[a].free /\ HoldsIn(hs, a, b)
                             /\ a + HEADER <= b.ptr /\ b.ptr <= End(hs, a)
  BY OwnerOf
<1>2. b.ptr \in Nat
  BY BlockType DEF BlocksOK
<1>3. a = b.ptr - HEADER
  BY <1>1, <1>2, HeaderIsHolders
<1> QED
  BY <1>1, <1>3

LEMMA PtrIsOne ==
  ASSUME NEW hs, NEW end \in Nat, ListAt(hs, end), NEW lv, OwnedAt(hs, lv),
         BlocksOK(hs, lv), NEW b \in lv, NEW c \in lv, b.ptr = c.ptr
  PROVE  b = c
<1>1. PICK a \in DOMAIN hs : /\ ~hs[a].free /\ HoldsIn(hs, a, b)
                             /\ a + HEADER <= b.ptr /\ b.ptr <= End(hs, a)
  BY OwnerOf
<1>2. PICK d \in DOMAIN hs : /\ ~hs[d].free /\ HoldsIn(hs, d, c)
                             /\ d + HEADER <= c.ptr /\ c.ptr <= End(hs, d)
  BY OwnerOf
<1>3. b.ptr \in Nat
  BY BlockType DEF BlocksOK
<1>4. a = d
  BY <1>1, <1>2, <1>3, HolderOfPlace
<1> QED
  BY <1>1, <1>2, <1>4 DEF OwnedAt

LEMMA GivenOwned ==
  ASSUME NEW end \in Nat, NEW hs, ListAt(hs, end), NEW a \in DOMAIN hs, hs[a].free,
         NEW new, ListAt(new, end), NEW o, NEW b \in Block,
         Gives(hs, new, a, o, b.ptr, b.size), BlockOK(new, b),
         NEW lv, OwnedAt(hs, lv), BlocksOK(hs, lv)
  PROVE  /\ OwnedAt(new, lv \cup {b}) /\ BlocksOK(new, lv \cup {b})
         /\ b \notin lv
         /\ \A c \in lv : b.ptr + b.size <= c.ptr \/ c.ptr + c.size <= b.ptr
<1> USE HeapAssumption
<1>1. /\ o \in DOMAIN new /\ ~new[o].free /\ HoldsIn(new, o, b)
      /\ o # a => o \notin DOMAIN hs
      /\ \A x \in DOMAIN hs \ {a} :
           x \in DOMAIN new /\ End(new, x) = End(hs, x) /\ new[x].free = hs[x].free
      /\ \A x \in DOMAIN new : ~new[x].free => x \in DOMAIN hs \ {a} \/ x = o
  BY DEF Gives, HoldsIn
<1>2. b.ptr \in Nat /\ b.size \in Nat
  BY DEF Block
<1>3. ASSUME NEW c \in lv
      PROVE  \E x \in DOMAIN hs \ {a} : /\ x \in DOMAIN new /\ x # o /\ ~new[x].free
                                        /\ ~hs[x].free
                                        /\ HoldsIn(hs, x, c) /\ HoldsIn(new, x, c)
  <2>1. PICK x \in DOMAIN hs : ~hs[x].free /\ HoldsIn(hs, x, c)
    BY DEF OwnedAt
  <2>2. x # a
    BY <2>1
  <2> QED
    BY <1>1, <2>1, <2>2 DEF HoldsIn
<1>4. \A c \in lv : c.ptr \in Nat /\ c.size \in Nat
  BY BlockType DEF BlocksOK
<1>5. b \notin lv
  <2>1. SUFFICES ASSUME b \in lv PROVE FALSE
    OBVIOUS
  <2>2. PICK x \in DOMAIN new : x # o /\ HoldsIn(new, x, b)
    BY <1>3, <2>1
  <2> QED
    BY <1>1, <1>2, <2>2, HolderIsOne
<1>6. ASSUME NEW c \in lv
      PROVE  b.ptr + b.size <= c.ptr \/ c.ptr + c.size <= b.ptr
  <2>1. PICK x \in DOMAIN new : x # o /\ HoldsIn(new, x, c)
    BY <1>3
  <2>2. /\ x \in Nat /\ o \in Nat /\ End(new, x) \in Nat /\ End(new, o) \in Nat
        /\ x < o => End(new, x) <= o
        /\ o < x => End(new, o) <= x
    BY <1>1, <2>1, EndType DEF ListAt
  <2>3. /\ o + HEADER <= b.ptr /\ b.ptr + b.size <= End(new, o)
        /\ x + HEADER <= c.ptr /\ c.ptr + c.size <= End(new, x)
    BY <1>1, <2>1 DEF HoldsIn
  <2>4. c.ptr \in Nat /\ c.size \in Nat
    BY <1>4
  <2> QED
    BY <1>2, <2>1, <2>2, <2>3, <2>4
<1>7. OwnedAt(new, lv \cup {b})
  <2>1. \A c \in lv \cup {b} : \E x \in DOMAIN new : ~new[x].free /\ HoldsIn(new, x, c)
    BY <1>1, <1>3
  <2>2. ASSUME NEW x \in DOMAIN new, ~new[x].free
        PROVE  \E c \in lv \cup {b} : HoldsIn(new, x, c)
    <3>1. CASE x = o
      BY <1>1, <3>1
    <3>2. CASE x \in DOMAIN hs \ {a}
      <4>1. PICK c \in lv : HoldsIn(hs, x, c)
        BY <1>1, <2>2, <3>2 DEF OwnedAt
      <4>2. HoldsIn(new, x, c)
        BY <1>1, <3>2, <4>1 DEF HoldsIn
      <4> QED
        BY <4>2
    <3> QED
      BY <1>1, <2>2, <3>1, <3>2
  <2>3. ASSUME NEW x \in DOMAIN new, NEW c \in lv \cup {b}, NEW d \in lv \cup {b},
               HoldsIn(new, x, c), HoldsIn(new, x, d)
        PROVE  c = d
    <3>1. ASSUME NEW e \in lv, HoldsIn(new, x, e)
          PROVE  x \in DOMAIN hs \ {a} /\ x # o /\ HoldsIn(hs, x, e)
      <4>1. PICK y \in DOMAIN hs \ {a} : /\ y \in DOMAIN new /\ y # o
                                         /\ HoldsIn(hs, y, e) /\ HoldsIn(new, y, e)
        BY <1>3
      <4>2. x = y
        BY <1>4, <3>1, <4>1, HolderIsOne
      <4> QED
        BY <4>1, <4>2
    <3>2. HoldsIn(new, x, b) => x = o
      BY <1>1, <1>2, HolderIsOne
    <3> QED
      BY <2>3, <3>1, <3>2 DEF OwnedAt
  <2> QED
    BY <2>1, <2>2, <2>3 DEF OwnedAt
<1>8. ASSUME NEW c \in lv
      PROVE  BlockOK(new, c)
  <2>1. BlockOK(hs, c)
    BY DEF BlocksOK
  <2>2. CASE c.aligned
    BY <2>1, <2>2 DEF BlockOK
  <2>3. CASE ~c.aligned
    <3>1. c.ptr - HEADER \in DOMAIN hs
      BY <2>1, <2>3 DEF BlockOK
    <3>2. ~hs[c.ptr - HEADER].free
      BY <3>1, HeaderBefore
    <3>3. c.ptr - HEADER \in DOMAIN hs \ {a}
      BY <3>1, <3>2
    <3>4. /\ c.ptr - HEADER \in DOMAIN new
          /\ End(new, c.ptr - HEADER) = End(hs, c.ptr - HEADER)
      BY <1>1, <3>3
    <3> QED
      BY <2>1, <2>3, <3>4 DEF BlockOK
  <2> QED
    BY <2>2, <2>3
<1> QED
  BY <1>5, <1>6, <1>7, <1>8 DEF BlocksOK

LEMMA ReturnedOwned ==
  ASSUME NEW end \in Nat, NEW hs, ListAt(hs, end), NEW a \in DOMAIN hs,
         NEW new, ListAt(new, end), Returns(hs, new, a),
         NEW lv, OwnedAt(hs, lv), BlocksOK(hs, lv),
         NEW d \in lv, HoldsIn(hs, a, d)
  PROVE  OwnedAt(new, lv \ {d}) /\ BlocksOK(new, lv \ {d})
<1>1. /\ \A x \in DOMAIN hs :
           ~hs[x].free /\ x # a =>
             x \in DOMAIN new /\ End(new, x) = End(hs, x) /\ ~new[x].free
      /\ \A x \in DOMAIN new : x \in DOMAIN hs
      /\ \A x \in DOMAIN new : ~new[x].free => ~hs[x].free /\ x # a
  BY DEF Returns
<1>2. \A c \in lv : c.ptr \in Nat /\ c.size \in Nat
  BY BlockType DEF BlocksOK
<1>3. ASSUME NEW c \in lv \ {d}
      PROVE  \E x \in DOMAIN hs : /\ x # a /\ x \in DOMAIN new /\ ~new[x].free
                                  /\ HoldsIn(hs, x, c) /\ HoldsIn(new, x, c)
  <2>1. PICK x \in DOMAIN hs : ~hs[x].free /\ HoldsIn(hs, x, c)
    BY DEF OwnedAt
  <2>2. x # a
    BY <2>1 DEF OwnedAt
  <2> QED
    BY <1>1, <2>1, <2>2 DEF HoldsIn
<1>4. OwnedAt(new, lv \ {d})
  <2>1. \A c \in lv \ {d} : \E x \in DOMAIN new : ~new[x].free /\ HoldsIn(new, x, c)
    BY <1>3
  <2>2. ASSUME NEW x \in DOMAIN new, ~new[x].free
        PROVE  \E c \in lv \ {d} : HoldsIn(new, x, c)
    <3>1. x \in DOMAIN hs /\ ~hs[x].free /\ x # a
      BY <1>1, <2>2
    <3>2. PICK c \in lv : HoldsIn(hs, x, c)
      BY <3>1 DEF OwnedAt
    <3>3. c # d
      BY <1>2, <3>1, <3>2, HolderIsOne
    <3>4. HoldsIn(new, x, c)
      BY <1>1, <3>1, <3>2 DEF HoldsIn
    <3> QED
      BY <3>3, <3>4
  <2>3. ASSUME NEW x \in DOMAIN new, NEW c \in lv \ {d}, NEW e \in lv \ {d},
               HoldsIn(new, x, c), HoldsIn(new, x, e)
        PROVE  c = e
    <3>1. ASSUME NEW f \in lv \ {d}, HoldsIn(new, x, f)
          PROVE  x \in DOMAIN hs /\ HoldsIn(hs, x, f)
      <4>1. PICK y \in DOMAIN hs : /\ y \in DOMAIN new
                                   /\ HoldsIn(hs, y, f) /\ HoldsIn(new, y, f)
        BY <1>3
      <4>2. x = y
        BY <1>2, <3>1, <4>1, HolderIsOne
      <4> QED
        BY <4>1, <4>2
    <3> QED
      BY <2>3, <3>1 DEF OwnedAt
  <2> QED
    BY <2>1, <2>2, <2>3 DEF OwnedAt
<1>5. ASSUME NEW c \in lv \ {d}
      PROVE  BlockOK(new, c)
  <2>1. BlockOK(hs, c)
    BY DEF BlocksOK
  <2>2. CASE c.aligned
    BY <2>1, <2>2 DEF BlockOK
  <2>3. CASE ~c.aligned
    <3> DEFINE h == c.ptr - HEADER
    <3>1. h \in DOMAIN hs
      BY <2>1, <2>3 DEF BlockOK
    <3>2. ~hs[h].free /\ HoldsIn(hs, h, c)
      BY <3>1, HeaderBefore
    <3> HIDE DEF h
    <3>3. h # a
      BY <3>2 DEF OwnedAt
    <3>4. h \in DOMAIN new /\ End(new, h) = End(hs, h)
      BY <1>1, <3>1, <3>2, <3>3
    <3> QED
      BY <2>1, <2>3, <3>4 DEF BlockOK, h
  <2> QED
    BY <2>2, <2>3
<1> QED
  BY <1>4, <1>5 DEF BlocksOK

(***************************************************************************)
(* The heap that grows.                                                    *)
(***************************************************************************)
\* What is in use stays as it is; there is a free block as long as what is added.
Grows(hs, new) ==
  /\ \A x \in DOMAIN hs :
       /\ x \in DOMAIN new /\ new[x].free = hs[x].free
       /\ ~hs[x].free => End(new, x) = End(hs, x)
  /\ \A x \in DOMAIN new : ~new[x].free => x \in DOMAIN hs /\ ~hs[x].free
  /\ \E x \in DOMAIN new : new[x].free /\ x + EXPAND <= End(new, x)

LEMMA LastList ==
  ASSUME NEW hs, NEW end \in Nat, ListAt(hs, end)
  PROVE  Last(hs) \in DOMAIN hs /\ End(hs, Last(hs)) = end
<1>1. \A a \in DOMAIN hs : hs[a].next = NULL <=> End(hs, a) = end
  <2>1. ASSUME NEW a \in DOMAIN hs
        PROVE  hs[a].next = NULL <=> End(hs, a) = end
    <3>1. hs[a].next = Link(End(hs, a), end)
      BY DEF ListAt
    <3>2. End(hs, a) # NULL
      BY EndType DEF NULL
    <3> QED
      BY <3>1, <3>2 DEF Link
  <2> QED
    BY <2>1
<1>2. PICK a \in DOMAIN hs : End(hs, a) = end
  BY DEF ListAt
<1> QED
  BY <1>1, <1>2 DEF Last

\* A last block that is free becomes longer.
Longer(hs, a) == [hs EXCEPT ![a].length = @ + EXPAND]

LEMMA LongerList ==
  ASSUME NEW hs, NEW end \in Nat, ListAt(hs, end), CoalescedAt(hs),
         NEW a \in DOMAIN hs, End(hs, a) = end, hs[a].free,
         NEW new, new = Longer(hs, a)
  PROVE  ListAt(new, end + EXPAND) /\ CoalescedAt(new) /\ Grows(hs, new)
<1> DEFINE far == end + EXPAND
<1>a. EXPAND \in Nat /\ EXPAND > 0 /\ HEADER \in Nat
  BY HeapAssumption
<1>0. far \in Nat /\ end < far
  BY <1>a
<1>1. DOMAIN new = DOMAIN hs
  BY DEF Longer
<1>2. ASSUME NEW x \in DOMAIN hs
      PROVE  /\ new[x] \in Header
             /\ new[x].length = IF x = a THEN hs[x].length + EXPAND ELSE hs[x].length
             /\ new[x].next = hs[x].next /\ new[x].prev = hs[x].prev
             /\ new[x].free = hs[x].free
  <2>1. hs[x] \in Header
    BY DEF ListAt
  <2> QED
    BY <1>a, <2>1 DEF Longer, Header
<1>3. \A x \in DOMAIN hs : End(new, x) = IF x = a THEN far ELSE End(hs, x)
  <2>1. \A x \in DOMAIN hs \ {a} : End(new, x) = End(hs, x)
    BY <1>2 DEF End
  <2>2. End(new, a) = far
    <3>1. PICK n \in Nat : n = hs[a].length
      BY DEF ListAt, Header
    <3>2. a \in Nat /\ end = a + HEADER + n
      BY <3>1 DEF ListAt, End
    <3>3. End(new, a) = a + HEADER + (n + EXPAND)
      BY <1>2, <3>1 DEF End
    <3> QED
      BY <1>a, <3>2, <3>3
  <2> QED
    BY <2>1, <2>2
<1>4. \A x \in DOMAIN hs : /\ x \in Nat /\ End(hs, x) \in Nat /\ End(hs, x) <= end
                           /\ x < End(hs, x)
                           /\ x # a => End(hs, x) # end
  <2>1. \A x \in DOMAIN hs : End(hs, x) <= end
    BY DEF ListAt
  <2>2. \A x \in DOMAIN hs : x # a => End(hs, x) # end
    BY BeforeIsOne
  <2> QED
    BY <2>1, <2>2, EndType
<1> HIDE DEF far
<1>5. ListAt(new, far)
  <2>1. /\ Kheap \in DOMAIN new /\ new[Kheap].prev = NULL
        /\ \A x \in DOMAIN new : x \in Nat /\ Kheap <= x /\ new[x] \in Header
    BY <1>1, <1>2 DEF ListAt
  <2>2. \A x \in DOMAIN new :
          End(new, x) <= far /\ (End(new, x) = far \/ End(new, x) \in DOMAIN new)
    <3>1. SUFFICES ASSUME NEW x \in DOMAIN hs
                   PROVE  End(new, x) <= far /\ (End(new, x) = far \/ End(new, x) \in DOMAIN hs)
      BY <1>1
    <3>2. CASE x = a
      BY <1>0, <1>3, <3>2
    <3>3. CASE x # a
      <4>1. End(new, x) = End(hs, x) /\ End(hs, x) \in Nat /\ End(hs, x) <= end /\ End(hs, x) # end
        BY <1>3, <1>4, <3>3
      <4>2. End(hs, x) \in DOMAIN hs
        BY <4>1 DEF ListAt
      <4> QED
        BY <1>0, <4>1, <4>2
    <3> QED
      BY <3>2, <3>3
  <2>3. \E x \in DOMAIN new : End(new, x) = far
    BY <1>1, <1>3
  <2>4. \A x, y \in DOMAIN new : x < y => End(new, x) <= y
    <3>1. \A x, y \in DOMAIN hs : x < y => End(hs, x) <= y
      BY DEF ListAt
    <3>2. \A y \in DOMAIN hs : ~(a < y)
      BY <1>4, <3>1
    <3> QED
      BY <1>1, <1>3, <3>1, <3>2
  <2>5. \A x \in DOMAIN new : new[x].next = Link(End(new, x), far)
    <3>1. SUFFICES ASSUME NEW x \in DOMAIN hs
                   PROVE  new[x].next = Link(End(new, x), far)
      BY <1>1
    <3>2. new[x].next = Link(End(hs, x), end)
      BY <1>2 DEF ListAt
    <3>3. CASE x = a
      BY <1>3, <3>2, <3>3 DEF Link
    <3>4. CASE x # a
      <4>1. End(new, x) = End(hs, x) /\ End(hs, x) # end /\ End(hs, x) # far
        BY <1>0, <1>3, <1>4, <3>4
      <4> QED
        BY <3>2, <4>1 DEF Link
    <3> QED
      BY <3>3, <3>4
  <2>6. \A x \in DOMAIN new :
          x # Kheap => new[x].prev \in DOMAIN new /\ End(new, new[x].prev) = x
    <3>1. SUFFICES ASSUME NEW x \in DOMAIN hs, x # Kheap
                   PROVE  new[x].prev \in DOMAIN hs /\ End(new, new[x].prev) = x
      BY <1>1
    <3>2. PICK y \in DOMAIN hs : y = hs[x].prev /\ End(hs, y) = x
      BY <3>1 DEF ListAt
    <3>3. y # a
      BY <1>4, <3>2
    <3> QED
      BY <1>2, <1>3, <3>2, <3>3
  <2> QED
    BY <2>1, <2>2, <2>3, <2>4, <2>5, <2>6, Zenon DEF ListAt
<1>6. CoalescedAt(new)
  <2>1. \A x \in DOMAIN hs : far # x
    <3>1. \A x \in DOMAIN hs : x < end
      BY <1>4
    <3> QED
      BY <1>0, <1>4, <3>1
  <2> QED
    BY <1>1, <1>2, <1>3, <2>1 DEF CoalescedAt, CoalescedBut
<1>7. Grows(hs, new)
  <2>1. a + EXPAND <= End(new, a)
    <3>1. PICK n \in Nat : n = End(new, a)
      BY <1>0, <1>3
    <3>2. n = end + EXPAND /\ a \in Nat /\ a < end
      BY <1>3, <1>4, <3>1 DEF far
    <3> QED
      BY <1>a, <3>1, <3>2
  <2> QED
    BY <1>1, <1>2, <1>3, <2>1 DEF Grows
<1> QED
  BY <1>5, <1>6, <1>7 DEF far

\* A last block that is in use gets a free one behind it.
Appended(hs, a, end) ==
  [x \in DOMAIN hs \cup {end} |->
     CASE x = end -> [length |-> EXPAND - HEADER, free |-> TRUE,
                      next |-> NULL, prev |-> a]
       [] x = a -> [hs[a] EXCEPT !.next = end]
       [] OTHER -> hs[x]]

LEMMA AppendedList ==
  ASSUME NEW hs, NEW end \in Nat, ListAt(hs, end), CoalescedAt(hs),
         NEW a \in DOMAIN hs, End(hs, a) = end, ~hs[a].free,
         NEW new, new = Appended(hs, a, end)
  PROVE  ListAt(new, end + EXPAND) /\ CoalescedAt(new) /\ Grows(hs, new)
<1> DEFINE far == end + EXPAND
<1>a. EXPAND \in Nat /\ EXPAND > HEADER /\ HEADER \in Nat /\ HEADER > 0
  BY HeapAssumption
<1>b. far \in Nat /\ end < far /\ EXPAND - HEADER \in Nat
  BY <1>a
<1>1. \A x \in DOMAIN hs : /\ x \in Nat /\ End(hs, x) \in Nat /\ End(hs, x) <= end
                           /\ x < End(hs, x) /\ Kheap <= x /\ hs[x] \in Header
                           /\ x # a => End(hs, x) # end
  <2>1. \A x \in DOMAIN hs : End(hs, x) <= end /\ hs[x] \in Header
    BY DEF ListAt
  <2>2. \A x \in DOMAIN hs : x # a => End(hs, x) # end
    BY BeforeIsOne
  <2> QED
    BY <2>1, <2>2, EndType
<1>2. \A x \in DOMAIN hs : x < end /\ x # end
  BY <1>1
<1>3. DOMAIN new = DOMAIN hs \cup {end}
  BY DEF Appended
<1>4. /\ new[end] \in Header /\ new[end].length = EXPAND - HEADER /\ new[end].free
      /\ new[end].next = NULL /\ new[end].prev = a
  <2>1. new[end] = [length |-> EXPAND - HEADER, free |-> TRUE, next |-> NULL, prev |-> a]
    BY <1>2 DEF Appended
  <2>2. a \in Nat
    BY <1>1
  <2> QED
    BY <1>b, <2>1, <2>2 DEF Header, NULL
<1>5. /\ new[a] \in Header /\ new[a].length = hs[a].length /\ new[a].free = hs[a].free
      /\ new[a].next = end /\ new[a].prev = hs[a].prev
  <2>1. new[a] = [hs[a] EXCEPT !.next = end]
    BY <1>2 DEF Appended
  <2> QED
    BY <1>1, <2>1 DEF Header
<1>6. \A x \in DOMAIN hs : x # a => new[x] = hs[x]
  BY <1>2 DEF Appended
<1>7. \A x \in DOMAIN hs : /\ End(new, x) = End(hs, x) /\ new[x].free = hs[x].free
                           /\ new[x].prev = hs[x].prev
  BY <1>5, <1>6 DEF End
<1>8. End(new, end) = far
  <2>1. PICK n \in Nat : n = EXPAND - HEADER
    BY <1>b
  <2>2. End(new, end) = end + HEADER + n
    BY <1>4, <2>1 DEF End
  <2> QED
    BY <1>a, <2>1, <2>2
<1> HIDE DEF far
<1>9. ListAt(new, far)
  <2>1. /\ Kheap \in DOMAIN new /\ new[Kheap].prev = NULL
        /\ \A x \in DOMAIN new : x \in Nat /\ Kheap <= x /\ new[x] \in Header
    <3>1. Kheap \in DOMAIN hs /\ hs[Kheap].prev = NULL
      BY DEF ListAt
    <3>2. Kheap <= end
      BY <1>1, <1>2, <3>1
    <3> QED
      BY <1>1, <1>3, <1>4, <1>5, <1>6, <1>7, <3>1, <3>2
  <2>2. ASSUME NEW x \in DOMAIN new
        PROVE  End(new, x) <= far /\ (End(new, x) = far \/ End(new, x) \in DOMAIN new)
    <3>1. CASE x = end
      BY <1>b, <1>8, <3>1
    <3>2. CASE x \in DOMAIN hs
      <4>1. /\ End(new, x) = End(hs, x) /\ End(hs, x) \in Nat /\ End(hs, x) <= end
            /\ (End(hs, x) = end \/ End(hs, x) \in DOMAIN hs)
        BY <1>1, <1>7, <3>2 DEF ListAt
      <4> QED
        BY <1>b, <1>3, <4>1
    <3> QED
      BY <1>3, <3>1, <3>2
  <2>3. \E x \in DOMAIN new : End(new, x) = far
    BY <1>3, <1>8
  <2>4. ASSUME NEW x \in DOMAIN new, NEW y \in DOMAIN new, x < y
        PROVE  End(new, x) <= y
    <3>1. CASE x \in DOMAIN hs /\ y \in DOMAIN hs
      BY <1>7, <2>4, <3>1 DEF ListAt
    <3>2. CASE x \in DOMAIN hs /\ y = end
      BY <1>1, <1>7, <3>2
    <3>3. CASE x = end
      <4>1. y \in Nat /\ y <= end
        BY <1>1, <1>2, <1>3
      <4> QED
        BY <2>4, <3>3, <4>1
    <3> QED
      BY <1>3, <3>1, <3>2, <3>3
  <2>5. ASSUME NEW x \in DOMAIN new
        PROVE  new[x].next = Link(End(new, x), far)
    <3>1. CASE x = end
      BY <1>4, <1>8, <3>1 DEF Link
    <3>2. CASE x = a
      <4>1. End(new, a) = end /\ end # far
        BY <1>b, <1>7
      <4> QED
        BY <1>5, <3>2, <4>1 DEF Link
    <3>3. CASE x \in DOMAIN hs \ {a}
      <4>1. End(new, x) = End(hs, x) /\ End(hs, x) # end /\ End(hs, x) # far
        BY <1>b, <1>1, <1>7, <3>3
      <4>2. hs[x].next = Link(End(hs, x), end)
        BY <3>3 DEF ListAt
      <4>3. new[x].next = hs[x].next
        BY <1>6, <3>3
      <4> QED
        BY <4>1, <4>2, <4>3 DEF Link
    <3> QED
      BY <1>3, <3>1, <3>2, <3>3
  <2>6. ASSUME NEW x \in DOMAIN new, x # Kheap
        PROVE  new[x].prev \in DOMAIN new /\ End(new, new[x].prev) = x
    <3>1. CASE x = end
      BY <1>3, <1>4, <1>7, <3>1
    <3>2. CASE x \in DOMAIN hs
      <4>1. PICK y \in DOMAIN hs : y = hs[x].prev /\ End(hs, y) = x
        BY <2>6, <3>2 DEF ListAt
      <4> QED
        BY <1>3, <1>7, <3>2, <4>1
    <3> QED
      BY <1>3, <3>1, <3>2
  <2> QED
    BY <2>1, <2>2, <2>3, <2>4, <2>5, <2>6, Zenon DEF ListAt
<1>10. CoalescedAt(new)
  <2>1. SUFFICES ASSUME NEW x \in DOMAIN new, NEW y \in DOMAIN new,
                        End(new, x) = y, new[x].free, new[y].free
                 PROVE  FALSE
    BY DEF CoalescedAt, CoalescedBut
  <2>2. CASE x = end
    <3>1. y = far
      BY <1>8, <2>1, <2>2
    <3>2. y \in Nat /\ y <= end
      BY <1>1, <1>2, <1>3
    <3> QED
      BY <1>b, <3>1, <3>2
  <2>3. CASE x \in DOMAIN hs /\ y = end
    BY <1>1, <1>7, <2>1, <2>3
  <2>4. CASE x \in DOMAIN hs /\ y \in DOMAIN hs
    BY <1>7, <2>1, <2>4, NotCoalesced
  <2> QED
    BY <1>3, <2>2, <2>3, <2>4
<1>11. Grows(hs, new)
  <2>1. end + EXPAND <= End(new, end)
    BY <1>b, <1>8 DEF far
  <2> QED
    BY <1>3, <1>4, <1>7, <2>1 DEF Grows
<1> QED
  BY <1>9, <1>10, <1>11 DEF far

LEMMA ExpandedList ==
  ASSUME kheap_end \in Nat, ListAt(headers, kheap_end), CoalescedAt(headers),
         NEW new, new = Expanded
  PROVE  ListAt(new, kheap_end + EXPAND) /\ CoalescedAt(new) /\ Grows(headers, new)
<1> DEFINE a == Last(headers)
<1>1. a \in DOMAIN headers /\ End(headers, a) = kheap_end
  BY LastList
<1>2. CASE headers[a].free
  <2>1. new = Longer(headers, a)
    BY <1>2 DEF Expanded, Longer
  <2> QED
    BY <1>1, <1>2, <2>1, LongerList
<1>3. CASE ~headers[a].free
  <2>1. new = Appended(headers, a, kheap_end)
    BY <1>3 DEF Expanded, Appended
  <2> QED
    BY <1>1, <1>3, <2>1, AppendedList
<1> QED
  BY <1>2, <1>3

LEMMA ExpandedOwned ==
  ASSUME NEW hs, NEW new, Grows(hs, new), NEW lv, OwnedAt(hs, lv), BlocksOK(hs, lv),
         NEW end \in Nat, ListAt(hs, end), NEW far \in Nat, ListAt(new, far)
  PROVE  OwnedAt(new, lv) /\ BlocksOK(new, lv)
<1>1. /\ \A x \in DOMAIN hs :
           /\ x \in DOMAIN new /\ new[x].free = hs[x].free
           /\ ~hs[x].free => End(new, x) = End(hs, x)
      /\ \A x \in DOMAIN new : ~new[x].free => x \in DOMAIN hs /\ ~hs[x].free
  BY DEF Grows
<1>2. ASSUME NEW b \in lv
      PROVE  \E x \in DOMAIN hs : /\ ~hs[x].free /\ HoldsIn(hs, x, b)
                                  /\ x \in DOMAIN new /\ ~new[x].free /\ HoldsIn(new, x, b)
  <2>1. PICK x \in DOMAIN hs : ~hs[x].free /\ HoldsIn(hs, x, b)
    BY DEF OwnedAt
  <2> QED
    BY <1>1, <2>1 DEF HoldsIn
<1>3. \A b \in lv : b.ptr \in Nat /\ b.size \in Nat
  BY BlockType DEF BlocksOK
<1>4. OwnedAt(new, lv)
  <2>1. \A b \in lv : \E x \in DOMAIN new : ~new[x].free /\ HoldsIn(new, x, b)
    BY <1>2
  <2>2. ASSUME NEW x \in DOMAIN new, ~new[x].free
        PROVE  \E b \in lv : HoldsIn(new, x, b)
    <3>1. x \in DOMAIN hs /\ ~hs[x].free /\ End(new, x) = End(hs, x)
      BY <1>1, <2>2
    <3>2. PICK b \in lv : HoldsIn(hs, x, b)
      BY <3>1 DEF OwnedAt
    <3> QED
      BY <3>1, <3>2 DEF HoldsIn
  <2>3. ASSUME NEW x \in DOMAIN new, NEW b \in lv, NEW c \in lv,
               HoldsIn(new, x, b), HoldsIn(new, x, c)
        PROVE  b = c
    <3>1. ASSUME NEW e \in lv, HoldsIn(new, x, e)
          PROVE  x \in DOMAIN hs /\ HoldsIn(hs, x, e)
      <4>1. PICK y \in DOMAIN hs : y \in DOMAIN new /\ HoldsIn(hs, y, e) /\ HoldsIn(new, y, e)
        BY <1>2
      <4>2. x = y
        BY <1>3, <3>1, <4>1, HolderIsOne
      <4> QED
        BY <4>1, <4>2
    <3> QED
      BY <2>3, <3>1 DEF OwnedAt
  <2> QED
    BY <2>1, <2>2, <2>3 DEF OwnedAt
<1>5. ASSUME NEW c \in lv
      PROVE  BlockOK(new, c)
  <2>1. BlockOK(hs, c)
    BY DEF BlocksOK
  <2>2. CASE c.aligned
    BY <2>1, <2>2 DEF BlockOK
  <2>3. CASE ~c.aligned
    <3> DEFINE h == c.ptr - HEADER
    <3>1. h \in DOMAIN hs
      BY <2>1, <2>3 DEF BlockOK
    <3>2. ~hs[h].free
      BY <3>1, HeaderBefore
    <3> HIDE DEF h
    <3>3. h \in DOMAIN new /\ End(new, h) = End(hs, h)
      BY <1>1, <3>1, <3>2
    <3> QED
      BY <2>1, <2>3, <3>3 DEF BlockOK, h
  <2> QED
    BY <2>2, <2>3
<1> QED
  BY <1>4, <1>5 DEF BlocksOK

(***************************************************************************)
(* The calls that have not returned.                                       *)
(***************************************************************************)
Calls == [size : Nat, aligned : BOOLEAN, for : Kind, old : Nat]

\* A call of krealloc has its block, and asks for a header more than it has.
OldOK(c, lv) ==
  c.old # NULL =>
    ~c.aligned /\ \E b \in lv : b.ptr = c.old /\ ~b.aligned /\ b.size + HEADER <= c.size

\* Only the outermost call is one of krealloc.
CallsOK(cs, lv) ==
  /\ cs \in Seq(Calls)
  /\ \A i \in 1..Len(cs) : OldOK(cs[i], lv)
  /\ \A i \in 1..Len(cs) : i < Len(cs) => cs[i].old = NULL

FitsIn(hs, a, size, aligned) ==
  hs[a].free /\ Begin(a, aligned) + size <= End(hs, a)

\* While the next page table is missing, a call for it comes next, and a block
\* that is free is long enough.
TableComes(pt, cs, hs) ==
  ~pt => /\ cs # <<>> /\ Head(cs) = TableCall
         /\ \E a \in DOMAIN hs : FitsIn(hs, a, TABLE, TRUE)

HeapInv ==
  /\ kheap_end \in Nat /\ prealloc_pt \in BOOLEAN
  /\ trouble \in {"none", "memory", "far", "astray"}
  /\ ListAt(headers, kheap_end)
  /\ DOMAIN headers \subseteq magic
  /\ CoalescedAt(headers)
  /\ OwnedAt(headers, live)
  /\ BlocksOK(headers, live)
  /\ CallsOK(calls, live)
  /\ TableComes(prealloc_pt, calls, headers)

Promised == [Promise!AllocatorNext]_live

LEMMA CallType ==
  ASSUME NEW size \in Nat, NEW aligned \in BOOLEAN, NEW for \in Kind, NEW old \in Nat
  PROVE  /\ Call(size, aligned, for, old) \in Calls
         /\ Call(size, aligned, for, old).size = size
         /\ Call(size, aligned, for, old).aligned = aligned
         /\ Call(size, aligned, for, old).for = for
         /\ Call(size, aligned, for, old).old = old
BY DEF Call, Calls

LEMMA TableCallType ==
  TableCall \in Calls /\ TableCall.old = NULL /\ TableCall.for = "table"
<1>1. TABLE \in Nat
  BY HeapAssumption
<1> QED
  BY <1>1 DEF TableCall, Call, Calls, NULL, Kind

LEMMA OneCall ==
  ASSUME NEW c \in Calls, NEW lv, OldOK(c, lv)
  PROVE  CallsOK(<<c>>, lv)
<1>1. <<c>> \in Seq(Calls) /\ Len(<<c>>) = 1 /\ <<c>>[1] = c
  OBVIOUS
<1> QED
  BY <1>1 DEF CallsOK

LEMMA TailCalls ==
  ASSUME NEW cs, NEW lv, CallsOK(cs, lv), cs # <<>>, NEW lw,
         Head(cs).old = NULL => lv \subseteq lw
  PROVE  CallsOK(Tail(cs), lw)
<1>1. /\ cs \in Seq(Calls) /\ Len(cs) \in Nat
      /\ Tail(cs) \in Seq(Calls) /\ Len(Tail(cs)) = Len(cs) - 1
      /\ Head(cs) = cs[1] /\ Len(cs) >= 1
      /\ \A i \in 1..Len(Tail(cs)) : Tail(cs)[i] = cs[i + 1]
  BY HeadTailProperties, EmptySeq, LenProperties DEF CallsOK
<1>2. CASE cs[1].old = NULL
  <2>1. ASSUME NEW i \in 1..Len(Tail(cs))
        PROVE  OldOK(Tail(cs)[i], lw) /\ (i < Len(Tail(cs)) => Tail(cs)[i].old = NULL)
    <3>1. /\ i + 1 \in 1..Len(cs) /\ Tail(cs)[i] = cs[i + 1]
          /\ i < Len(Tail(cs)) => i + 1 < Len(cs)
      BY <1>1
    <3>2. OldOK(cs[i + 1], lv) /\ (i + 1 < Len(cs) => cs[i + 1].old = NULL)
      BY <3>1 DEF CallsOK
    <3>3. lv \subseteq lw
      BY <1>1, <1>2
    <3>4. OldOK(cs[i + 1], lw)
      BY <3>2, <3>3 DEF OldOK
    <3> QED
      BY <3>1, <3>2, <3>4
  <2> QED
    BY <1>1, <2>1 DEF CallsOK
<1>3. CASE cs[1].old # NULL
  <2>1. Len(cs) = 1
    BY <1>1, <1>3 DEF CallsOK
  <2>2. Len(Tail(cs)) = 0
    BY <1>1, <2>1
  <2>3. \A i \in 1..Len(Tail(cs)) : FALSE
    <3>1. \A i \in 1..0 : FALSE
      OBVIOUS
    <3> QED
      BY <2>2, <3>1, Zenon
  <2> QED
    BY <1>1, <2>3 DEF CallsOK
<1> QED
  BY <1>2, <1>3

LEMMA TableFirst ==
  ASSUME NEW cs, NEW lv, CallsOK(cs, lv)
  PROVE  LET new == <<TableCall>> \o cs
         IN CallsOK(new, lv) /\ new # <<>> /\ Head(new) = TableCall
<1> DEFINE new == <<TableCall>> \o cs
<1>1. cs \in Seq(Calls) /\ Len(cs) \in Nat /\ <<TableCall>> \in Seq(Calls)
  BY TableCallType, LenProperties DEF CallsOK
<1>2. /\ new \in Seq(Calls) /\ Len(new) = Len(cs) + 1
      /\ new[1] = TableCall
      /\ \A i \in 1..Len(new) : i # 1 => i - 1 \in 1..Len(cs) /\ new[i] = cs[i - 1]
  BY <1>1
<1> HIDE DEF new
<1>3. new # <<>> /\ Head(new) = TableCall
  BY <1>1, <1>2
<1>4. ASSUME NEW i \in 1..Len(new)
      PROVE  OldOK(new[i], lv) /\ (i < Len(new) => new[i].old = NULL)
  <2>1. CASE i = 1
    BY <1>2, <2>1, TableCallType DEF OldOK
  <2>2. CASE i # 1
    <3>1. i - 1 \in 1..Len(cs) /\ new[i] = cs[i - 1] /\ (i < Len(new) => i - 1 < Len(cs))
      BY <1>1, <1>2, <2>2
    <3> QED
      BY <3>1 DEF CallsOK
  <2> QED
    BY <2>1, <2>2
<1> QED
  BY <1>2, <1>3, <1>4 DEF CallsOK, new

LEMMA FitsTable ==
  ASSUME NEW a \in Nat, NEW e \in Nat, a + HEADER + ALIGN + TABLE - 1 <= e
  PROVE  Begin(a, TRUE) + TABLE <= e
<1>1. ALIGN \in Nat /\ HEADER \in Nat /\ TABLE \in Nat
  BY HeapAssumption
<1>2. Begin(a, TRUE) \in Nat /\ Begin(a, TRUE) < a + HEADER + ALIGN
  BY BeginType
<1>3. PICK p \in Nat : p = Begin(a, TRUE)
  BY <1>2
<1>4. p < a + HEADER + ALIGN
  BY <1>2, <1>3
<1>5. p + TABLE <= e
  BY <1>1, <1>4
<1> QED
  BY <1>3, <1>5

\* Where headers are, the magic number is.
LEMMA MagicCovers ==
  ASSUME NEW end \in Nat, NEW hs, ListAt(hs, end),
         \A x \in DOMAIN headers : x \in Nat, DOMAIN headers \subseteq magic,
         NEW D, \A x \in D : x \in DOMAIN hs
  PROVE  D \subseteq MagicOf(hs)
<1> DEFINE new == DOMAIN hs \ DOMAIN headers
<1>1. SUFFICES ASSUME NEW x \in D, x \notin new
               PROVE  x \in magic /\ x \notin UNION {n..(n + HEADER - 1) : n \in new}
  BY DEF MagicOf
<1>2. x \in DOMAIN hs /\ x \in DOMAIN headers /\ x \in magic
  BY <1>1
<1>3. ASSUME NEW n \in new
      PROVE  x \notin n..(n + HEADER - 1)
  <2>1. n \in DOMAIN hs /\ n # x
    BY <1>2
  <2>2. x \in Nat /\ n \in Nat /\ End(hs, n) \in Nat /\ n + HEADER <= End(hs, n)
    BY <1>2, <2>1, EndType
  <2>3. n < x => End(hs, n) <= x
    BY <1>2, <2>1 DEF ListAt
  <2>4. HEADER \in Nat
    BY HeapAssumption
  <2> QED
    BY <2>1, <2>2, <2>3, <2>4
<1> QED
  BY <1>2, <1>3

(***************************************************************************)
(* The steps.                                                              *)
(***************************************************************************)
LEMMA HeapTypes ==
  ASSUME HeapInv
  PROVE  \A x \in DOMAIN headers : x \in Nat
BY DEF HeapInv, ListAt

LEMMA KmallocStep ==
  ASSUME HeapInv, NEW size \in Nat, NEW aligned \in BOOLEAN, kmalloc(size, aligned)
  PROVE  HeapInv' /\ Promised
<1>1. /\ calls = <<>> /\ calls' = <<Call(size, aligned, "program", NULL)>>
      /\ UNCHANGED <<headers, magic, kheap_end, prealloc_pt, live, trouble>>
  BY DEF kmalloc
<1>2. CallsOK(calls', live)
  <2> DEFINE c == Call(size, aligned, "program", NULL)
  <2>1. c \in Calls /\ c.old = NULL
    BY CallType DEF Kind, NULL
  <2> HIDE DEF c
  <2>2. CallsOK(<<c>>, live)
    BY <2>1, OneCall DEF OldOK
  <2> QED
    BY <1>1, <2>2 DEF c
<1>3. prealloc_pt' = TRUE
  BY <1>1 DEF HeapInv, TableComes
<1>4. HeapInv'
  BY <1>1, <1>2, <1>3 DEF HeapInv, TableComes
<1> QED
  BY <1>1, <1>4 DEF Promised

LEMMA KreallocStep ==
  ASSUME HeapInv, NEW b \in live, NEW growth \in Growth, krealloc(b, growth)
  PROVE  HeapInv' /\ Promised
<1>1. /\ calls = <<>> /\ ~b.aligned
      /\ calls' = <<Call(b.size + growth, FALSE, "program", b.ptr)>>
      /\ UNCHANGED <<headers, magic, kheap_end, prealloc_pt, live, trouble>>
  BY DEF krealloc
<1>2. CallsOK(calls', live)
  <2> DEFINE c == Call(b.size + growth, FALSE, "program", b.ptr)
  <2>1. b.ptr \in Nat /\ b.size \in Nat
    BY BlockType DEF HeapInv, BlocksOK
  <2>2. growth \in Nat /\ growth >= HEADER /\ HEADER \in Nat
    BY HeapAssumption
  <2>3. b.size + growth \in Nat /\ b.size + HEADER <= b.size + growth
    BY <2>1, <2>2
  <2>4. c \in Calls /\ c.old = b.ptr /\ c.size = b.size + growth /\ c.aligned = FALSE
    <3>1. PICK n \in Nat : n = b.size + growth
      BY <2>3
    <3>2. PICK p \in Nat : p = b.ptr
      BY <2>1
    <3>3. c = Call(n, FALSE, "program", p)
      BY <3>1, <3>2
    <3> HIDE DEF c
    <3>4. c \in Calls /\ c.old = p /\ c.size = n /\ c.aligned = FALSE
      BY <3>3 DEF Call, Calls, Kind
    <3> QED
      BY <3>1, <3>2, <3>4
  <2> HIDE DEF c
  <2>5. OldOK(c, live)
    BY <1>1, <2>3, <2>4 DEF OldOK
  <2>6. CallsOK(<<c>>, live)
    BY <2>4, <2>5, OneCall
  <2> QED
    BY <1>1, <2>6 DEF c
<1>3. prealloc_pt' = TRUE
  BY <1>1 DEF HeapInv, TableComes
<1>4. HeapInv'
  BY <1>1, <1>2, <1>3 DEF HeapInv, TableComes
<1> QED
  BY <1>1, <1>4 DEF Promised

\* A block goes back whose header lies right in front of it.
LEMMA ReleaseStep ==
  ASSUME HeapInv, calls = <<>>, NEW b \in live, NEW a \in DOMAIN headers,
         a = b.ptr - HEADER, Release(b, a)
  PROVE  HeapInv' /\ Promised
<1>1. /\ headers' = Returned(headers, a) /\ live' = live \ {b}
      /\ UNCHANGED <<magic, kheap_end, prealloc_pt, calls, trouble>>
  BY DEF Release
<1>2. /\ kheap_end \in Nat /\ ListAt(headers, kheap_end) /\ CoalescedAt(headers)
      /\ OwnedAt(headers, live) /\ BlocksOK(headers, live)
      /\ DOMAIN headers \subseteq magic
  BY DEF HeapInv
<1>3. ~headers[a].free /\ HoldsIn(headers, a, b)
  BY <1>2, HeaderBefore
<1>4. /\ ListAt(headers', kheap_end) /\ CoalescedAt(headers')
      /\ Returns(headers, headers', a)
  BY <1>1, <1>2, <1>3, ReturnedList
<1>5. OwnedAt(headers', live') /\ BlocksOK(headers', live')
  BY <1>1, <1>2, <1>3, <1>4, ReturnedOwned
<1>6. DOMAIN headers' \subseteq magic
  BY <1>2, <1>4 DEF Returns
<1>7. prealloc_pt' = TRUE
  BY <1>1 DEF HeapInv, TableComes
<1>8. CallsOK(calls', live')
  BY <1>1 DEF CallsOK
<1>9. HeapInv'
  BY <1>1, <1>4, <1>5, <1>6, <1>7, <1>8 DEF HeapInv, TableComes
<1>10. Promised
  BY <1>1 DEF Promised, Promise!AllocatorNext, Promise!Free
<1> QED
  BY <1>9, <1>10

LEMMA KfreeStep ==
  ASSUME HeapInv, NEW b \in live, kfree(b)
  PROVE  HeapInv' /\ Promised
<1>1. calls = <<>> /\ ~b.aligned /\ Release(b, b.ptr - HEADER)
  BY DEF kfree
<1>2. b.ptr - HEADER \in DOMAIN headers
  BY <1>1 DEF HeapInv, BlocksOK, BlockOK
<1> QED
  BY <1>1, <1>2, ReleaseStep

LEMMA KfreeAStep ==
  ASSUME HeapInv, NEW b \in live, kfree_a(b)
  PROVE  HeapInv' /\ Promised
<1>1. PICK a \in magic :
        /\ Found(b, a)
        /\ \/ /\ trouble' \in {"far", "astray"}
              /\ UNCHANGED <<headers, magic, kheap_end, prealloc_pt, calls, live>>
           \/ /\ b.ptr - a <= HEADER /\ a \in DOMAIN headers
              /\ Release(b, a)
  BY DEF kfree_a
<1>2. calls = <<>>
  BY DEF kfree_a
<1>3. CASE /\ trouble' \in {"far", "astray"}
           /\ UNCHANGED <<headers, magic, kheap_end, prealloc_pt, calls, live>>
  <2>1. HeapInv'
    BY <1>3 DEF HeapInv
  <2> QED
    BY <1>3, <2>1 DEF Promised
<1>4. CASE b.ptr - a <= HEADER /\ a \in DOMAIN headers /\ Release(b, a)
  <2>1. a \in Nat /\ b.ptr \in Nat /\ HEADER \in Nat
    BY <1>4, HeapTypes, BlockType, HeapAssumption DEF HeapInv, BlocksOK
  <2>2. a <= b.ptr - HEADER
    BY <1>1 DEF Found
  <2>3. a = b.ptr - HEADER
    BY <1>4, <2>1, <2>2
  <2> QED
    BY <1>2, <1>4, <2>3, ReleaseStep
<1> QED
  BY <1>1, <1>3, <1>4

LEMMA WriteStep ==
  ASSUME HeapInv, NEW b \in live, Write(b)
  PROVE  HeapInv' /\ Promised
<1>1. PICK m \in magic \cap b.ptr..(b.ptr + b.size - 1) : magic' = magic \ {m}
  BY DEF Write
<1>2. UNCHANGED <<headers, kheap_end, prealloc_pt, calls, live, trouble>>
  BY DEF Write
<1>3. m \notin DOMAIN headers
  <2>1. SUFFICES ASSUME m \in DOMAIN headers PROVE FALSE
    OBVIOUS
  <2>2. /\ kheap_end \in Nat /\ ListAt(headers, kheap_end)
        /\ OwnedAt(headers, live) /\ BlocksOK(headers, live)
    BY DEF HeapInv
  <2>3. PICK a \in DOMAIN headers : /\ a + HEADER <= b.ptr
                                    /\ b.ptr + b.size <= End(headers, a)
    BY <2>2, OwnerOf
  <2>4. /\ a \in Nat /\ End(headers, a) \in Nat /\ m \in Nat
        /\ b.ptr \in Nat /\ b.size \in Nat /\ HEADER \in Nat /\ HEADER > 0
    BY <2>1, <2>2, EndType, BlockType, HeapAssumption DEF BlocksOK
  <2>5. a < m => End(headers, a) <= m
    BY <2>1, <2>2 DEF ListAt
  <2> QED
    BY <2>3, <2>4, <2>5
<1>4. HeapInv'
  BY <1>1, <1>2, <1>3 DEF HeapInv
<1> QED
  BY <1>2, <1>4 DEF Promised

LEMMA ExpandStep ==
  ASSUME HeapInv, heap_expand
  PROVE  HeapInv' /\ Promised
<1> DEFINE c == Head(calls)
<1>1. /\ calls # <<>> /\ UNCHANGED live
      /\ \A a \in DOMAIN headers : ~FitsIn(headers, a, c.size, c.aligned)
  BY DEF heap_expand, Fits, FitsIn
<1> HIDE DEF c
<1>2. \/ /\ trouble' = "memory"
         /\ UNCHANGED <<headers, magic, kheap_end, prealloc_pt, calls>>
      \/ ~prealloc_pt
      \/ /\ headers' = Expanded
         /\ magic' = MagicOf(Expanded)
         /\ kheap_end' = kheap_end + EXPAND
         /\ prealloc_pt' = FALSE
         /\ calls' = <<TableCall>> \o calls
         /\ UNCHANGED trouble
  BY DEF heap_expand
<1>3. Promised
  BY <1>1 DEF Promised
<1>4. CASE /\ trouble' = "memory"
           /\ UNCHANGED <<headers, magic, kheap_end, prealloc_pt, calls>>
  BY <1>1, <1>3, <1>4 DEF HeapInv
<1>5. CASE ~prealloc_pt
  <2>1. c = TableCall /\ \E a \in DOMAIN headers : FitsIn(headers, a, TABLE, TRUE)
    BY <1>5 DEF HeapInv, TableComes, c
  <2>2. TableCall.size = TABLE /\ TableCall.aligned = TRUE
    BY DEF TableCall, Call
  <2> QED
    BY <1>1, <2>1, <2>2
<1>6. CASE /\ headers' = Expanded
           /\ magic' = MagicOf(Expanded)
           /\ kheap_end' = kheap_end + EXPAND
           /\ prealloc_pt' = FALSE
           /\ calls' = <<TableCall>> \o calls
           /\ UNCHANGED trouble
  <2>0. EXPAND \in Nat /\ HEADER \in Nat /\ ALIGN \in Nat /\ TABLE \in Nat
        /\ EXPAND > HEADER + ALIGN + TABLE
    BY HeapAssumption
  <2>1. /\ kheap_end \in Nat /\ ListAt(headers, kheap_end) /\ CoalescedAt(headers)
        /\ OwnedAt(headers, live) /\ BlocksOK(headers, live)
        /\ DOMAIN headers \subseteq magic /\ CallsOK(calls, live)
    BY DEF HeapInv
  <2>2. kheap_end' \in Nat
    BY <1>6, <2>0, <2>1
  <2>3. ListAt(headers', kheap_end') /\ CoalescedAt(headers') /\ Grows(headers, headers')
    BY <1>6, <2>1, ExpandedList
  <2>4. OwnedAt(headers', live') /\ BlocksOK(headers', live')
    BY <1>1, <2>1, <2>2, <2>3, ExpandedOwned
  <2>5. DOMAIN headers' \subseteq magic'
    <3>1. DOMAIN headers' \subseteq MagicOf(headers')
      BY <2>1, <2>2, <2>3, HeapTypes, MagicCovers
    <3> QED
      BY <1>6, <3>1
  <2>6. CallsOK(calls', live') /\ calls' # <<>> /\ Head(calls') = TableCall
    BY <1>1, <1>6, <2>1, TableFirst
  <2>7. \E a \in DOMAIN headers' : FitsIn(headers', a, TABLE, TRUE)
    <3>1. PICK a \in DOMAIN headers' : headers'[a].free /\ a + EXPAND <= End(headers', a)
      BY <2>3 DEF Grows
    <3>2. PICK e \in Nat : e = End(headers', a)
      BY <2>2, <2>3, EndType
    <3>3. a \in Nat
      BY <2>3 DEF ListAt
    <3>4. a + HEADER + ALIGN + TABLE - 1 <= e
      BY <2>0, <3>1, <3>2, <3>3
    <3>5. Begin(a, TRUE) + TABLE <= e
      BY <3>3, <3>4, FitsTable
    <3> QED
      BY <3>1, <3>2, <3>5 DEF FitsIn
  <2>8. HeapInv'
    BY <1>6, <2>2, <2>3, <2>4, <2>5, <2>6, <2>7 DEF HeapInv, TableComes
  <2> QED
    BY <1>3, <2>8
<1> QED
  BY <1>2, <1>4, <1>5, <1>6

BlockFor(c, p) == [ptr |-> p, size |-> c.size, aligned |-> c.aligned, kind |-> c.for]

\* What holds when the block b has been given out and hs is the list that results.
GivesOut(c, a, p, o, hs, b) ==
  /\ p \in Nat /\ p # NULL
  /\ b \in Block /\ b.ptr = p /\ b.size = c.size
  /\ ListAt(hs, kheap_end) /\ CoalescedAt(hs)
  /\ Gives(headers, hs, a, o, p, c.size)
  /\ ~c.aligned => o = a /\ p = a + HEADER
  /\ OwnedAt(hs, live \cup {b}) /\ BlocksOK(hs, live \cup {b})
  /\ b \notin live
  /\ \A d \in live : b.ptr + b.size <= d.ptr \/ d.ptr + d.size <= b.ptr

LEMMA GivenOut ==
  ASSUME HeapInv, NEW c \in Calls, NEW a \in DOMAIN headers, Fits(a, c.size, c.aligned),
         NEW p, p = Begin(a, c.aligned), NEW o, o = OwnerAt(a, p),
         NEW hs, hs = Given(a, p, c.size),
         NEW b, b = BlockFor(c, p)
  PROVE  GivesOut(c, a, p, o, hs, b)
<1>1. /\ kheap_end \in Nat /\ ListAt(headers, kheap_end) /\ CoalescedAt(headers)
      /\ OwnedAt(headers, live) /\ BlocksOK(headers, live)
  BY DEF HeapInv
<1>2. /\ c.size \in Nat /\ c.aligned \in BOOLEAN /\ c.for \in Kind
  BY DEF Calls
<1>3. a \in Nat /\ HEADER \in Nat /\ HEADER > 0
  BY HeapTypes, HeapAssumption
<1>4. /\ p \in Nat /\ a + HEADER <= p /\ p # NULL
      /\ c.aligned => p % ALIGN = 0
      /\ ~c.aligned => p = a + HEADER
  <2>1. /\ p \in Nat /\ a + HEADER <= p
        /\ c.aligned => p % ALIGN = 0
        /\ ~c.aligned => p = a + HEADER
    BY <1>2, <1>3, BeginType
  <2> QED
    BY <1>3, <2>1 DEF NULL
<1>5. b \in Block /\ b.ptr = p /\ b.size = c.size /\ b.aligned = c.aligned
  BY <1>2, <1>4 DEF Block, BlockFor
<1>6. /\ ListAt(hs, kheap_end) /\ Gives(headers, hs, a, o, p, c.size)
      /\ ~c.aligned => o = a
  BY <1>1, <1>2, GivenList
<1>7. headers[a].free
  BY DEF Fits
<1>8. CoalescedAt(hs)
  BY <1>1, <1>2, <1>4, <1>6, <1>7, GivenCoalesced
<1>9. BlockOK(hs, b)
  <2>1. CASE c.aligned
    BY <1>4, <1>5, <2>1 DEF BlockOK
  <2>2. CASE ~c.aligned
    <3>1. p - HEADER = o
      BY <1>3, <1>4, <1>6, <2>2
    <3>2. o \in DOMAIN hs /\ End(hs, o) <= p + c.size + HEADER
      BY <1>6 DEF Gives
    <3> QED
      BY <1>5, <2>2, <3>1, <3>2, Zenon DEF BlockOK
  <2> QED
    BY <2>1, <2>2
<1>10. Gives(headers, hs, a, o, b.ptr, b.size)
  BY <1>5, <1>6, Zenon
<1>11. /\ OwnedAt(hs, live \cup {b}) /\ BlocksOK(hs, live \cup {b})
       /\ b \notin live
       /\ \A d \in live : b.ptr + b.size <= d.ptr \/ d.ptr + d.size <= b.ptr
  BY <1>1, <1>5, <1>6, <1>7, <1>9, <1>10, GivenOwned
<1> QED
  BY <1>4, <1>5, <1>6, <1>8, <1>11, Zenon DEF GivesOut

\* krealloc's old block, when the new one has been given out.
LEMMA OldBlock ==
  ASSUME HeapInv, NEW c \in Calls, OldOK(c, live), c.old # NULL,
         NEW a \in DOMAIN headers, headers[a].free,
         NEW p \in Nat, NEW hs, ListAt(hs, kheap_end), Gives(headers, hs, a, a, p, c.size),
         p = a + HEADER
  PROVE  LET x == c.old - HEADER
         IN  /\ x \in DOMAIN hs /\ ~hs[x].free
             /\ hs[x].length <= hs[a].length
             /\ \E d \in live : {e \in live : e.ptr = c.old} = {d} /\ HoldsIn(hs, x, d)
<1> DEFINE x == c.old - HEADER
<1>1. /\ kheap_end \in Nat /\ ListAt(headers, kheap_end)
      /\ OwnedAt(headers, live) /\ BlocksOK(headers, live)
  BY DEF HeapInv
<1>2. PICK d \in live : d.ptr = c.old /\ ~d.aligned /\ d.size + HEADER <= c.size
  BY DEF OldOK
<1>3. /\ d.ptr \in Nat /\ d.size \in Nat /\ c.size \in Nat /\ HEADER \in Nat
  BY <1>1, BlockType, HeapAssumption DEF BlocksOK, Calls
<1>4. /\ x \in DOMAIN headers /\ End(headers, x) <= d.ptr + d.size + HEADER
  BY <1>1, <1>2, Zenon DEF BlocksOK, BlockOK
<1>5. ~headers[x].free /\ HoldsIn(headers, x, d)
  <2>1. d.ptr - HEADER \in DOMAIN headers
    BY <1>2, <1>4
  <2>2. ~headers[d.ptr - HEADER].free /\ HoldsIn(headers, d.ptr - HEADER, d)
    BY <1>1, <2>1, HeaderBefore
  <2> QED
    BY <1>2, <2>2
<1> HIDE DEF x
<1>6. /\ x \in DOMAIN hs /\ End(hs, x) = End(headers, x) /\ ~hs[x].free
  BY <1>4, <1>5 DEF Gives
<1>7. HoldsIn(hs, x, d)
  BY <1>5, <1>6 DEF HoldsIn
<1>8. {e \in live : e.ptr = c.old} = {d}
  <2>1. \A e \in live : e.ptr = c.old => e = d
    BY <1>1, <1>2, PtrIsOne
  <2> QED
    BY <1>2, <2>1
<1>9. hs[x].length <= hs[a].length
  <2>1. a \in DOMAIN hs /\ p + c.size <= End(hs, a)
    BY DEF Gives
  <2>2. /\ hs[a].length = End(hs, a) - a - HEADER /\ a \in Nat /\ End(hs, a) \in Nat
        /\ hs[x].length = End(hs, x) - x - HEADER /\ x \in Nat /\ End(hs, x) \in Nat
    BY <1>1, <1>6, <2>1, EndType
  <2>3. x + HEADER = d.ptr
    BY <1>2, <1>3 DEF x
  <2>4. hs[x].length <= d.size + HEADER
    BY <1>3, <1>4, <1>6, <2>2, <2>3
  <2>5. c.size <= hs[a].length
    BY <1>3, <2>1, <2>2
  <2> QED
    BY <1>2, <1>3, <2>2, <2>4, <2>5
<1> QED
  BY <1>6, <1>7, <1>8, <1>9 DEF x

LEMMA KmallocIntStep ==
  ASSUME HeapInv, kmalloc_int
  PROVE  HeapInv' /\ Promised
<1> DEFINE c == Head(calls)
<1>1. PICK a \in DOMAIN headers :
        /\ FirstFit(a, c.size, c.aligned)
        /\ LET p   == Begin(a, c.aligned)
               hs  == Given(a, p, c.size)
               b   == BlockFor(c, p)
               old == {d \in live : d.ptr = c.old}
           IN \/ c.old # NULL /\ hs[c.old - HEADER].length > hs[OwnerAt(a, p)].length
              \/ /\ headers' = IF c.old # NULL THEN Returned(hs, c.old - HEADER) ELSE hs
                 /\ magic' = MagicOf(hs)
                 /\ live' = (live \ old) \cup {b}
                 /\ calls' = Tail(calls)
                 /\ prealloc_pt' = (prealloc_pt \/ c.for = "table")
                 /\ UNCHANGED <<kheap_end, trouble>>
  BY DEF kmalloc_int, BlockFor
<1>2. calls # <<>>
  BY DEF kmalloc_int
<1>3. /\ kheap_end \in Nat /\ ListAt(headers, kheap_end)
      /\ OwnedAt(headers, live) /\ BlocksOK(headers, live)
      /\ DOMAIN headers \subseteq magic /\ CallsOK(calls, live)
  BY DEF HeapInv
<1>4. c \in Calls /\ OldOK(c, live)
  <2>1. calls \in Seq(Calls) /\ Len(calls) \in Nat /\ Len(calls) # 0 /\ c = calls[1]
    BY <1>2, <1>3, LenProperties, EmptySeq, HeadTailProperties DEF CallsOK
  <2>2. 1 \in 1..Len(calls)
    BY <2>1
  <2>3. calls[1] \in Calls
    BY <2>1, <2>2, ElementOfSeq
  <2> QED
    BY <1>3, <2>1, <2>2, <2>3 DEF CallsOK
<1>5. Fits(a, c.size, c.aligned) /\ headers[a].free
  BY <1>1 DEF FirstFit, Fits
<1> DEFINE p  == Begin(a, c.aligned)
           o  == OwnerAt(a, p)
           hs == Given(a, p, c.size)
           b  == BlockFor(c, p)
           x  == c.old - HEADER
           old == {d \in live : d.ptr = c.old}
<1>6. c.old # NULL => ~c.aligned
  BY <1>4 DEF OldOK
<1>7. \/ c.old # NULL /\ hs[x].length > hs[o].length
      \/ /\ headers' = IF c.old # NULL THEN Returned(hs, x) ELSE hs
         /\ magic' = MagicOf(hs)
         /\ live' = (live \ old) \cup {b}
         /\ calls' = Tail(calls)
         /\ prealloc_pt' = (prealloc_pt \/ c.for = "table")
         /\ UNCHANGED <<kheap_end, trouble>>
  BY <1>1
<1>8. ~prealloc_pt => c.for = "table"
  BY TableCallType DEF HeapInv, TableComes
<1> HIDE DEF c
<1>9. /\ p \in Nat /\ p # NULL
      /\ b \in Block /\ b.ptr = p /\ b.size = c.size
      /\ ListAt(hs, kheap_end) /\ CoalescedAt(hs)
      /\ Gives(headers, hs, a, o, p, c.size)
      /\ ~c.aligned => o = a /\ p = a + HEADER
      /\ OwnedAt(hs, live \cup {b}) /\ BlocksOK(hs, live \cup {b})
      /\ b \notin live
      /\ \A d \in live : b.ptr + b.size <= d.ptr \/ d.ptr + d.size <= b.ptr
  <2>1. GivesOut(c, a, p, o, hs, b)
    BY <1>4, <1>5, GivenOut, Zenon
  <2> HIDE DEF p, o, hs, b
  <2> QED
    BY <2>1 DEF GivesOut
<1> HIDE DEF p, o, hs, b, old
<1>10. ASSUME c.old # NULL
       PROVE  /\ x \in DOMAIN hs /\ ~hs[x].free
              /\ hs[x].length <= hs[o].length
              /\ \E d \in live : old = {d} /\ HoldsIn(hs, x, d)
  <2>1. o = a /\ p = a + HEADER
    BY <1>6, <1>9, <1>10
  <2>2. Gives(headers, hs, a, a, p, c.size)
    BY <1>9, <2>1
  <2> HIDE DEF x
  <2>3. /\ x \in DOMAIN hs /\ ~hs[x].free
        /\ hs[x].length <= hs[a].length
        /\ \E d \in live : old = {d} /\ HoldsIn(hs, x, d)
    BY <1>4, <1>5, <1>9, <1>10, <2>1, <2>2, OldBlock DEF x, old
  <2> QED
    BY <2>1, <2>3
<1> HIDE DEF x
<1>11. ~(c.old # NULL /\ hs[x].length > hs[o].length)
  <2>1. SUFFICES ASSUME c.old # NULL, hs[x].length > hs[o].length
                 PROVE  FALSE
    OBVIOUS
  <2>2. x \in DOMAIN hs /\ o \in DOMAIN hs /\ hs[x].length <= hs[o].length
    BY <1>9, <1>10, <2>1 DEF Gives
  <2>3. hs[x].length \in Nat /\ hs[o].length \in Nat
    BY <1>9, <2>2 DEF ListAt, Header
  <2> QED
    BY <2>1, <2>2, <2>3
<1>12. /\ headers' = IF c.old # NULL THEN Returned(hs, x) ELSE hs
       /\ magic' = MagicOf(hs)
       /\ live' = (live \ old) \cup {b}
       /\ calls' = Tail(calls)
       /\ prealloc_pt' = (prealloc_pt \/ c.for = "table")
       /\ UNCHANGED <<kheap_end, trouble>>
  BY <1>7, <1>11
<1>13. prealloc_pt' = TRUE
  BY <1>8, <1>12 DEF HeapInv
<1>14. ASSUME DOMAIN headers' \subseteq DOMAIN hs
       PROVE  DOMAIN headers' \subseteq magic'
  <2>1. DOMAIN headers' \subseteq MagicOf(hs)
    BY <1>3, <1>9, <1>14, HeapTypes, MagicCovers
  <2> QED
    BY <1>12, <2>1
<1>15. c.old = NULL => live \subseteq live'
  <2>1. SUFFICES ASSUME c.old = NULL PROVE old = {}
    BY <1>12
  <2>2. ASSUME NEW d \in live, d.ptr = NULL PROVE FALSE
    <3>1. PICK y \in DOMAIN headers : y + HEADER <= d.ptr
      BY <1>3, OwnerOf
    <3>2. y \in Nat /\ HEADER \in Nat /\ HEADER > 0
      BY HeapTypes, HeapAssumption
    <3> QED
      BY <2>2, <3>1, <3>2 DEF NULL
  <2> QED
    BY <2>1, <2>2 DEF old
<1>16. CallsOK(calls', live')
  BY <1>2, <1>3, <1>12, <1>15, TailCalls DEF c
<1>17. b.kind \in Kind /\ b.size \in Nat /\ b.ptr \in Nat
  BY <1>9 DEF Block
<1>18. CASE c.old = NULL
  <2>1. headers' = hs
    BY <1>12, <1>18
  <2>2. live' = live \cup {b}
    BY <1>12, <1>15, <1>18
  <2>3. HeapInv'
    BY <1>9, <1>12, <1>13, <1>14, <1>16, <2>1, <2>2 DEF HeapInv, TableComes
  <2>4. Promised
    <3>1. b \in live' \ live
      BY <1>9, <2>2
    <3>2. b \in Promise!Blocks
      BY <1>9 DEF Block, Kind, Promise!Blocks
    <3> QED
      BY <1>9, <2>2, <3>1, <3>2
      DEF Promised, Promise!AllocatorNext, Promise!Alloc, Promise!Apart
  <2> QED
    BY <2>3, <2>4
<1>19. CASE c.old # NULL
  <2>1. headers' = Returned(hs, x)
    BY <1>12, <1>19
  <2>2. PICK d \in live : old = {d} /\ HoldsIn(hs, x, d)
    BY <1>10, <1>19
  <2>3. x \in DOMAIN hs /\ ~hs[x].free
    BY <1>10, <1>19
  <2>4. live' = (live \cup {b}) \ {d}
    BY <1>9, <1>12, <2>2
  <2>5. ListAt(headers', kheap_end) /\ CoalescedAt(headers') /\ Returns(hs, headers', x)
    BY <1>3, <1>9, <2>1, <2>3, ReturnedList
  <2>6. OwnedAt(headers', live') /\ BlocksOK(headers', live')
    <3>1. d \in live \cup {b}
      OBVIOUS
    <3> QED
      BY <1>3, <1>9, <2>2, <2>3, <2>4, <2>5, <3>1, ReturnedOwned
  <2>7. DOMAIN headers' \subseteq magic'
    BY <1>14, <2>5 DEF Returns
  <2>8. HeapInv'
    BY <1>12, <1>13, <1>16, <2>5, <2>6, <2>7 DEF HeapInv, TableComes
  <2>9. Promised
    <3>1. b \in live' \ live /\ live' = (live \ {d}) \cup {b}
      BY <1>9, <1>12, <2>2
    <3>2. b \in Promise!Blocks
      BY <1>9 DEF Block, Kind, Promise!Blocks
    <3> QED
      BY <1>9, <3>1, <3>2
      DEF Promised, Promise!AllocatorNext, Promise!Realloc, Promise!Apart
  <2> QED
    BY <2>8, <2>9
<1> QED
  BY <1>18, <1>19

LEMMA HeapInit ==
  ASSUME Init
  PROVE  HeapInv
<1>1. /\ Kheap \in Nat /\ Kheap # NULL /\ HEADER \in Nat /\ HEADER > 0
      /\ ALIGN \in Nat /\ TABLE \in Nat
      /\ INIT_HEAP \in Nat /\ INIT_HEAP > HEADER + ALIGN + TABLE
  BY HeapAssumption DEF NULL
<1>2. PICK n \in Nat : n = INIT_HEAP - 1 - HEADER
  BY <1>1
<1>3. PICK e \in Nat : e = Kheap + INIT_HEAP - 1
  BY <1>1
<1>4. kheap_end = e
  BY <1>3 DEF Init
<1>5. DOMAIN headers = {Kheap}
  BY DEF Init
<1>6. /\ headers[Kheap] \in Header /\ headers[Kheap].free
      /\ headers[Kheap].next = NULL /\ headers[Kheap].prev = NULL
      /\ headers[Kheap].length = n
  <2>1. headers[Kheap] = [length |-> n, free |-> TRUE, next |-> NULL, prev |-> NULL]
    BY <1>2 DEF Init
  <2> QED
    BY <2>1 DEF Header, NULL
<1>7. End(headers, Kheap) = e
  <2>1. End(headers, Kheap) = Kheap + HEADER + n
    BY <1>6 DEF End
  <2> QED
    BY <1>1, <1>2, <1>3, <2>1
<1>8. ListAt(headers, kheap_end)
  <2>1. \A x, y \in DOMAIN headers : ~(x < y)
    BY <1>1, <1>5
  <2>2. \A x \in DOMAIN headers : headers[x].next = Link(End(headers, x), kheap_end)
    BY <1>4, <1>5, <1>6, <1>7 DEF Link
  <2>3. End(headers, Kheap) <= kheap_end
    BY <1>4, <1>7
  <2> QED
    BY <1>1, <1>4, <1>5, <1>6, <1>7, <2>1, <2>2, <2>3 DEF ListAt
<1>9. CoalescedAt(headers)
  <2>1. Kheap # e
    BY <1>1, <1>3
  <2> QED
    BY <1>5, <1>7, <2>1 DEF CoalescedAt, CoalescedBut
<1>10. live = {} /\ OwnedAt(headers, live) /\ BlocksOK(headers, live)
  BY <1>5, <1>6 DEF Init, OwnedAt, BlocksOK
<1>11. calls = <<TableCall>> /\ Head(calls) = TableCall /\ calls # <<>>
  BY DEF Init
<1>12. CallsOK(calls, live)
  BY <1>11, TableCallType, OneCall DEF OldOK
<1>13. \E a \in DOMAIN headers : FitsIn(headers, a, TABLE, TRUE)
  <2>1. Kheap + HEADER + ALIGN + TABLE - 1 <= e
    BY <1>1, <1>3
  <2>2. Begin(Kheap, TRUE) + TABLE <= e
    BY <1>1, <2>1, FitsTable
  <2> QED
    BY <1>5, <1>6, <1>7, <2>2 DEF FitsIn
<1>14. /\ DOMAIN headers \subseteq magic /\ prealloc_pt \in BOOLEAN
       /\ trouble \in {"none", "memory", "far", "astray"}
  BY <1>5 DEF Init
<1> QED
  BY <1>4, <1>8, <1>9, <1>10, <1>11, <1>12, <1>13, <1>14 DEF HeapInv, TableComes

LEMMA HeapStep ==
  ASSUME HeapInv, [Next]_vars
  PROVE  HeapInv' /\ Promised
<1>1. ASSUME NEW n \in Size, kmalloc(n, FALSE) PROVE HeapInv' /\ Promised
  <2>1. n \in Nat
    BY HeapAssumption
  <2> QED
    BY <1>1, <2>1, KmallocStep
<1>2. ASSUME NEW n \in SizeA, kmalloc(n, TRUE) PROVE HeapInv' /\ Promised
  <2>1. n \in Nat
    BY HeapAssumption
  <2> QED
    BY <1>2, <2>1, KmallocStep
<1>3. ASSUME NEW b \in live, NEW g \in Growth, krealloc(b, g)
      PROVE  HeapInv' /\ Promised
  BY <1>3, KreallocStep
<1>4. ASSUME NEW b \in live, kfree(b) PROVE HeapInv' /\ Promised
  BY <1>4, KfreeStep
<1>5. ASSUME NEW b \in live, kfree_a(b) PROVE HeapInv' /\ Promised
  BY <1>5, KfreeAStep
<1>6. ASSUME NEW b \in live, Write(b) PROVE HeapInv' /\ Promised
  BY <1>6, WriteStep
<1>7. CASE kmalloc_int
  BY <1>7, KmallocIntStep
<1>8. CASE heap_expand
  BY <1>8, ExpandStep
<1>9. CASE UNCHANGED vars
  <2>1. HeapInv'
    BY <1>9 DEF vars, HeapInv
  <2> QED
    BY <1>9, <2>1 DEF vars, Promised
<1> QED
  BY <1>1, <1>2, <1>3, <1>4, <1>5, <1>6, <1>7, <1>8, <1>9 DEF Next

LEMMA HeapInvariant == Spec => []HeapInv
BY HeapInit, HeapStep, PTL DEF Spec

(***************************************************************************)
(* What the invariant says.                                                *)
(***************************************************************************)
LEMMA HeapTypeOK ==
  ASSUME HeapInv
  PROVE  TypeOK
<1>1. /\ kheap_end \in Nat /\ ListAt(headers, kheap_end)
      /\ DOMAIN headers \subseteq magic /\ BlocksOK(headers, live)
  BY DEF HeapInv
<1>2. ASSUME NEW x \in DOMAIN headers
      PROVE  x \in Kheap..kheap_end /\ headers[x] \in Header
  <2>1. End(headers, x) <= kheap_end /\ headers[x] \in Header
    BY <1>1 DEF ListAt
  <2>2. x \in Nat /\ Kheap <= x /\ x < End(headers, x) /\ End(headers, x) \in Nat
    BY <1>1, EndType
  <2>3. Kheap \in Nat
    BY HeapAssumption
  <2> QED
    BY <1>1, <2>1, <2>2, <2>3
<1>3. \A b \in live : b.aligned => b.ptr % ALIGN = 0
  BY <1>1 DEF BlocksOK, BlockOK
<1> QED
  BY <1>1, <1>2, <1>3 DEF TypeOK, HeapInv

LEMMA HeapListSound ==
  ASSUME HeapInv
  PROVE  ListSound
<1>1. /\ kheap_end \in Nat /\ ListAt(headers, kheap_end) /\ CoalescedAt(headers)
      /\ OwnedAt(headers, live)
  BY DEF HeapInv
<1>2. ASSUME NEW a \in DOMAIN headers
      PROVE  IF headers[a].next = NULL
             THEN End(headers, a) = kheap_end
             ELSE /\ headers[a].next = End(headers, a)
                  /\ headers[a].next \in DOMAIN headers
                  /\ headers[headers[a].next].prev = a
  <2>1. CASE headers[a].next = NULL
    <3>1. headers[a].next = Link(End(headers, a), kheap_end)
      BY <1>1 DEF ListAt
    <3>2. End(headers, a) # NULL
      BY <1>1, EndType DEF NULL
    <3> QED
      BY <2>1, <3>1, <3>2 DEF Link
  <2>2. CASE headers[a].next # NULL
    <3>1. PICK n \in DOMAIN headers : n = headers[a].next /\ n = End(headers, a) /\ a < n
      BY <1>1, <2>2, NextIsHeader
    <3>2. n # Kheap
      BY <1>1, <3>1, EndType
    <3>3. headers[n].prev \in DOMAIN headers /\ End(headers, headers[n].prev) = n
      BY <1>1, <3>2 DEF ListAt
    <3>4. headers[n].prev = a
      BY <1>1, <3>1, <3>3, BeforeIsOne
    <3> QED
      BY <2>2, <3>1, <3>4
  <2> QED
    BY <2>1, <2>2
<1>3. Tiling
  <2>1. /\ Kheap \in DOMAIN headers /\ headers[Kheap].prev = NULL
        /\ \A a, b \in DOMAIN headers : a < b => End(headers, a) <= b
    BY <1>1 DEF ListAt
  <2> QED
    BY <1>2, <2>1 DEF Tiling
<1>4. Coalesced
  <2>1. SUFFICES ASSUME NEW a \in DOMAIN headers,
                        headers[a].free, headers[a].next # NULL
                 PROVE  ~headers[headers[a].next].free
    BY DEF Coalesced
  <2>2. PICK n \in DOMAIN headers : n = headers[a].next /\ n = End(headers, a)
    BY <1>1, <2>1, NextIsHeader
  <2>3. ~(headers[a].free /\ headers[n].free)
    BY <1>1, <2>2, NotCoalesced
  <2> QED
    BY <2>1, <2>2, <2>3
<1>5. Owned
  BY <1>1 DEF OwnedAt, HoldsIn, Owned, Holds
<1> QED
  BY <1>3, <1>4, <1>5 DEF ListSound

(***************************************************************************)
(* TypeOK: headers, addresses and blocks keep their types after any calls  *)
(* of kmalloc, krealloc and kfree (memory.c:838-1060).                     *)
(***************************************************************************)
THEOREM HeapTyped == Spec => []TypeOK
BY HeapInvariant, HeapTypeOK, PTL

(***************************************************************************)
(* ListSound: after any calls the headers tile the heap and are linked in  *)
(* both directions, no two free blocks lie side by side, and each block in *)
(* use is held by one holder (memory.c:838-1019).                          *)
(***************************************************************************)
THEOREM ListStaysSound == Spec => []ListSound
BY HeapInvariant, HeapListSound, PTL

(***************************************************************************)
(* NoTrouble: krealloc never copies more than the new block has room for   *)
(* (memory.c:1055), and heap_expand finds its page table (memory.c:182).   *)
(***************************************************************************)
THEOREM NeverInTrouble == Spec => []NoTrouble
<1>1. HeapInv => NoTrouble
  BY DEF HeapInv, NoTrouble
<1> QED
  BY <1>1, HeapInvariant, PTL

(***************************************************************************)
(* IsAllocator: each call gives out a block that lies apart from all that  *)
(* are held, gives one back, exchanges one for a new one, or changes       *)
(* nothing of what is held (memory.c:838-1060).                            *)
(***************************************************************************)
THEOREM HeapIsAllocator == Spec => IsAllocator
<1>1. Init => Promise!AllocatorInit
  BY DEF Init, Promise!AllocatorInit
<1>2. HeapInv /\ [Next]_vars => [Promise!AllocatorNext]_live
  BY HeapStep DEF Promised
<1> QED
  BY <1>1, <1>2, HeapInvariant, PTL DEF Spec, IsAllocator, Promise!AllocatorSpec
=============================================================================

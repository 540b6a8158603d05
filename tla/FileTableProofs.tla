-------------------------- MODULE FileTableProofs --------------------------
(***************************************************************************)
(* Proofs about the descriptor lists, for any processes, blocks, lengths   *)
(* and numbers.  First that the lists stay in order, as long as no number  *)
(* reaches the largest int; then that each count is the number of what it  *)
(* counts, whatever the numbers and the order of the lists are.  Last that *)
(* a list in order is a table from numbers to open files.                  *)
(***************************************************************************)
EXTENDS FileTable, SequenceTheorems, FiniteSetTheorems, FunctionTheorems,
        WellFoundedInduction, TLAPS

NoOverflow ==
  /\ IdBound < MaxFd
  /\ \A fd \in FdArg : fd <= IdBound

InOrder(list) ==
  \A j, k \in 1..Len(list) :
    j < k => list[j].descriptor_id < list[k].descriptor_id

Bounded(list) == \A k \in 1..Len(list) : list[k].descriptor_id <= IdBound

ListOK(list) ==
  /\ list \in Seq(Descriptor)
  /\ InOrder(list)
  /\ Bounded(list)

ListsOK ==
  /\ file_descriptors \in [Process -> Seq(Descriptor)]
  /\ \A p \in Process : ListOK(file_descriptors[p])

(***************************************************************************)
(* The search for a gap.                                                   *)
(***************************************************************************)
LEMMA LeastIsLeast ==
  ASSUME NEW S, S \subseteq Nat, S # {}
  PROVE  Least(S) \in S /\ \A j \in S : Least(S) <= j
<1>1. \E k \in S : \A j \in S : ~(<<j, k>> \in OpToRel(<, Nat))
  BY NatLessThanWellFounded, WFMin
<1>2. OpToRel(<, Nat) = {ss \in Nat \X Nat : ss[1] < ss[2]}
  BY Zenon DEF OpToRel
<1>3. \A j, k \in Nat :
        <<j, k>> \in {ss \in Nat \X Nat : ss[1] < ss[2]} <=> j < k
  OBVIOUS
<1>4. \E k \in S : \A j \in S : ~(j < k)
  BY <1>1, <1>2, <1>3, Zenon
<1>5. \E k \in S : \A j \in S : k <= j
  BY <1>4
<1> QED
  BY <1>5 DEF Least

LEMMA PlaceIsInList ==
  ASSUME NEW list \in Seq(Descriptor), list # <<>>
  PROVE  /\ Place(list) \in 1..Len(list)
         /\ Place(list) < Len(list) => GapAfter(list, Place(list))
<1> DEFINE gaps == {k \in 1..(Len(list) - 1) : GapAfter(list, k)}
<1>1. Len(list) \in Nat \ {0}
  OBVIOUS
<1>2. CASE gaps = {}
  BY <1>1, <1>2 DEF Place
<1>3. CASE gaps # {}
  <2>1. gaps \subseteq Nat
    OBVIOUS
  <2>2. Least(gaps) \in gaps
    <3> HIDE DEF gaps
    <3> QED
      BY <1>3, <2>1, LeastIsLeast
  <2>3. Place(list) = Least(gaps)
    BY <1>3 DEF Place
  <2> QED
    BY <1>1, <2>2, <2>3
<1> QED
  BY <1>2, <1>3

(***************************************************************************)
(* Insertion.                                                              *)
(***************************************************************************)
LEMMA DescriptorType ==
  ASSUME NEW e \in Descriptor
  PROVE  e.descriptor_id \in Int
BY FileTableAssumption DEF Descriptor, Int32

\* What stands at i once e stands at k.
ElementAfter(list, k, e, i) ==
  IF i < k THEN list[i] ELSE IF i = k THEN e ELSE list[i - 1]

LEMMA Inserted ==
  ASSUME NEW list \in Seq(Descriptor), NEW k \in 1..(Len(list) + 1),
         NEW e \in Descriptor
  PROVE  /\ InsertedAt(list, k, e) \in Seq(Descriptor)
         /\ Len(InsertedAt(list, k, e)) = Len(list) + 1
         /\ \A i \in 1..(Len(list) + 1) :
              InsertedAt(list, k, e)[i] = ElementAfter(list, k, e, i)
<1> DEFINE a == SubSeq(list, 1, k - 1)
           b == SubSeq(list, k, Len(list))
<1>1. Len(list) \in Nat
  OBVIOUS
<1>2. a \in Seq(Descriptor) /\ Len(a) = k - 1
      /\ \A i \in 1..(k - 1) : a[i] = list[i]
  BY <1>1
<1>3. b \in Seq(Descriptor) /\ Len(b) = Len(list) + 1 - k
      /\ \A i \in 1..(Len(list) + 1 - k) : b[i] = list[i + k - 1]
  BY <1>1
<1>4. InsertedAt(list, k, e) = a \o <<e>> \o b
  BY DEF InsertedAt
<1> HIDE DEF a, b
<1> DEFINE c == a \o <<e>>
<1>5. c \in Seq(Descriptor) /\ Len(c) = k
      /\ \A i \in 1..k : c[i] = IF i < k THEN list[i] ELSE e
  BY <1>1, <1>2
<1> HIDE DEF c
<1>6. c \o b \in Seq(Descriptor) /\ Len(c \o b) = Len(list) + 1
      /\ \A i \in 1..(Len(list) + 1) :
           (c \o b)[i] = IF i <= k THEN c[i] ELSE b[i - k]
  <2>1. c \in Seq(Descriptor) /\ b \in Seq(Descriptor)
    BY <1>3, <1>5
  <2>2. /\ c \o b \in Seq(Descriptor)
        /\ Len(c \o b) = Len(c) + Len(b)
        /\ \A i \in 1..(Len(c) + Len(b)) :
             (c \o b)[i] = IF i <= Len(c) THEN c[i] ELSE b[i - Len(c)]
    BY <2>1, ConcatProperties
  <2>3. Len(c) = k /\ Len(c) + Len(b) = Len(list) + 1
    BY <1>1, <1>3, <1>5
  <2> QED
    BY <2>2, <2>3, Zenon
<1>7. \A i \in 1..(Len(list) + 1) : i > k => b[i - k] = list[i - 1]
  BY <1>1, <1>3
<1> QED
  BY <1>1, <1>4, <1>5, <1>6, <1>7 DEF c, ElementAfter

(***************************************************************************)
(* Lists that get a descriptor, or lose one.                               *)
(***************************************************************************)
ListGrows(list, new, n, k, e) ==
  /\ Len(list) = n /\ Len(new) = n + 1
  /\ \A i \in 1..(n + 1) : new[i] = ElementAfter(list, k, e, i)

LEMMA NextIdType ==
  ASSUME NEW list \in Seq(Descriptor)
  PROVE  NextId(list) \in Int32
<1> USE FileTableAssumption
<1>1. CASE list = <<>>
  BY <1>1 DEF NextId, Int32
<1>2. CASE list # <<>>
  <2>1. Place(list) \in 1..Len(list)
    BY <1>2, PlaceIsInList
  <2>2. list[Place(list)] \in Descriptor
    <3> DEFINE k == Place(list)
    <3> HIDE DEF k
    <3>1. k \in 1..Len(list)
      BY <2>1 DEF k
    <3>2. list[k] \in Descriptor
      BY <3>1
    <3> QED
      BY <3>2 DEF k
  <2>3. list[Place(list)].descriptor_id \in Int32
    BY <2>2 DEF Descriptor
  <2> QED
    BY <1>2, <2>3 DEF NextId, Incremented, Int32
<1> QED
  BY <1>1, <1>2

LEMMA PlaceBound ==
  ASSUME NEW list \in Seq(Descriptor)
  PROVE  Place(list) + 1 \in 1..(Len(list) + 1)
<1>1. CASE list = <<>>
  <2>1. Len(list) = 0
    BY <1>1
  <2>2. {k \in 1..(Len(list) - 1) : GapAfter(list, k)} = {}
    BY <2>1
  <2> QED
    BY <2>1, <2>2 DEF Place
<1>2. CASE list # <<>>
  <2>1. Place(list) \in 1..Len(list) /\ Len(list) \in Nat
    BY <1>2, PlaceIsInList
  <2> QED
    BY <2>1
<1> QED
  BY <1>1, <1>2

LEMMA InsertedGrows ==
  ASSUME NEW list \in Seq(Descriptor), NEW n, n = Len(list),
         NEW k \in 1..(n + 1), NEW e \in Descriptor
  PROVE  /\ InsertedAt(list, k, e) \in Seq(Descriptor)
         /\ ListGrows(list, InsertedAt(list, k, e), n, k, e)
BY Inserted DEF ListGrows

LEMMA AddGrows ==
  ASSUME NEW list \in Seq(Descriptor), NEW n, n = Len(list),
         NEW d \in Device, NEW o \in Obj
  PROVE  /\ add_descriptor(list, d, o) \in Seq(Descriptor)
         /\ \E k \in 1..(n + 1), e \in Descriptor :
              /\ e.device = d /\ e.data = o
              /\ ListGrows(list, add_descriptor(list, d, o), n, k, e)
<1> DEFINE e == Fresh(NextId(list), d, o)
           k == Place(list) + 1
<1>1. e \in Descriptor /\ e.device = d /\ e.data = o
  BY NextIdType DEF Fresh, Descriptor
<1>2. k \in 1..(n + 1)
  BY PlaceBound
<1>3. add_descriptor(list, d, o) = InsertedAt(list, k, e)
  BY DEF add_descriptor
<1> HIDE DEF e, k
<1>4. /\ InsertedAt(list, k, e) \in Seq(Descriptor)
      /\ ListGrows(list, InsertedAt(list, k, e), n, k, e)
  BY <1>1, <1>2, InsertedGrows
<1> QED
  BY <1>1, <1>2, <1>3, <1>4

LEMMA RemovedGrows ==
  ASSUME NEW list \in Seq(Descriptor), NEW n \in Nat, n + 1 = Len(list),
         NEW k \in 1..(n + 1)
  PROVE  /\ Removed(list, k) \in Seq(Descriptor)
         /\ list[k] \in Descriptor
         /\ ListGrows(Removed(list, k), list, n, k, list[k])
<1> DEFINE a == SubSeq(list, 1, k - 1)
           b == SubSeq(list, k + 1, Len(list))
           new == Removed(list, k)
<1>2. a \in Seq(Descriptor) /\ Len(a) = k - 1
      /\ \A i \in 1..(k - 1) : a[i] = list[i]
  OBVIOUS
<1>3. b \in Seq(Descriptor) /\ Len(b) = n + 1 - k
      /\ \A i \in 1..(n + 1 - k) : b[i] = list[i + k]
  OBVIOUS
<1>4. new = a \o b
  BY DEF Removed
<1> HIDE DEF a, b, new
<1>5. new \in Seq(Descriptor) /\ Len(new) = n
      /\ \A i \in 1..n : new[i] = IF i < k THEN a[i] ELSE b[i - (k - 1)]
  <2>1. a \in Seq(Descriptor) /\ b \in Seq(Descriptor)
    BY <1>2, <1>3
  <2>2. /\ a \o b \in Seq(Descriptor)
        /\ Len(a \o b) = Len(a) + Len(b)
        /\ \A i \in 1..(Len(a) + Len(b)) :
             (a \o b)[i] = IF i <= Len(a) THEN a[i] ELSE b[i - Len(a)]
    BY <2>1, ConcatProperties
  <2>3. Len(a) = k - 1 /\ Len(a) + Len(b) = n
    BY <1>2, <1>3
  <2>4. \A i \in 1..n : i <= k - 1 <=> i < k
    OBVIOUS
  <2> QED
    BY <1>4, <2>2, <2>3, <2>4, Zenon
<1>6. ASSUME NEW i \in 1..(n + 1)
      PROVE  list[i] = IF i < k THEN new[i] ELSE IF i = k THEN list[k] ELSE new[i - 1]
  <2>1. CASE i < k
    BY <1>2, <1>5, <2>1
  <2>2. CASE i > k
    <3>1. i - 1 \in 1..n /\ ~(i - 1 < k) /\ i - 1 - (k - 1) = i - k
          /\ i - k \in 1..(n + 1 - k) /\ i - k + k = i
      BY <2>2
    <3>2. new[i - 1] = b[i - k]
      BY <1>5, <3>1
    <3>3. b[i - k] = list[i]
      BY <1>3, <3>1
    <3> QED
      BY <2>2, <3>2, <3>3
  <2> QED
    BY <2>1, <2>2
<1>7. list[k] \in Descriptor
  OBVIOUS
<1>8. ListGrows(new, list, n, k, list[k])
  BY <1>5, <1>6 DEF ListGrows, ElementAfter
<1> QED
  BY <1>5, <1>7, <1>8 DEF new

LEMMA ReplacedGrows ==
  ASSUME NEW list \in Seq(Descriptor), NEW n \in Nat, n + 1 = Len(list),
         NEW k \in 1..(n + 1), NEW e \in Descriptor
  PROVE  /\ [list EXCEPT ![k] = e] \in Seq(Descriptor)
         /\ ListGrows(Removed(list, k), [list EXCEPT ![k] = e], n, k, e)
<1> DEFINE r == Removed(list, k)
           new == [list EXCEPT ![k] = e]
<1>1. ListGrows(r, list, n, k, list[k])
  BY RemovedGrows
<1>2. new \in Seq(Descriptor) /\ Len(new) = n + 1
      /\ \A i \in 1..(n + 1) : new[i] = IF i = k THEN e ELSE list[i]
  OBVIOUS
<1> HIDE DEF new, r
<1> QED
  BY <1>1, <1>2 DEF ListGrows, ElementAfter, new, r

(***************************************************************************)
(* Insertion, replacement and removal keep a list in order.                *)
(***************************************************************************)
LEMMA InsertKeepsOrder ==
  ASSUME NEW list, ListOK(list), NEW k \in 1..(Len(list) + 1),
         NEW e \in Descriptor, e.descriptor_id <= IdBound,
         k > 1 => list[k - 1].descriptor_id < e.descriptor_id,
         k <= Len(list) => e.descriptor_id < list[k].descriptor_id
  PROVE  ListOK(InsertedAt(list, k, e))
<1> DEFINE new == InsertedAt(list, k, e)
           at(i) == ElementAfter(list, k, e, i)
<1>1. list \in Seq(Descriptor) /\ Len(list) \in Nat
  BY DEF ListOK
<1>2. new \in Seq(Descriptor) /\ Len(new) = Len(list) + 1
      /\ \A i \in 1..(Len(list) + 1) : new[i] = at(i)
  BY <1>1, Inserted, Zenon
<1>3. \A i \in 1..Len(list) : list[i].descriptor_id \in Int
                              /\ list[i].descriptor_id <= IdBound
  BY <1>1, DescriptorType DEF ListOK, Bounded
<1>4. e.descriptor_id \in Int
  BY DescriptorType
<1>5. \A i, j \in 1..Len(list) :
        i < j => list[i].descriptor_id < list[j].descriptor_id
  BY DEF ListOK, InOrder
<1>6. \A i \in 1..Len(list) : i < k => list[i].descriptor_id < e.descriptor_id
  <2> SUFFICES ASSUME NEW i \in 1..Len(list), i < k
               PROVE  list[i].descriptor_id < e.descriptor_id
    OBVIOUS
  <2>1. k - 1 \in 1..Len(list) /\ k > 1
    BY <1>1
  <2>2. i = k - 1 \/ list[i].descriptor_id < list[k - 1].descriptor_id
    BY <1>1, <1>5, <2>1
  <2> QED
    BY <1>3, <1>4, <2>1, <2>2
<1>7. \A i \in 1..Len(list) : i >= k => e.descriptor_id < list[i].descriptor_id
  <2> SUFFICES ASSUME NEW i \in 1..Len(list), i >= k
               PROVE  e.descriptor_id < list[i].descriptor_id
    OBVIOUS
  <2>1. k \in 1..Len(list)
    BY <1>1
  <2>2. i = k \/ list[k].descriptor_id < list[i].descriptor_id
    BY <1>1, <1>5, <2>1
  <2> QED
    BY <1>3, <1>4, <2>1, <2>2
<1>8. \A i \in 1..Len(new) : new[i].descriptor_id <= IdBound
  <2> SUFFICES ASSUME NEW i \in 1..(Len(list) + 1)
               PROVE  at(i).descriptor_id <= IdBound
    BY <1>2
  <2>1. CASE i < k
    BY <1>1, <1>3, <2>1 DEF ElementAfter
  <2>2. CASE i = k
    BY <2>2 DEF ElementAfter
  <2>3. CASE i > k
    <3>1. i - 1 \in 1..Len(list)
      BY <1>1, <2>3
    <3> QED
      BY <1>1, <1>3, <2>3, <3>1 DEF ElementAfter
  <2> QED
    BY <1>1, <2>1, <2>2, <2>3
<1>9. ASSUME NEW i \in 1..(Len(list) + 1), NEW j \in 1..(Len(list) + 1), i < j
      PROVE  at(i).descriptor_id < at(j).descriptor_id
  <2>1. CASE j < k
    BY <1>1, <1>5, <1>9, <2>1 DEF ElementAfter
  <2>2. CASE j = k
    BY <1>1, <1>6, <1>9, <2>2 DEF ElementAfter
  <2>3. CASE j > k
    <3>1. j - 1 \in 1..Len(list) /\ j - 1 >= k
      BY <1>1, <2>3
    <3>2. at(j) = list[j - 1]
      BY <1>1, <2>3 DEF ElementAfter
    <3>3. CASE i < k
      <4>1. at(i) = list[i] /\ i \in 1..Len(list) /\ i < j - 1
        BY <1>1, <2>3, <3>3 DEF ElementAfter
      <4> QED
        BY <1>5, <3>1, <3>2, <4>1
    <3>4. CASE i = k
      BY <1>7, <3>1, <3>2, <3>4 DEF ElementAfter
    <3>5. CASE i > k
      <4>1. at(i) = list[i - 1] /\ i - 1 \in 1..Len(list) /\ i - 1 < j - 1
        BY <1>1, <1>9, <3>5 DEF ElementAfter
      <4> QED
        BY <1>5, <3>1, <3>2, <4>1
    <3> QED
      BY <1>1, <3>3, <3>4, <3>5
  <2> QED
    BY <1>1, <2>1, <2>2, <2>3
<1>10. InOrder(new)
  BY <1>2, <1>9 DEF InOrder
<1> QED
  BY <1>2, <1>8, <1>10 DEF ListOK, Bounded

LEMMA RemoveKeepsOrder ==
  ASSUME NEW list, ListOK(list), NEW k \in 1..Len(list)
  PROVE  ListOK(Removed(list, k))
<1> DEFINE a == SubSeq(list, 1, k - 1)
           b == SubSeq(list, k + 1, Len(list))
           new == Removed(list, k)
<1>1. list \in Seq(Descriptor) /\ Len(list) \in Nat
  BY DEF ListOK
<1>2. a \in Seq(Descriptor) /\ Len(a) = k - 1
      /\ \A i \in 1..(k - 1) : a[i] = list[i]
  BY <1>1
<1>3. b \in Seq(Descriptor) /\ Len(b) = Len(list) - k
      /\ \A i \in 1..(Len(list) - k) : b[i] = list[i + k]
  BY <1>1
<1>4. new = a \o b
  BY DEF Removed
<1> HIDE DEF a, b
<1>5. a \o b \in Seq(Descriptor) /\ Len(a \o b) = Len(list) - 1
      /\ \A i \in 1..(Len(list) - 1) :
           (a \o b)[i] = IF i < k THEN a[i] ELSE b[i - (k - 1)]
  <2>1. a \in Seq(Descriptor) /\ b \in Seq(Descriptor)
    BY <1>2, <1>3
  <2>2. /\ a \o b \in Seq(Descriptor)
        /\ Len(a \o b) = Len(a) + Len(b)
        /\ \A i \in 1..(Len(a) + Len(b)) :
             (a \o b)[i] = IF i <= Len(a) THEN a[i] ELSE b[i - Len(a)]
    BY <2>1, ConcatProperties
  <2>3. Len(a) = k - 1 /\ Len(a) + Len(b) = Len(list) - 1
    BY <1>1, <1>2, <1>3
  <2>4. \A i \in 1..(Len(list) - 1) : i <= k - 1 <=> i < k
    BY <1>1
  <2> QED
    BY <2>2, <2>3, <2>4, Zenon
<1>6. \A i \in 1..(Len(list) - 1) :
        (a \o b)[i] = IF i < k THEN list[i] ELSE list[i + 1]
  BY <1>1, <1>2, <1>3, <1>5
<1> HIDE DEF new
<1>7. Bounded(new)
  BY <1>1, <1>4, <1>5, <1>6 DEF ListOK, Bounded
<1>8. InOrder(new)
  <2> SUFFICES ASSUME NEW i \in 1..Len(new), NEW j \in 1..Len(new), i < j
               PROVE  new[i].descriptor_id < new[j].descriptor_id
    BY DEF InOrder
  <2>1. i \in 1..(Len(list) - 1) /\ j \in 1..(Len(list) - 1)
    BY <1>4, <1>5
  <2>2. \E x, y \in 1..Len(list) : x < y /\ new[i] = list[x] /\ new[j] = list[y]
    <3>1. CASE j < k
      BY <1>1, <1>4, <1>6, <2>1, <3>1
    <3>2. CASE i < k /\ j >= k
      <4>1. new[i] = list[i] /\ new[j] = list[j + 1]
        BY <1>1, <1>4, <1>6, <2>1, <3>2
      <4>2. i \in 1..Len(list) /\ j + 1 \in 1..Len(list) /\ i < j + 1
        BY <1>1, <2>1
      <4> QED
        BY <4>1, <4>2
    <3>3. CASE i >= k
      <4>1. new[i] = list[i + 1] /\ new[j] = list[j + 1]
        BY <1>1, <1>4, <1>6, <2>1, <3>3
      <4>2. i + 1 \in 1..Len(list) /\ j + 1 \in 1..Len(list) /\ i + 1 < j + 1
        BY <1>1, <2>1
      <4> QED
        BY <4>1, <4>2
    <3> QED
      BY <1>1, <2>1, <3>1, <3>2, <3>3
  <2> QED
    BY <2>2 DEF ListOK, InOrder
<1> QED
  BY <1>4, <1>5, <1>7, <1>8 DEF ListOK, new

LEMMA ReplaceKeepsOrder ==
  ASSUME NEW list, ListOK(list), NEW k \in 1..Len(list), NEW e \in Descriptor,
         list[k].descriptor_id = e.descriptor_id
  PROVE  ListOK([list EXCEPT ![k] = e])
<1> DEFINE new == [list EXCEPT ![k] = e]
<1>1. list \in Seq(Descriptor) /\ Len(list) \in Nat
  BY DEF ListOK
<1>2. new \in Seq(Descriptor) /\ Len(new) = Len(list)
  BY <1>1
<1>3. \A i \in 1..Len(list) : new[i].descriptor_id = list[i].descriptor_id
  BY <1>1
<1> HIDE DEF new
<1>4. InOrder(new) /\ Bounded(new)
  BY <1>1, <1>2, <1>3 DEF ListOK, InOrder, Bounded
<1> QED
  BY <1>2, <1>4 DEF ListOK, new

(***************************************************************************)
(* add_descriptor.                                                         *)
(***************************************************************************)
LEMMA AddKeepsOrder ==
  ASSUME NoOverflow, NEW list, ListOK(list), MayAdd(list),
         NEW d \in Device, NEW o \in Obj
  PROVE  ListOK(add_descriptor(list, d, o))
<1> USE FileTableAssumption
<1> DEFINE e == Fresh(NextId(list), d, o)
<1>1. list \in Seq(Descriptor) /\ Len(list) \in Nat
  BY DEF ListOK
<1>2. add_descriptor(list, d, o) = InsertedAt(list, Place(list) + 1, e)
  BY DEF add_descriptor
<1>3. NextId(list) <= IdBound
  BY DEF MayAdd
<1>4. CASE list = <<>>
  <2>1. NextId(list) = 0 /\ 0 \in Int32
    BY <1>4 DEF NextId, Int32
  <2>2. e \in Descriptor /\ e.descriptor_id = 0
    BY <2>1 DEF Fresh, Descriptor
  <2>3. Place(list) = 0
    <3>1. Len(list) = 0
      BY <1>4
    <3>2. {k \in 1..(Len(list) - 1) : GapAfter(list, k)} = {}
      BY <3>1
    <3> QED
      BY <3>1, <3>2 DEF Place
  <2> HIDE DEF e
  <2>4. ListOK(InsertedAt(list, 1, e))
    BY <1>1, <1>3, <1>4, <2>1, <2>2, InsertKeepsOrder
  <2> QED
    BY <1>2, <2>3, <2>4
<1>5. CASE list # <<>>
  <2> DEFINE k == Place(list)
  <2>1. k \in 1..Len(list) /\ (k < Len(list) => GapAfter(list, k))
    BY <1>1, <1>5, PlaceIsInList
  <2> HIDE DEF k
  <2>2. NextId(list) = Incremented(list[k].descriptor_id)
    BY <1>5 DEF NextId, k
  <2>3. list[k].descriptor_id \in Int32 /\ list[k].descriptor_id <= IdBound
    <3>1. list[k] \in Descriptor
      BY <1>1, <2>1
    <3> QED
      BY <2>1, <3>1 DEF ListOK, Bounded, Descriptor
  <2>4. /\ Incremented(list[k].descriptor_id) = list[k].descriptor_id + 1
        /\ Incremented(list[k].descriptor_id) \in Int32
    BY <2>3 DEF Incremented, Int32, NoOverflow
  <2>5. e \in Descriptor /\ e.descriptor_id = list[k].descriptor_id + 1
    BY <2>2, <2>4 DEF Fresh, Descriptor
  <2>6. e.descriptor_id <= IdBound
    BY <1>3 DEF Fresh
  <2> HIDE DEF e
  <2>7. list[(k + 1) - 1].descriptor_id < e.descriptor_id
    BY <2>1, <2>3, <2>5 DEF Int32
  <2>8. k + 1 <= Len(list) => e.descriptor_id < list[k + 1].descriptor_id
    BY <1>1, <2>1, <2>4, <2>5 DEF GapAfter
  <2>9. k + 1 \in 1..(Len(list) + 1)
    BY <1>1, <2>1
  <2>10. ListOK(InsertedAt(list, k + 1, e))
    BY <2>5, <2>6, <2>7, <2>8, <2>9, InsertKeepsOrder
  <2> QED
    BY <1>2, <2>10 DEF k
<1> QED
  BY <1>4, <1>5

(***************************************************************************)
(* The steps.                                                              *)
(***************************************************************************)
LEMMA SetKeepsLists ==
  ASSUME ListsOK, NEW p \in Process, NEW list, ListOK(list), SetList(p, list)
  PROVE  ListsOK'
BY DEF ListsOK, SetList, ListOK

LEMMA OpenStep ==
  ASSUME NoOverflow, ListsOK, NEW p \in Process, kfopen(p)
  PROVE  ListsOK'
<1>1. PICK o \in Obj \ objects :
        /\ MayAdd(file_descriptors[p])
        /\ SetList(p, add_descriptor(file_descriptors[p], "ramdisk_device", o))
  BY DEF kfopen
<1>2. ListOK(add_descriptor(file_descriptors[p], "ramdisk_device", o))
  BY <1>1, AddKeepsOrder DEF ListsOK, Device
<1> QED
  BY <1>1, <1>2, SetKeepsLists

LEMMA PipeStep ==
  ASSUME NoOverflow, ListsOK, NEW p \in Process, kpipe(p)
  PROVE  ListsOK'
<1>1. PICK o \in Obj \ objects :
        LET fd1 == add_descriptor(file_descriptors[p], "pipe_device_out", o)
        IN /\ MayAdd(file_descriptors[p])
           /\ MayAdd(fd1)
           /\ SetList(p, add_descriptor(fd1, "pipe_device_in", o))
  BY DEF kpipe
<1> DEFINE fd1 == add_descriptor(file_descriptors[p], "pipe_device_out", o)
<1>2. ListOK(fd1)
  BY <1>1, AddKeepsOrder DEF ListsOK, Device, PipeDevice
<1>3. MayAdd(fd1) /\ SetList(p, add_descriptor(fd1, "pipe_device_in", o))
  BY <1>1
<1> HIDE DEF fd1
<1>4. ListOK(add_descriptor(fd1, "pipe_device_in", o))
  BY <1>2, <1>3, AddKeepsOrder DEF Device, PipeDevice
<1> QED
  BY <1>3, <1>4, SetKeepsLists

LEMMA PipeFaultStep ==
  ASSUME NoOverflow, ListsOK, NEW p \in Process, kpipe_fault(p)
  PROVE  ListsOK'
<1>1. PICK o \in Obj \ objects :
        /\ MayAdd(file_descriptors[p])
        /\ SetList(p, add_descriptor(file_descriptors[p], "pipe_device_out", o))
  BY DEF kpipe_fault
<1>2. ListOK(add_descriptor(file_descriptors[p], "pipe_device_out", o))
  BY <1>1, AddKeepsOrder DEF ListsOK, Device, PipeDevice
<1> QED
  BY <1>1, <1>2, SetKeepsLists

LEMMA CloseStep ==
  ASSUME ListsOK, NEW p \in Process, NEW fd \in FdArg, kfclose(p, fd)
  PROVE  ListsOK'
<1>1. PICK k \in 1..Len(file_descriptors[p]) :
        SetList(p, Removed(file_descriptors[p], k))
  BY DEF kfclose
<1>2. ListOK(Removed(file_descriptors[p], k))
  BY RemoveKeepsOrder DEF ListsOK
<1> QED
  BY <1>1, <1>2, SetKeepsLists

LEMMA Dup2Step ==
  ASSUME NoOverflow, ListsOK, NEW p \in Process,
         NEW oldfd \in FdArg, NEW newfd \in FdArg, kdup2(p, oldfd, newfd)
  PROVE  ListsOK'
<1> USE FileTableAssumption
<1> DEFINE list == file_descriptors[p]
<1>1. PICK k \in 1..Len(list), j \in 1..Len(list) :
        /\ StopsAt(list, newfd, j)
        /\ Dup2Place(p, Fresh(newfd, list[k].device, list[k].data),
                     DupCount(dependents, list[k]), j)
  BY DEF kdup2
<1> DEFINE e == Fresh(newfd, list[k].device, list[k].data)
           at == IF list[j].descriptor_id > newfd THEN j ELSE j + 1
<1>2. ListOK(list) /\ list \in Seq(Descriptor) /\ Len(list) \in Nat
  BY DEF ListsOK, ListOK
<1>3. e \in Descriptor /\ e.descriptor_id = newfd
  <2>1. newfd \in Int32 /\ list[k] \in Descriptor
    BY <1>2 DEF Int32
  <2> QED
    BY <2>1 DEF Fresh, Descriptor
<1>4. newfd \in Int /\ newfd <= IdBound
  BY DEF NoOverflow
<1>5. list[j].descriptor_id \in Int
  BY <1>2, DescriptorType
<1>6. CASE list[j].descriptor_id = newfd
  <2>1. SetList(p, [list EXCEPT ![j] = e])
    BY <1>1, <1>6 DEF Dup2Place, Fresh
  <2> HIDE DEF e, list
  <2>2. ListOK([list EXCEPT ![j] = e])
    BY <1>1, <1>2, <1>3, <1>6, ReplaceKeepsOrder
  <2> QED
    BY <2>1, <2>2, SetKeepsLists
<1>7. CASE list[j].descriptor_id # newfd
  <2>1. SetList(p, InsertedAt(list, at, e))
    BY <1>1, <1>7 DEF Dup2Place, Fresh
  <2>2. \A i \in 1..(j - 1) : list[i].descriptor_id < newfd
    BY <1>1 DEF StopsAt
  <2>3. list[j].descriptor_id > newfd \/ j = Len(list)
    BY <1>1, <1>4, <1>5, <1>7 DEF StopsAt
  <2> HIDE DEF e, list
  <2>4. at \in 1..(Len(list) + 1)
    BY <1>2
  <2>5. at > 1 => list[at - 1].descriptor_id < e.descriptor_id
    <3>1. CASE list[j].descriptor_id > newfd
      BY <1>2, <1>3, <2>2, <3>1
    <3>2. CASE ~(list[j].descriptor_id > newfd)
      BY <1>2, <1>3, <1>4, <1>5, <1>7, <3>2
    <3> QED
      BY <3>1, <3>2
  <2>6. at <= Len(list) => e.descriptor_id < list[at].descriptor_id
    BY <1>2, <1>3, <1>4, <1>5, <2>3
  <2> HIDE DEF at
  <2>7. ListOK(InsertedAt(list, at, e))
    BY <1>2, <1>3, <1>4, <2>4, <2>5, <2>6, InsertKeepsOrder
  <2> QED
    BY <2>1, <2>7, SetKeepsLists
<1> QED
  BY <1>6, <1>7

LEMMA ForkStep ==
  ASSUME ListsOK, NEW p \in Process, NEW c \in Process, kfork(p, c)
  PROVE  ListsOK'
<1> DEFINE list == file_descriptors[p]
<1>1. PICK new \in [1..Len(list) -> Obj] :
        SetList(c, [k \in 1..Len(list) |-> [list[k] EXCEPT !.data = new[k]]])
  BY DEF kfork
<1> DEFINE clone == [k \in 1..Len(list) |-> [list[k] EXCEPT !.data = new[k]]]
<1>2. ListOK(list) /\ list \in Seq(Descriptor) /\ Len(list) \in Nat
  BY DEF ListsOK, ListOK
<1> HIDE DEF list
<1>3. \A k \in 1..Len(list) :
        /\ [list[k] EXCEPT !.data = new[k]] \in Descriptor
        /\ [list[k] EXCEPT !.data = new[k]].descriptor_id = list[k].descriptor_id
  <2> SUFFICES ASSUME NEW k \in 1..Len(list)
               PROVE  /\ [list[k] EXCEPT !.data = new[k]] \in Descriptor
                      /\ [list[k] EXCEPT !.data = new[k]].descriptor_id
                           = list[k].descriptor_id
    OBVIOUS
  <2>1. list[k] \in Descriptor /\ new[k] \in Obj
    BY <1>2
  <2> QED
    BY <2>1 DEF Descriptor
<1>4. clone \in Seq(Descriptor) /\ Len(clone) = Len(list)
  BY <1>2, <1>3
<1>5. \A k \in 1..Len(list) : clone[k].descriptor_id = list[k].descriptor_id
  BY <1>3
<1> HIDE DEF clone
<1>6. InOrder(clone) /\ Bounded(clone)
  BY <1>2, <1>4, <1>5 DEF ListOK, InOrder, Bounded
<1>7. ListOK(clone)
  BY <1>4, <1>6 DEF ListOK
<1> QED
  BY <1>1, <1>7, SetKeepsLists DEF clone

LEMMA ListStep ==
  ASSUME NoOverflow, ListsOK, running \subseteq Process, [Next]_vars
  PROVE  ListsOK'
<1>1. CASE UNCHANGED vars
  BY <1>1 DEF vars, ListsOK, ListOK
<1>2. ASSUME NEW p \in running, process_exit(p)
      PROVE  ListsOK'
  BY <1>2 DEF process_exit, ListsOK, ListOK
<1> QED
  BY <1>1, <1>2, OpenStep, PipeStep, PipeFaultStep, CloseStep, Dup2Step,
     ForkStep DEF Next

LEMMA RunningStep ==
  ASSUME running \subseteq Process, [Next]_vars
  PROVE  (running \subseteq Process)'
BY DEF Next, vars, kfopen, kpipe, kpipe_fault, kfclose, kdup2, kfork, process_exit,
       sameProcesses

LEMMA ListStart ==
  ASSUME Init
  PROVE  ListsOK /\ running \subseteq Process
<1>1. file_descriptors = [p \in Process |-> <<>>] /\ running = {Boot}
  BY DEF Init
<1>2. <<>> \in Seq(Descriptor) /\ Len(<<>>) = 0
  OBVIOUS
<1>3. ListOK(<<>>)
  BY <1>2 DEF ListOK, InOrder, Bounded
<1> QED
  BY <1>1, <1>2, <1>3, FileTableAssumption DEF ListsOK

-----------------------------------------------------------------------------
(***************************************************************************)
(* The counts.                                                             *)
(***************************************************************************)
Names(e, d, o) == e.device = d /\ e.data = o

\* The places in lists F of descriptors of device d and data o.
RefsIn(F, d, o) ==
  {r \in Process \X (1..MaxOpen) :
     r[2] <= Len(F[r[1]]) /\ Names(F[r[1]][r[2]], d, o)}

LEMMA ReferencesAreRefs ==
  /\ \A d, o : References(d, o) = RefsIn(file_descriptors, d, o)
  /\ \A d, o : References(d, o)' = RefsIn(file_descriptors', d, o)
BY DEF References, RefsIn, Names

LEMMA RefIn ==
  ASSUME NEW F, NEW d, NEW o, NEW q \in Process, NEW i \in 1..MaxOpen
  PROVE  <<q, i>> \in RefsIn(F, d, o) <=> i <= Len(F[q]) /\ Names(F[q][i], d, o)
BY DEF RefsIn

\* List p of F, of length n, gets e in its k-th place and is that of G.
OneMore(F, G, p, n, k, e) ==
  /\ Len(F[p]) = n /\ Len(G[p]) = n + 1
  /\ \A q \in Process \ {p} : G[q] = F[q]
  /\ \A i \in 1..(n + 1) : G[p][i] = ElementAfter(F[p], k, e, i)

LEMMA GrowsIsOneMore ==
  ASSUME NEW F, NEW G, NEW p \in Process, NEW n, NEW k, NEW e,
         ListGrows(F[p], G[p], n, k, e), \A q \in Process \ {p} : G[q] = F[q]
  PROVE  OneMore(F, G, p, n, k, e)
BY DEF ListGrows, OneMore

LEMMA RefsShift ==
  ASSUME NEW F, NEW G, NEW p \in Process, NEW n \in Nat, NEW k \in 1..(n + 1),
         NEW e, NEW d, NEW o, n + 1 <= MaxOpen, OneMore(F, G, p, n, k, e)
  PROVE  /\ ExistsBijection(RefsIn(F, d, o), RefsIn(G, d, o) \ {<<p, k>>})
         /\ <<p, k>> \in RefsIn(G, d, o) <=> Names(e, d, o)
<1> USE FileTableAssumption
<1> DEFINE S == RefsIn(F, d, o)
           T == RefsIn(G, d, o) \ {<<p, k>>}
           Shift(r) == IF r[1] = p /\ r[2] >= k THEN <<p, r[2] + 1>> ELSE r
           Back(r) == IF r[1] = p /\ r[2] > k THEN <<p, r[2] - 1>> ELSE r
           f == [r \in S |-> Shift(r)]
<1>1. \A i \in 1..(n + 1) : G[p][i] = IF i < k THEN F[p][i]
                                      ELSE IF i = k THEN e ELSE F[p][i - 1]
  BY DEF OneMore, ElementAfter
<1>2. Len(F[p]) = n /\ Len(G[p]) = n + 1 /\ \A q \in Process \ {p} : G[q] = F[q]
  BY DEF OneMore
<1>3. ASSUME NEW q \in Process, NEW i \in 1..MaxOpen, <<q, i>> \in S
      PROVE  Shift(<<q, i>>) \in T
  <2>1. i <= Len(F[q]) /\ Names(F[q][i], d, o)
    BY <1>3, RefIn
  <2>2. CASE q = p /\ i >= k
    <3>1. i + 1 \in 1..MaxOpen /\ i + 1 \in 1..(n + 1) /\ i + 1 > k
      BY <1>2, <2>1, <2>2
    <3>2. G[p][i + 1] = F[p][i]
      BY <1>1, <3>1
    <3>3. <<p, i + 1>> \in RefsIn(G, d, o)
      BY <1>2, <2>1, <2>2, <3>1, <3>2, RefIn
    <3> QED
      BY <2>2, <3>1, <3>3
  <2>3. CASE q = p /\ i < k
    <3>1. i \in 1..(n + 1) /\ i <= n
      BY <1>2, <2>1, <2>3
    <3>2. G[p][i] = F[p][i]
      BY <1>1, <2>3, <3>1
    <3>3. i <= Len(G[p]) /\ Names(G[p][i], d, o)
      BY <1>2, <2>1, <2>3, <3>1, <3>2
    <3>4. <<p, i>> \in RefsIn(G, d, o)
      BY <3>3, RefIn
    <3> QED
      BY <2>3, <3>1, <3>4
  <2>4. CASE q # p
    BY <1>2, <2>1, <2>4, RefIn
  <2> QED
    BY <2>2, <2>3, <2>4
<1>4. ASSUME NEW q \in Process, NEW i \in 1..MaxOpen, <<q, i>> \in T
      PROVE  Back(<<q, i>>) \in S /\ Shift(Back(<<q, i>>)) = <<q, i>>
  <2>1. i <= Len(G[q]) /\ Names(G[q][i], d, o) /\ <<q, i>> # <<p, k>>
    BY <1>4, RefIn
  <2>2. CASE q = p /\ i > k
    <3>1. i - 1 \in 1..MaxOpen /\ i \in 1..(n + 1) /\ i - 1 >= k /\ i - 1 <= n
      BY <1>2, <2>1, <2>2
    <3>2. G[p][i] = F[p][i - 1]
      BY <1>1, <2>2, <3>1
    <3>3. <<p, i - 1>> \in S
      BY <1>2, <2>1, <2>2, <3>1, <3>2, RefIn
    <3> QED
      BY <2>2, <3>1, <3>3
  <2>3. CASE q = p /\ i < k
    <3>1. i \in 1..(n + 1) /\ i <= n
      BY <1>2, <2>1, <2>3
    <3>2. G[p][i] = F[p][i]
      BY <1>1, <2>3, <3>1
    <3>3. <<p, i>> \in S
      BY <1>2, <2>1, <2>3, <3>1, <3>2, RefIn
    <3> QED
      BY <2>3, <3>1, <3>3
  <2>4. CASE q # p
    BY <1>2, <2>1, <2>4, RefIn
  <2> QED
    BY <2>1, <2>2, <2>3, <2>4
<1>5. <<p, k>> \in RefsIn(G, d, o) <=> Names(e, d, o)
  <2>1. k \in 1..MaxOpen /\ k <= Len(G[p]) /\ G[p][k] = e
    BY <1>1, <1>2
  <2> QED
    BY <2>1, RefIn
<1>6. /\ \A r \in S : \E q \in Process, i \in 1..MaxOpen : r = <<q, i>>
      /\ \A r \in T : \E q \in Process, i \in 1..MaxOpen : r = <<q, i>>
  BY DEF RefsIn
<1>7. f \in [S -> T]
  BY <1>3, <1>6
<1>8. ASSUME NEW r \in S, NEW s \in S, Shift(r) = Shift(s)
      PROVE  r = s
  <2>1. PICK q \in Process, i \in 1..MaxOpen : r = <<q, i>>
    BY <1>6
  <2>2. PICK u \in Process, j \in 1..MaxOpen : s = <<u, j>>
    BY <1>6
  <2>3. Shift(<<q, i>>) = Shift(<<u, j>>)
    BY <1>8, <2>1, <2>2, Zenon
  <2>4. /\ Shift(<<q, i>>)[1] = q
        /\ Shift(<<q, i>>)[2] = IF q = p /\ i >= k THEN i + 1 ELSE i
    OBVIOUS
  <2>5. /\ Shift(<<u, j>>)[1] = u
        /\ Shift(<<u, j>>)[2] = IF u = p /\ j >= k THEN j + 1 ELSE j
    OBVIOUS
  <2> HIDE DEF Shift
  <2>6. q = u /\ i = j
    BY <2>3, <2>4, <2>5
  <2> QED
    BY <2>1, <2>2, <2>6
<1>9. ASSUME NEW r \in T
      PROVE  Back(r) \in S /\ Shift(Back(r)) = r
  <2> HIDE DEF S, T, Shift, Back
  <2>1. PICK q \in Process, i \in 1..MaxOpen : r = <<q, i>>
    BY <1>6
  <2> QED
    BY <1>4, <2>1, Zenon
<1>10. f \in Bijection(S, T)
  <2> HIDE DEF S, T, Shift, Back
  <2>1. \A r, s \in S : f[r] = f[s] => r = s
    BY <1>8
  <2>2. \A t \in T : \E s \in S : f[s] = t
    BY <1>9
  <2> HIDE DEF f
  <2> QED
    BY <1>7, <2>1, <2>2, Fun_IsBij
<1> QED
  BY <1>5, <1>10 DEF ExistsBijection

LEMMA CountedOneMore ==
  ASSUME NEW F, NEW G, NEW p \in Process, NEW n \in Nat, NEW k \in 1..(n + 1),
         NEW e, NEW d, NEW o, n + 1 <= MaxOpen, OneMore(F, G, p, n, k, e),
         IsFiniteSet(RefsIn(F, d, o)) \/ IsFiniteSet(RefsIn(G, d, o))
  PROVE  /\ IsFiniteSet(RefsIn(F, d, o)) /\ IsFiniteSet(RefsIn(G, d, o))
         /\ Cardinality(RefsIn(F, d, o)) \in Nat
         /\ Cardinality(RefsIn(G, d, o))
              = Cardinality(RefsIn(F, d, o)) + (IF Names(e, d, o) THEN 1 ELSE 0)
<1> DEFINE S == RefsIn(F, d, o)
           R == RefsIn(G, d, o)
           T == R \ {<<p, k>>}
<1>1. ExistsBijection(S, T) /\ (<<p, k>> \in R <=> Names(e, d, o))
  BY RefsShift
<1> HIDE DEF S, R
<1>2. IsFiniteSet(S) /\ IsFiniteSet(R) /\ Cardinality(T) = Cardinality(S)
  <2>1. CASE IsFiniteSet(S)
    <3>1. IsFiniteSet(T) /\ Cardinality(T) = Cardinality(S)
      BY <1>1, <2>1, FS_Bijection
    <3>2. IsFiniteSet(T \cup {<<p, k>>})
      BY <3>1, FS_AddElement
    <3>3. R \in SUBSET (T \cup {<<p, k>>})
      OBVIOUS
    <3> QED
      BY <2>1, <3>1, <3>2, <3>3, FS_Subset
  <2>2. CASE IsFiniteSet(R)
    <3>1. IsFiniteSet(T)
      BY <2>2, FS_RemoveElement
    <3>2. ExistsBijection(T, S)
      BY <1>1, Fun_ExistsBijSymmetric
    <3> QED
      BY <2>2, <3>1, <3>2, FS_Bijection
  <2> QED
    BY <2>1, <2>2 DEF S, R
<1>3. Cardinality(S) \in Nat /\ Cardinality(R) \in Nat
  BY <1>2, FS_CardinalityType
<1>4. Cardinality(T) = IF <<p, k>> \in R THEN Cardinality(R) - 1 ELSE Cardinality(R)
  BY <1>2, FS_RemoveElement
<1>5. Cardinality(R) = Cardinality(S) + (IF Names(e, d, o) THEN 1 ELSE 0)
  BY <1>1, <1>2, <1>3, <1>4
<1> QED
  BY <1>2, <1>3, <1>5 DEF S, R

(***************************************************************************)
(* What the counts deps say of lists F, blocks used, and the pipes unl     *)
(* whose writing end is in no list.                                        *)
(***************************************************************************)
Extra(unl, d, o) == IF d = "pipe_device_in" /\ o \in unl THEN 1 ELSE 0

Counts == [Obj -> [Device -> Nat]]

Covered(F, deps, unl) ==
  \A o \in Obj, d \in Device :
    /\ IsFiniteSet(RefsIn(F, d, o))
    /\ IF d \in PipeDevice
       THEN deps[o][d] = Cardinality(RefsIn(F, d, o)) + Extra(unl, d, o)
       ELSE Cardinality(RefsIn(F, d, o)) <= deps[o][d]

FreeIsZero(deps, used) ==
  \A o \in Obj \ used : \A d \in Device : deps[o][d] = 0

\* The counts left are those of deps, and e.
AddsOne(deps, left, e) ==
  \A o \in Obj, d \in Device :
    left[o][d] = deps[o][d] + (IF Names(e, d, o) THEN 1 ELSE 0)

LEMMA ExtraType ==
  \A unl, d, o : Extra(unl, d, o) \in {0, 1}
BY DEF Extra

LEMMA CoveredAdd ==
  ASSUME NEW F, NEW G, NEW p \in Process, NEW n \in Nat, NEW k \in 1..(n + 1),
         NEW e, n + 1 <= MaxOpen, OneMore(F, G, p, n, k, e),
         NEW deps \in Counts, NEW left \in Counts, NEW unl,
         AddsOne(deps, left, e), Covered(F, deps, unl)
  PROVE  Covered(G, left, unl)
<1> SUFFICES ASSUME NEW o \in Obj, NEW d \in Device
             PROVE  /\ IsFiniteSet(RefsIn(G, d, o))
                    /\ IF d \in PipeDevice
                       THEN left[o][d] = Cardinality(RefsIn(G, d, o)) + Extra(unl, d, o)
                       ELSE Cardinality(RefsIn(G, d, o)) <= left[o][d]
  BY DEF Covered
<1>1. /\ IsFiniteSet(RefsIn(F, d, o))
      /\ IF d \in PipeDevice
         THEN deps[o][d] = Cardinality(RefsIn(F, d, o)) + Extra(unl, d, o)
         ELSE Cardinality(RefsIn(F, d, o)) <= deps[o][d]
  BY DEF Covered
<1>2. /\ IsFiniteSet(RefsIn(G, d, o))
      /\ Cardinality(RefsIn(F, d, o)) \in Nat
      /\ Cardinality(RefsIn(G, d, o))
           = Cardinality(RefsIn(F, d, o)) + (IF Names(e, d, o) THEN 1 ELSE 0)
  BY <1>1, CountedOneMore
<1>3. left[o][d] = deps[o][d] + (IF Names(e, d, o) THEN 1 ELSE 0)
  BY DEF AddsOne
<1>4. deps[o][d] \in Nat /\ left[o][d] \in Nat
  BY DEF Counts
<1> QED
  BY <1>1, <1>2, <1>3, <1>4, ExtraType

LEMMA CoveredRemove ==
  ASSUME NEW F, NEW G, NEW p \in Process, NEW n \in Nat, NEW k \in 1..(n + 1),
         NEW e, n + 1 <= MaxOpen, OneMore(F, G, p, n, k, e),
         NEW deps \in Counts, NEW left \in [Obj -> [Device -> Int]], NEW unl,
         AddsOne(left, deps, e), Covered(G, deps, unl)
  PROVE  left \in Counts /\ Covered(F, left, unl)
<1>1. ASSUME NEW o \in Obj, NEW d \in Device
      PROVE  /\ IsFiniteSet(RefsIn(F, d, o))
             /\ IF d \in PipeDevice
                THEN left[o][d] = Cardinality(RefsIn(F, d, o)) + Extra(unl, d, o)
                ELSE Cardinality(RefsIn(F, d, o)) <= left[o][d]
             /\ left[o][d] \in Nat
  <2>1. /\ IsFiniteSet(RefsIn(G, d, o))
        /\ IF d \in PipeDevice
           THEN deps[o][d] = Cardinality(RefsIn(G, d, o)) + Extra(unl, d, o)
           ELSE Cardinality(RefsIn(G, d, o)) <= deps[o][d]
    BY DEF Covered
  <2>2. /\ IsFiniteSet(RefsIn(F, d, o))
        /\ Cardinality(RefsIn(F, d, o)) \in Nat
        /\ Cardinality(RefsIn(G, d, o))
             = Cardinality(RefsIn(F, d, o)) + (IF Names(e, d, o) THEN 1 ELSE 0)
    BY <2>1, CountedOneMore
  <2>3. deps[o][d] = left[o][d] + (IF Names(e, d, o) THEN 1 ELSE 0)
    BY DEF AddsOne
  <2>4. deps[o][d] \in Nat /\ left[o][d] \in Int
    BY DEF Counts
  <2> QED
    BY <2>1, <2>2, <2>3, <2>4, ExtraType
<1>2. left \in Counts
  BY <1>1 DEF Counts
<1> QED
  BY <1>1, <1>2 DEF Covered

\* A writing end that goes into no list.
LEMMA CoveredUnlisted ==
  ASSUME NEW F, NEW deps \in Counts, NEW left \in Counts, NEW unl,
         NEW b \in Obj, b \notin unl,
         AddsOne(deps, left, Fresh(0, "pipe_device_in", b)),
         Covered(F, deps, unl)
  PROVE  Covered(F, left, unl \cup {b})
<1> SUFFICES ASSUME NEW o \in Obj, NEW d \in Device
             PROVE  /\ IsFiniteSet(RefsIn(F, d, o))
                    /\ IF d \in PipeDevice
                       THEN left[o][d] = Cardinality(RefsIn(F, d, o))
                                           + Extra(unl \cup {b}, d, o)
                       ELSE Cardinality(RefsIn(F, d, o)) <= left[o][d]
  BY DEF Covered
<1> DEFINE N == Cardinality(RefsIn(F, d, o))
<1>1. /\ IsFiniteSet(RefsIn(F, d, o))
      /\ IF d \in PipeDevice
         THEN deps[o][d] = N + Extra(unl, d, o)
         ELSE N <= deps[o][d]
  BY DEF Covered
<1>2. N \in Nat
  BY <1>1, FS_CardinalityType
<1>3. left[o][d] = deps[o][d] + (IF "pipe_device_in" = d /\ b = o THEN 1 ELSE 0)
  BY DEF AddsOne, Names, Fresh
<1>4. deps[o][d] \in Nat /\ left[o][d] \in Nat
  BY DEF Counts
<1> HIDE DEF N
<1>5. Extra(unl \cup {b}, d, o)
        = Extra(unl, d, o) + (IF "pipe_device_in" = d /\ b = o THEN 1 ELSE 0)
  BY DEF Extra
<1>6. IF d \in PipeDevice THEN left[o][d] = N + Extra(unl \cup {b}, d, o)
                          ELSE N <= left[o][d]
  <2>1. CASE d \in PipeDevice
    BY <1>1, <1>2, <1>3, <1>4, <1>5, <2>1, ExtraType
  <2>2. CASE d \notin PipeDevice
    BY <1>1, <1>2, <1>3, <1>4, <2>2
  <2> QED
    BY <2>1, <2>2
<1> QED
  BY <1>1, <1>6 DEF N

\* No descriptor names a block that is not in use.
LEMMA NoneDangles ==
  ASSUME NEW F, NEW deps \in Counts, NEW unl, NEW used,
         Covered(F, deps, unl), FreeIsZero(deps, used),
         NEW o \in Obj \ used, NEW d \in Device
  PROVE  RefsIn(F, d, o) = {} /\ Extra(unl, d, o) = 0
<1> DEFINE N == Cardinality(RefsIn(F, d, o))
<1>1. /\ IsFiniteSet(RefsIn(F, d, o))
      /\ IF d \in PipeDevice
         THEN deps[o][d] = N + Extra(unl, d, o)
         ELSE N <= deps[o][d]
  BY DEF Covered
<1>2. N \in Nat
  BY <1>1, FS_CardinalityType
<1>3. deps[o][d] = 0
  BY DEF FreeIsZero
<1>4. d \notin PipeDevice => Extra(unl, d, o) = 0
  BY DEF Extra, PipeDevice
<1> HIDE DEF N
<1>5. N = 0 /\ Extra(unl, d, o) = 0
  BY <1>1, <1>2, <1>3, <1>4, ExtraType
<1> QED
  BY <1>1, <1>5, FS_EmptySet DEF N

LEMMA PositiveCard ==
  ASSUME NEW S, IsFiniteSet(S), NEW x \in S
  PROVE  Cardinality(S) \in Nat /\ Cardinality(S) >= 1
BY FS_CardinalityType, FS_EmptySet

\* The places in list of descriptors of device d and data o.
PlacesIn(list, n, d, o) == {k \in 1..n : Names(list[k], d, o)}

\* The list of c, which had none, gets n descriptors.
NewList(F, G, c, n) ==
  /\ Len(F[c]) = 0 /\ Len(G[c]) = n
  /\ \A q \in Process \ {c} : G[q] = F[q]

LEMMA RefsFork ==
  ASSUME NEW F, NEW G, NEW c \in Process, NEW n \in Nat, n <= MaxOpen,
         NewList(F, G, c, n),
         NEW d, NEW o, IsFiniteSet(RefsIn(F, d, o))
  PROVE  /\ IsFiniteSet(RefsIn(G, d, o))
         /\ Cardinality(RefsIn(F, d, o)) \in Nat
         /\ Cardinality(PlacesIn(G[c], n, d, o)) \in Nat
         /\ Cardinality(RefsIn(G, d, o))
              = Cardinality(RefsIn(F, d, o)) + Cardinality(PlacesIn(G[c], n, d, o))
<1> USE FileTableAssumption DEF NewList
<1> DEFINE K == PlacesIn(G[c], n, d, o)
           S == RefsIn(F, d, o)
           T == {<<c, k>> : k \in K}
           f == [k \in K |-> <<c, k>>]
<1>0. \A i \in 1..MaxOpen : <<c, i>> \notin S
  <2> SUFFICES ASSUME NEW i \in 1..MaxOpen
               PROVE  <<c, i>> \notin S
    OBVIOUS
  <2>1. ~(i <= Len(F[c]))
    OBVIOUS
  <2> QED
    BY <2>1, RefIn, Zenon
<1>1. IsFiniteSet(K)
  <2>1. IsFiniteSet(1..n)
    BY FS_Interval
  <2>2. K \in SUBSET (1..n)
    BY DEF PlacesIn
  <2> QED
    BY <2>1, <2>2, FS_Subset
<1>2. f \in Bijection(K, T)
  <2> HIDE DEF K
  <2>1. f \in [K -> T] /\ (\A i, j \in K : f[i] = f[j] => i = j)
        /\ \A t \in T : \E k \in K : f[k] = t
    OBVIOUS
  <2> HIDE DEF f, T
  <2> QED
    BY <2>1, Fun_IsBij
<1>3. IsFiniteSet(T) /\ Cardinality(T) = Cardinality(K)
  <2>1. ExistsBijection(K, T)
    BY <1>2 DEF ExistsBijection
  <2> HIDE DEF K, T
  <2> QED
    BY <1>1, <2>1, FS_Bijection
<1>4. RefsIn(G, d, o) = S \cup T
  <2>1. ASSUME NEW q \in Process, NEW i \in 1..MaxOpen
        PROVE  <<q, i>> \in RefsIn(G, d, o) <=> <<q, i>> \in S \/ <<q, i>> \in T
    <3>1. CASE q = c
      <4>1. <<q, i>> \notin S
        BY <1>0, <3>1
      <4>2. <<q, i>> \in T <=> i \in K
        BY <3>1
      <4>3. i \in K <=> i <= n /\ Names(G[c][i], d, o)
        BY DEF PlacesIn
      <4> HIDE DEF S, T, K
      <4> QED
        BY <3>1, <4>1, <4>2, <4>3, RefIn
    <3>2. CASE q # c
      <4>1. <<q, i>> \notin T
        BY <3>2
      <4>2. G[q] = F[q]
        BY <3>2
      <4>3. <<q, i>> \in RefsIn(G, d, o) <=> i <= Len(F[q]) /\ Names(F[q][i], d, o)
        BY <4>2, RefIn, Zenon
      <4>4. <<q, i>> \in S <=> i <= Len(F[q]) /\ Names(F[q][i], d, o)
        BY RefIn, Zenon
      <4> HIDE DEF S, T
      <4> QED
        BY <4>1, <4>3, <4>4
    <3> QED
      BY <3>1, <3>2
  <2>2. \A t \in T : \E i \in 1..MaxOpen : t = <<c, i>>
    BY DEF PlacesIn
  <2>3. \A t \in S \cup RefsIn(G, d, o) :
          \E q \in Process, i \in 1..MaxOpen : t = <<q, i>>
    BY DEF RefsIn
  <2> HIDE DEF S, T
  <2>4. ASSUME NEW t
        PROVE  t \in RefsIn(G, d, o) <=> t \in S \/ t \in T
    <3>1. CASE \E q \in Process, i \in 1..MaxOpen : t = <<q, i>>
      BY <2>1, <3>1, Zenon
    <3>2. CASE ~(\E q \in Process, i \in 1..MaxOpen : t = <<q, i>>)
      <4>1. t \notin S /\ t \notin RefsIn(G, d, o)
        BY <2>3, <3>2, Zenon
      <4>2. t \notin T
        BY <2>2, <3>2, Zenon
      <4> QED
        BY <4>1, <4>2, Zenon
    <3> QED
      BY <3>1, <3>2
  <2> QED
    BY <2>4
<1>5. S \cap T = {}
  <2>1. \A k \in K : <<c, k>> \notin S
    BY <1>0 DEF PlacesIn
  <2> HIDE DEF S, K
  <2> QED
    BY <2>1
<1>6. Cardinality(S) \in Nat /\ Cardinality(T) \in Nat
  BY <1>3, FS_CardinalityType
<1> HIDE DEF S, T, K
<1>7. /\ IsFiniteSet(S \cup T)
      /\ Cardinality(S \cup T) = Cardinality(S) + Cardinality(T)
                                   - Cardinality(S \cap T)
  BY <1>3, FS_Union DEF S
<1>8. Cardinality(S \cup T) = Cardinality(S) + Cardinality(T)
  <2>1. Cardinality(S \cap T) = 0
    BY <1>5, FS_EmptySet, Zenon
  <2> QED
    BY <1>6, <1>7, <2>1
<1>9. /\ IsFiniteSet(RefsIn(G, d, o))
      /\ IsFiniteSet(K)
      /\ Cardinality(S) \in Nat /\ Cardinality(K) \in Nat
      /\ Cardinality(RefsIn(G, d, o)) = Cardinality(S) + Cardinality(K)
  BY <1>1, <1>3, <1>4, <1>6, <1>7, <1>8
<1> QED
  BY <1>9 DEF S, K

Copies(list) == {k \in 1..Len(list) : list[k].device = "ramdisk_device"}

Blocks(list, new) == {new[k] : k \in Copies(list)}

\* new[k] is the block of the k-th descriptor in the clone of list.
Cloned(list, new, used) ==
  /\ new \in [1..Len(list) -> Obj]
  /\ \A k \in 1..Len(list) : k \notin Copies(list) => new[k] = list[k].data
  /\ \A k \in Copies(list) : new[k] \notin used
  /\ \A j, k \in Copies(list) : new[j] = new[k] => j = k

ForkCounts(deps, list, new, left) ==
  \A o \in Obj, d \in Device :
    left[o][d] = IF d \in PipeDevice
                 THEN deps[o][d] + CountIn(list, d, o)
                 ELSE IF \E k \in Copies(list) : new[k] = o
                 THEN deps[list[CHOOSE k \in Copies(list) : new[k] = o].data][d]
                 ELSE deps[o][d]

\* The list of c, which had none, becomes that of p with the blocks new.
ForkLists(F, G, p, c, new) ==
  /\ Len(F[c]) = 0 /\ Len(G[c]) = Len(F[p])
  /\ \A q \in Process \ {c} : G[q] = F[q]
  /\ \A k \in 1..Len(F[p]) : G[c][k] = [F[p][k] EXCEPT !.data = new[k]]

\* What a fork does to lists and counts.
Forks(F, G, p, c, new, used, deps, left) ==
  /\ Cloned(F[p], new, used)
  /\ ForkLists(F, G, p, c, new)
  /\ left \in [Obj -> [Device -> Int]]
  /\ ForkCounts(deps, F[p], new, left)

LEMMA CoveredFork ==
  ASSUME NEW F \in [Process -> Seq(Descriptor)], NEW G,
         NEW p \in Process, NEW c \in Process, Len(F[p]) <= MaxOpen,
         NEW deps \in Counts, NEW left, NEW unl, NEW used, NEW new,
         Forks(F, G, p, c, new, used, deps, left),
         Covered(F, deps, unl), FreeIsZero(deps, used)
  PROVE  /\ left \in Counts
         /\ Covered(G, left, unl)
         /\ FreeIsZero(left, used \cup Blocks(F[p], new))
<1> USE FileTableAssumption DEF Forks
<1> DEFINE list == F[p]
           K(d, o) == PlacesIn(G[c], Len(list), d, o)
<1>1. list \in Seq(Descriptor) /\ Len(list) \in Nat
      /\ \A k \in 1..Len(list) : list[k] \in Descriptor
  OBVIOUS
<1>2. \A k \in 1..Len(list) : /\ G[c][k].device = list[k].device
                              /\ G[c][k].data = new[k]
  BY <1>1 DEF ForkLists, Descriptor
<1>pipes. \A o \in Obj, d \in PipeDevice :
            d \in Device /\ left[o][d] = deps[o][d] + CountIn(list, d, o)
  BY DEF ForkCounts, Device
<1>3. ASSUME NEW o \in Obj, NEW d \in Device
      PROVE  /\ IsFiniteSet(RefsIn(G, d, o))
             /\ Cardinality(RefsIn(F, d, o)) \in Nat /\ Cardinality(K(d, o)) \in Nat
             /\ Cardinality(RefsIn(G, d, o))
                  = Cardinality(RefsIn(F, d, o)) + Cardinality(K(d, o))
  <2>1. IsFiniteSet(RefsIn(F, d, o))
    BY DEF Covered
  <2>2. /\ Len(F[c]) = 0 /\ Len(G[c]) = Len(F[p])
        /\ \A q \in Process \ {c} : G[q] = F[q]
    BY DEF ForkLists
  <2>3. PICK n \in Nat : n = Len(F[p])
    BY <1>1
  <2>4. n <= MaxOpen /\ NewList(F, G, c, n)
    BY <2>2, <2>3 DEF NewList
  <2>5. /\ IsFiniteSet(RefsIn(G, d, o))
        /\ Cardinality(RefsIn(F, d, o)) \in Nat
        /\ Cardinality(PlacesIn(G[c], n, d, o)) \in Nat
        /\ Cardinality(RefsIn(G, d, o))
             = Cardinality(RefsIn(F, d, o)) + Cardinality(PlacesIn(G[c], n, d, o))
    <3> HIDE DEF list
    <3> QED
      BY <2>1, <2>4, RefsFork
  <2> QED
    BY <2>3, <2>5
<1>4. \A o \in Obj \ used, d \in Device : RefsIn(F, d, o) = {}
  BY NoneDangles
<1>5. ASSUME NEW o \in Obj, NEW d \in PipeDevice
      PROVE  CountIn(list, d, o) = Cardinality(K(d, o))
  <2>1. \A k \in 1..Len(list) : list[k].device = d => new[k] = list[k].data
    BY DEF Cloned, Copies, PipeDevice
  <2>2. K(d, o) = {k \in 1..Len(list) : list[k].device = d /\ list[k].data = o}
    BY <1>2, <2>1 DEF Names, PlacesIn
  <2> QED
    BY <2>2 DEF CountIn
<1>6. ASSUME NEW k \in 1..Len(list)
      PROVE  <<p, k>> \in RefsIn(F, list[k].device, list[k].data)
  <2>1. k \in 1..MaxOpen /\ Names(list[k], list[k].device, list[k].data)
    BY <1>1 DEF Names
  <2>2. k <= Len(list)
    BY <1>1
  <2> QED
    BY <2>1, <2>2, RefIn, Zenon
<1>7. ASSUME NEW o \in Obj, NEW d \in Device, d \notin PipeDevice
      PROVE  /\ d = "ramdisk_device"
             /\ K(d, o) = {k \in Copies(list) : new[k] = o}
  BY <1>2, <1>7 DEF Device, Copies, Names, PlacesIn
<1>8. ASSUME NEW o \in Obj, NEW d \in Device
      PROVE  /\ IF d \in PipeDevice
                THEN left[o][d] = Cardinality(RefsIn(G, d, o)) + Extra(unl, d, o)
                ELSE Cardinality(RefsIn(G, d, o)) <= left[o][d]
             /\ left[o][d] \in Nat
  <2>1. CASE d \in PipeDevice
    <3>1. left[o][d] = deps[o][d] + Cardinality(K(d, o))
      BY <1>5, <1>pipes, <2>1
    <3>2. deps[o][d] = Cardinality(RefsIn(F, d, o)) + Extra(unl, d, o)
      BY <2>1 DEF Covered
    <3>3. /\ Cardinality(RefsIn(F, d, o)) \in Nat /\ Cardinality(K(d, o)) \in Nat
          /\ Cardinality(RefsIn(G, d, o))
               = Cardinality(RefsIn(F, d, o)) + Cardinality(K(d, o))
      BY <1>3
    <3>4. Extra(unl, d, o) \in {0, 1}
      BY ExtraType
    <3> HIDE DEF K
    <3>5. /\ left[o][d] = Cardinality(RefsIn(G, d, o)) + Extra(unl, d, o)
          /\ left[o][d] \in Nat
      BY <3>1, <3>2, <3>3, <3>4
    <3> QED
      BY <2>1, <3>5
  <2>2. CASE d \notin PipeDevice /\ \E k \in Copies(list) : new[k] = o
    <3> DEFINE j == CHOOSE k \in Copies(list) : new[k] = o
    <3>1. j \in Copies(list) /\ new[j] = o
      BY <2>2
    <3>2. left[o][d] = deps[list[j].data][d]
      BY <2>2 DEF ForkCounts
    <3> HIDE DEF j
    <3>3. RefsIn(F, d, o) = {} /\ Cardinality(RefsIn(F, d, o)) = 0
      <4>1. o \notin used
        BY <3>1 DEF Cloned
      <4> QED
        BY <1>4, <4>1, FS_EmptySet
    <3>4. Cardinality(K(d, o)) = 1
      <4>1. K(d, o) = {k \in Copies(list) : new[k] = o}
        BY <1>7, <2>2
      <4>2. K(d, o) = {j}
        BY <3>1, <4>1 DEF Cloned
      <4> QED
        BY <4>2, FS_Singleton
    <3>5. j \in 1..Len(list) /\ list[j].data \in Obj /\ list[j].device = d
      BY <1>1, <1>7, <2>2, <3>1 DEF Copies, Descriptor
    <3>6. /\ IsFiniteSet(RefsIn(F, d, list[j].data))
          /\ Cardinality(RefsIn(F, d, list[j].data)) <= deps[list[j].data][d]
      BY <2>2, <3>5 DEF Covered
    <3>7. /\ Cardinality(RefsIn(F, d, list[j].data)) \in Nat
          /\ Cardinality(RefsIn(F, d, list[j].data)) >= 1
      BY <1>6, <3>5, <3>6, PositiveCard
    <3>8. deps[list[j].data][d] \in Nat
      BY <3>5 DEF Counts
    <3>9. Cardinality(RefsIn(G, d, o)) = 0 + 1
      BY <1>3, <3>3, <3>4
    <3> HIDE DEF K, list
    <3> QED
      BY <2>2, <3>2, <3>6, <3>7, <3>8, <3>9
  <2>3. CASE d \notin PipeDevice /\ ~(\E k \in Copies(list) : new[k] = o)
    <3>1. K(d, o) = {} /\ Cardinality(K(d, o)) = 0
      <4>1. K(d, o) = {k \in Copies(list) : new[k] = o}
        BY <1>7, <2>3
      <4>2. K(d, o) = {}
        BY <2>3, <4>1
      <4> QED
        BY <4>2, FS_EmptySet
    <3>2. left[o][d] = deps[o][d]
      BY <2>3 DEF ForkCounts
    <3>3. Cardinality(RefsIn(F, d, o)) <= deps[o][d] /\ deps[o][d] \in Nat
      BY <2>3 DEF Covered, Counts
    <3>4. Cardinality(RefsIn(G, d, o)) = Cardinality(RefsIn(F, d, o))
      <4>1. Cardinality(RefsIn(G, d, o))
              = Cardinality(RefsIn(F, d, o)) + Cardinality(K(d, o))
            /\ Cardinality(RefsIn(F, d, o)) \in Nat
        BY <1>3
      <4> HIDE DEF K
      <4> QED
        BY <3>1, <4>1
    <3> QED
      BY <2>3, <3>2, <3>3, <3>4
  <2> QED
    BY <2>1, <2>2, <2>3
<1>9. ASSUME NEW o \in Obj, o \notin used \cup {new[k] : k \in Copies(list)},
             NEW d \in Device
      PROVE  left[o][d] = 0
  <2>1. deps[o][d] = 0
    BY <1>9 DEF FreeIsZero
  <2>2. CASE d \in PipeDevice
    <3>1. {k \in 1..Len(list) : list[k].device = d /\ list[k].data = o} = {}
      BY <1>4, <1>6, <1>9
    <3>2. CountIn(list, d, o) = 0
      BY <3>1, FS_EmptySet DEF CountIn
    <3> QED
      BY <1>pipes, <2>1, <2>2, <3>2
  <2>3. CASE d \notin PipeDevice
    BY <1>9, <2>1, <2>3 DEF ForkCounts
  <2> QED
    BY <2>2, <2>3
<1>10. left \in Counts
  BY <1>8 DEF Counts
<1>11. Covered(G, left, unl)
  BY <1>3, <1>8 DEF Covered
<1>12. FreeIsZero(left, used \cup {new[k] : k \in Copies(list)})
  BY <1>9 DEF FreeIsZero
<1> QED
  BY <1>10, <1>11, <1>12 DEF Blocks

(***************************************************************************)
(* The invariant: the counts cover the lists, and are zero for what is not *)
(* in use.                                                                 *)
(***************************************************************************)
ListsFit ==
  /\ \A p \in Process : Len(file_descriptors[p]) <= MaxOpen
  /\ \A p \in unborn : Len(file_descriptors[p]) = 0

CountInv ==
  /\ TypeOK
  /\ ListsFit
  /\ Covered(file_descriptors, dependents, unlisted)
  /\ FreeIsZero(dependents, objects)

\* The counts without e.
LessOne(deps, e) ==
  [o \in Obj |-> [d \in Device |-> deps[o][d] - (IF Names(e, d, o) THEN 1 ELSE 0)]]

LEMMA LessOneAdds ==
  ASSUME NEW deps \in Counts, NEW e
  PROVE  /\ LessOne(deps, e) \in [Obj -> [Device -> Int]]
         /\ AddsOne(LessOne(deps, e), deps, e)
<1>1. \A o \in Obj, d \in Device :
        LessOne(deps, e)[o][d] = deps[o][d] - (IF Names(e, d, o) THEN 1 ELSE 0)
  BY DEF LessOne
<1>2. \A o \in Obj, d \in Device : deps[o][d] \in Int
  BY DEF Counts
<1>3. LessOne(deps, e) \in [Obj -> [Device -> Int]]
  BY <1>2 DEF LessOne
<1> QED
  BY <1>1, <1>2, <1>3 DEF AddsOne

LEMMA DupCountAdds ==
  ASSUME NEW deps \in Counts, NEW e \in Descriptor
  PROVE  DupCount(deps, e) \in Counts /\ AddsOne(deps, DupCount(deps, e), e)
<1>1. e.data \in Obj /\ e.device \in Device
  BY DEF Descriptor
<1>2. DupCount(deps, e) \in Counts
  BY <1>1 DEF DupCount, Counts
<1>3. \A o \in Obj, d \in Device :
        DupCount(deps, e)[o][d]
          = IF o = e.data /\ d = e.device THEN deps[o][d] + 1 ELSE deps[o][d]
  BY <1>1 DEF DupCount, Counts
<1>4. \A o \in Obj, d \in Device : deps[o][d] \in Nat
  BY DEF Counts
<1> QED
  BY <1>2, <1>3, <1>4 DEF AddsOne, Names, Fresh

LEMMA CloseCountLess ==
  ASSUME NEW deps \in Counts, NEW e \in Descriptor, NEW used,
         CloseCount(deps, used, e)
  PROVE  /\ dependents' \in [Obj -> [Device -> Int]]
         /\ AddsOne(dependents', deps, e)
<1>1. e.data \in Obj /\ e.device \in Device
  BY DEF Descriptor
<1>2. dependents' = [deps EXCEPT ![e.data][e.device] = @ - 1]
  BY DEF CloseCount
<1>3. dependents' \in [Obj -> [Device -> Int]]
  BY <1>1, <1>2 DEF Counts
<1>4. \A o \in Obj, d \in Device :
        dependents'[o][d]
          = IF o = e.data /\ d = e.device THEN deps[o][d] - 1 ELSE deps[o][d]
  BY <1>1, <1>2 DEF Counts
<1>5. \A o \in Obj, d \in Device : deps[o][d] \in Nat
  BY DEF Counts
<1> QED
  BY <1>3, <1>4, <1>5 DEF AddsOne, Names, Fresh

LEMMA FreeAfterAdd ==
  ASSUME NEW deps \in Counts, NEW left \in Counts, NEW used, NEW e,
         FreeIsZero(deps, used), AddsOne(deps, left, e)
  PROVE  FreeIsZero(left, used \cup {e.data})
BY DEF FreeIsZero, AddsOne, Names

\* A block is freed when it has no dependents left, and not while it is that
\* of an unlisted end.
LEMMA FreeAfterClose ==
  ASSUME NEW deps \in Counts, NEW e \in Descriptor, NEW used, NEW F, NEW unl,
         unl \subseteq used, used \subseteq Obj, e.data \in used,
         FreeIsZero(deps, used), CloseCount(deps, used, e),
         dependents' \in Counts, Covered(F, dependents', unl)
  PROVE  /\ FreeIsZero(dependents', objects')
         /\ unl \subseteq objects' /\ objects' \subseteq Obj
<1>1. AddsOne(dependents', deps, e)
  BY CloseCountLess
<1>2. objects' = IF \A d \in Device : dependents'[e.data][d] = 0
                 THEN used \ {e.data} ELSE used
  BY DEF CloseCount
<1>3. FreeIsZero(dependents', objects')
  <2> SUFFICES ASSUME NEW o \in Obj \ objects', NEW d \in Device
               PROVE  dependents'[o][d] = 0
    BY DEF FreeIsZero
  <2>1. CASE o \in used
    BY <1>2, <2>1
  <2>2. CASE o \notin used
    <3>1. deps[o][d] = 0 /\ o # e.data
      BY <2>2 DEF FreeIsZero
    <3>2. deps[o][d] = dependents'[o][d] + 0 /\ dependents'[o][d] \in Nat
      BY <1>1, <3>1 DEF AddsOne, Names, Fresh, Counts
    <3> QED
      BY <3>1, <3>2
  <2> QED
    BY <2>1, <2>2
<1>4. ASSUME NEW o \in unl
      PROVE  dependents'[o]["pipe_device_in"] # 0
  <2>1. o \in Obj /\ "pipe_device_in" \in Device /\ "pipe_device_in" \in PipeDevice
    BY DEF Device, PipeDevice
  <2>2. IsFiniteSet(RefsIn(F, "pipe_device_in", o))
        /\ dependents'[o]["pipe_device_in"]
             = Cardinality(RefsIn(F, "pipe_device_in", o)) + Extra(unl, "pipe_device_in", o)
    BY <2>1 DEF Covered
  <2>3. Extra(unl, "pipe_device_in", o) = 1
    BY DEF Extra
  <2>4. Cardinality(RefsIn(F, "pipe_device_in", o)) \in Nat
    BY <2>2, FS_CardinalityType
  <2> QED
    BY <2>2, <2>3, <2>4
<1>5. "pipe_device_in" \in Device
  BY DEF Device, PipeDevice
<1> QED
  BY <1>2, <1>3, <1>4, <1>5

(***************************************************************************)
(* The steps.                                                              *)
(***************************************************************************)
LEMMA InvFacts ==
  ASSUME CountInv, NEW p \in Process
  PROVE  /\ dependents \in Counts
         /\ file_descriptors \in [Process -> Seq(Descriptor)]
         /\ file_descriptors[p] \in Seq(Descriptor)
         /\ Len(file_descriptors[p]) \in Nat /\ Len(file_descriptors[p]) <= MaxOpen
         /\ running \subseteq Process /\ unborn \subseteq Process \ running
         /\ objects \subseteq Obj /\ unlisted \subseteq objects
         /\ Covered(file_descriptors, dependents, unlisted)
         /\ FreeIsZero(dependents, objects)
BY DEF CountInv, TypeOK, ListsFit, Counts

\* What a descriptor names is in use.
LEMMA NamedIsUsed ==
  ASSUME CountInv, NEW p \in Process, NEW k \in 1..Len(file_descriptors[p])
  PROVE  /\ file_descriptors[p][k] \in Descriptor
         /\ file_descriptors[p][k].data \in objects
<1> DEFINE e == file_descriptors[p][k]
<1>1. e \in Descriptor
  BY InvFacts
<1>2. e.device \in Device /\ e.data \in Obj
  BY <1>1 DEF Descriptor
<1>3. k \in 1..MaxOpen /\ k <= Len(file_descriptors[p])
  BY InvFacts, FileTableAssumption
<1>4. <<p, k>> \in RefsIn(file_descriptors, e.device, e.data)
  <2>1. Names(file_descriptors[p][k], e.device, e.data)
    BY DEF Names
  <2> HIDE DEF e
  <2> QED
    BY <1>3, <2>1, RefIn
<1> HIDE DEF e
<1>5. CASE e.data \notin objects
  <2>1. RefsIn(file_descriptors, e.device, e.data) = {}
    BY <1>2, <1>5, InvFacts, NoneDangles
  <2> QED
    BY <1>4, <2>1
<1> QED
  BY <1>1, <1>5 DEF e

\* A step that changes list p of a process that has one.
LEMMA InvAfter ==
  ASSUME CountInv, NEW p \in running,
         file_descriptors' \in [Process -> Seq(Descriptor)],
         \A q \in Process \ {p} : file_descriptors'[q] = file_descriptors[q],
         Len(file_descriptors'[p]) <= MaxOpen,
         running' \subseteq running, UNCHANGED unborn,
         dependents' \in Counts,
         Covered(file_descriptors', dependents', unlisted'),
         FreeIsZero(dependents', objects'),
         unlisted' \subseteq objects', objects' \subseteq Obj
  PROVE  CountInv'
<1>1. p \in Process /\ p \notin unborn
  BY DEF CountInv, TypeOK
<1>2. TypeOK'
  BY DEF CountInv, TypeOK, Counts
<1>3. ListsFit'
  BY <1>1 DEF CountInv, ListsFit, TypeOK
<1> QED
  BY <1>2, <1>3 DEF CountInv

\* The lists G are F, but for that of p.
Sets(F, G, p, list) ==
  /\ G \in [Process -> Seq(Descriptor)]
  /\ G[p] = list
  /\ \A q \in Process \ {p} : G[q] = F[q]

LEMMA SetListSets ==
  ASSUME file_descriptors \in [Process -> Seq(Descriptor)], NEW p \in Process,
         NEW list \in Seq(Descriptor), SetList(p, list)
  PROVE  Sets(file_descriptors, file_descriptors', p, list)
BY DEF SetList, Sets

\* A list of F gets a descriptor by add_descriptor.
LEMMA AddCovered ==
  ASSUME NEW F \in [Process -> Seq(Descriptor)], NEW p \in Process,
         NEW G, NEW d \in Device, NEW o \in Obj,
         MayAdd(F[p]), Sets(F, G, p, add_descriptor(F[p], d, o)),
         NEW deps \in Counts, NEW left \in Counts, NEW unl, NEW used,
         Covered(F, deps, unl), FreeIsZero(deps, used),
         AddsOne(deps, left, Fresh(0, d, o))
  PROVE  /\ Len(G[p]) \in Nat /\ Len(G[p]) <= MaxOpen
         /\ Covered(G, left, unl)
         /\ FreeIsZero(left, used \cup {o})
<1> USE FileTableAssumption
<1>1. PICK n \in Nat : n = Len(F[p])
  OBVIOUS
<1>2. n + 1 <= MaxOpen
  BY <1>1 DEF MayAdd
<1>3. PICK k \in 1..(n + 1), e \in Descriptor :
        /\ e.device = d /\ e.data = o
        /\ ListGrows(F[p], add_descriptor(F[p], d, o), n, k, e)
  BY <1>1, AddGrows
<1>5. /\ G \in [Process -> Seq(Descriptor)]
      /\ G[p] = add_descriptor(F[p], d, o)
      /\ \A q \in Process \ {p} : G[q] = F[q]
  BY DEF Sets
<1>6. OneMore(F, G, p, n, k, e)
  BY <1>3, <1>5, GrowsIsOneMore
<1>7. AddsOne(deps, left, e)
  BY <1>3 DEF AddsOne, Names, Fresh
<1>8. Covered(G, left, unl)
  BY <1>2, <1>6, <1>7, CoveredAdd
<1>9. FreeIsZero(left, used \cup {o})
  BY <1>3, <1>7, FreeAfterAdd
<1>10. Len(G[p]) = n + 1
  BY <1>6 DEF OneMore
<1> QED
  BY <1>2, <1>8, <1>9, <1>10

LEMMA OpenCounts ==
  ASSUME CountInv, NEW p \in running, kfopen(p)
  PROVE  CountInv'
<1> USE FileTableAssumption
<1>1. p \in Process
  BY DEF CountInv, TypeOK
<1>2. PICK o \in Obj \ objects :
        /\ MayAdd(file_descriptors[p])
        /\ SetList(p, add_descriptor(file_descriptors[p], "ramdisk_device", o))
        /\ objects' = objects \cup {o}
        /\ dependents' = [dependents EXCEPT ![o]["ramdisk_device"] = 1]
        /\ sameProcesses
  BY DEF kfopen
<1>3. "ramdisk_device" \in Device /\ o \in Obj
  BY DEF Device
<1>4. dependents[o]["ramdisk_device"] = 0
  BY <1>1, <1>3, InvFacts DEF FreeIsZero
<1>5. dependents' \in Counts
      /\ AddsOne(dependents, dependents', Fresh(0, "ramdisk_device", o))
  <2>1. dependents \in Counts
    BY <1>1, InvFacts
  <2>2. dependents' \in Counts
    BY <1>2, <1>3, <2>1 DEF Counts
  <2>3. \A b \in Obj, d \in Device :
          dependents'[b][d] = IF b = o /\ d = "ramdisk_device" THEN 1
                                                               ELSE dependents[b][d]
    BY <1>2, <1>3, <2>1 DEF Counts
  <2>4. \A b \in Obj, d \in Device : dependents[b][d] \in Nat
    BY <2>1 DEF Counts
  <2> QED
    BY <1>4, <2>2, <2>3, <2>4 DEF AddsOne, Names, Fresh
<1>6. Sets(file_descriptors, file_descriptors', p,
           add_descriptor(file_descriptors[p], "ramdisk_device", o))
  <2>1. add_descriptor(file_descriptors[p], "ramdisk_device", o) \in Seq(Descriptor)
    BY <1>1, <1>3, InvFacts, AddGrows
  <2> QED
    BY <1>1, <1>2, <2>1, InvFacts, SetListSets
<1>7. /\ Len(file_descriptors'[p]) <= MaxOpen
      /\ Covered(file_descriptors', dependents', unlisted)
      /\ FreeIsZero(dependents', objects \cup {o})
  <2>1. /\ file_descriptors \in [Process -> Seq(Descriptor)]
        /\ dependents \in Counts
        /\ Covered(file_descriptors, dependents, unlisted)
        /\ FreeIsZero(dependents, objects)
    BY <1>1, InvFacts
  <2>2. MayAdd(file_descriptors[p])
    BY <1>2
  <2> QED
    BY <1>1, <1>3, <1>5, <1>6, <2>1, <2>2, AddCovered
<1>8. /\ unlisted' = unlisted /\ running' \subseteq running /\ UNCHANGED unborn
      /\ unlisted' \subseteq objects' /\ objects' \subseteq Obj
  BY <1>1, <1>2, InvFacts DEF sameProcesses
<1> QED
  BY <1>2, <1>5, <1>6, <1>7, <1>8, InvAfter DEF Sets

LEMMA NewPipeAdds ==
  ASSUME CountInv, NEW o \in Obj \ objects, NewPipe(o)
  PROVE  /\ dependents' \in Counts
         /\ \E mid \in Counts :
              /\ AddsOne(dependents, mid, Fresh(0, "pipe_device_out", o))
              /\ AddsOne(mid, dependents', Fresh(0, "pipe_device_in", o))
<1> USE FileTableAssumption
<1> DEFINE e == Fresh(0, "pipe_device_out", o)
<1>1. dependents \in Counts /\ \A d \in Device : dependents[o][d] = 0
  BY DEF CountInv, TypeOK, Counts, FreeIsZero
<1>2. "pipe_device_in" \in Device /\ "pipe_device_out" \in Device
  BY DEF Device, PipeDevice
<1>3. e \in Descriptor
  BY <1>2 DEF Fresh, Descriptor, Int32
<1>4. DupCount(dependents, e) \in Counts /\ AddsOne(dependents, DupCount(dependents, e), e)
  <2> HIDE DEF e
  <2> QED
    BY <1>1, <1>3, DupCountAdds
<1>5. PICK mid \in Counts : mid = DupCount(dependents, e)
  BY <1>4
<1>6. \A b \in Obj, d \in Device :
        mid[b][d] = dependents[b][d] + (IF b = o /\ d = "pipe_device_out" THEN 1 ELSE 0)
  BY <1>4, <1>5 DEF AddsOne, Names, Fresh
<1>7. dependents' = [dependents EXCEPT ![o] =
                       [d \in Device |-> IF d \in PipeDevice THEN 1 ELSE 0]]
  BY DEF NewPipe
<1>8. dependents' \in Counts
  BY <1>1, <1>7 DEF Counts
<1>9. \A b \in Obj, d \in Device :
        dependents'[b][d] = IF b = o THEN (IF d \in PipeDevice THEN 1 ELSE 0)
                                     ELSE dependents[b][d]
  BY <1>1, <1>7 DEF Counts
<1>10. \A b \in Obj, d \in Device : dependents[b][d] \in Nat
  BY <1>1 DEF Counts
<1>11. AddsOne(mid, dependents', Fresh(0, "pipe_device_in", o))
  BY <1>1, <1>6, <1>9, <1>10 DEF AddsOne, Names, Fresh, PipeDevice
<1> QED
  BY <1>4, <1>5, <1>8, <1>11

LEMMA PipeDevices ==
  "pipe_device_in" \in Device /\ "pipe_device_out" \in Device
BY DEF Device, PipeDevice

LEMMA PipeEndCounts ==
  ASSUME CountInv, NEW p \in running, kpipe(p)
  PROVE  CountInv'
<1> USE FileTableAssumption
<1>1. p \in Process
  BY DEF CountInv, TypeOK
<1> DEFINE list == file_descriptors[p]
<1>2. PICK o \in Obj \ objects :
        LET fd1 == add_descriptor(list, "pipe_device_out", o)
        IN /\ MayAdd(list)
           /\ MayAdd(fd1)
           /\ SetList(p, add_descriptor(fd1, "pipe_device_in", o))
           /\ NewPipe(o)
           /\ sameProcesses
  BY DEF kpipe
<1> DEFINE fd1 == add_descriptor(list, "pipe_device_out", o)
           mid == [q \in Process |-> IF q = p THEN fd1 ELSE file_descriptors[q]]
<1>3. /\ MayAdd(list) /\ MayAdd(fd1)
      /\ SetList(p, add_descriptor(fd1, "pipe_device_in", o))
      /\ NewPipe(o) /\ sameProcesses
  BY <1>2
<1>4. dependents' \in Counts
  BY <1>3, NewPipeAdds
<1>5. PICK counts \in Counts :
        /\ AddsOne(dependents, counts, Fresh(0, "pipe_device_out", o))
        /\ AddsOne(counts, dependents', Fresh(0, "pipe_device_in", o))
  BY <1>3, NewPipeAdds
<1>6. /\ file_descriptors \in [Process -> Seq(Descriptor)]
      /\ dependents \in Counts
      /\ Covered(file_descriptors, dependents, unlisted)
      /\ FreeIsZero(dependents, objects)
  BY <1>1, InvFacts
<1>7. list \in Seq(Descriptor) /\ fd1 \in Seq(Descriptor)
  BY <1>1, <1>6, AddGrows, PipeDevices
<1>8. add_descriptor(fd1, "pipe_device_in", o) \in Seq(Descriptor)
  <2> HIDE DEF fd1
  <2> QED
    BY <1>7, AddGrows, PipeDevices
<1>9. Sets(file_descriptors, mid, p, fd1)
  <2> HIDE DEF fd1
  <2> QED
    BY <1>1, <1>6, <1>7 DEF Sets
<1>10. Sets(file_descriptors, file_descriptors', p,
            add_descriptor(fd1, "pipe_device_in", o))
  <2> HIDE DEF fd1
  <2> QED
    BY <1>1, <1>3, <1>6, <1>8, SetListSets
<1>11. mid \in [Process -> Seq(Descriptor)] /\ mid[p] = fd1
  BY <1>9 DEF Sets
<1>12. Covered(mid, counts, unlisted) /\ FreeIsZero(counts, objects \cup {o})
  <2> HIDE DEF mid
  <2> QED
    BY <1>1, <1>3, <1>5, <1>6, <1>9, PipeDevices, AddCovered
<1>13. Sets(mid, file_descriptors', p, add_descriptor(mid[p], "pipe_device_in", o))
  <2> HIDE DEF fd1, mid
  <2> QED
    BY <1>9, <1>10, <1>11 DEF Sets
<1> HIDE DEF fd1, mid, list
<1>14. MayAdd(mid[p])
  BY <1>3, <1>11
<1>15. /\ Len(file_descriptors'[p]) <= MaxOpen
       /\ Covered(file_descriptors', dependents', unlisted)
       /\ FreeIsZero(dependents', (objects \cup {o}) \cup {o})
  BY <1>1, <1>4, <1>5, <1>11, <1>12, <1>13, <1>14, PipeDevices, AddCovered
<1>16. /\ unlisted' = unlisted /\ running' \subseteq running /\ UNCHANGED unborn
       /\ objects' = (objects \cup {o}) \cup {o}
       /\ unlisted' \subseteq objects' /\ objects' \subseteq Obj
  BY <1>1, <1>3, InvFacts DEF sameProcesses, NewPipe
<1> QED
  BY <1>4, <1>10, <1>15, <1>16, InvAfter DEF Sets

LEMMA PipeFaultCounts ==
  ASSUME CountInv, NEW p \in running, kpipe_fault(p)
  PROVE  CountInv'
<1> USE FileTableAssumption
<1>1. p \in Process
  BY DEF CountInv, TypeOK
<1>2. PICK o \in Obj \ objects :
        /\ MayAdd(file_descriptors[p])
        /\ SetList(p, add_descriptor(file_descriptors[p], "pipe_device_out", o))
        /\ NewPipe(o)
        /\ unlisted' = unlisted \cup {o}
        /\ running' = running \ {p}
        /\ UNCHANGED unborn
  BY DEF kpipe_fault
<1>4. dependents' \in Counts
  BY <1>2, NewPipeAdds
<1>5. PICK counts \in Counts :
        /\ AddsOne(dependents, counts, Fresh(0, "pipe_device_out", o))
        /\ AddsOne(counts, dependents', Fresh(0, "pipe_device_in", o))
  BY <1>2, NewPipeAdds
<1>6. /\ file_descriptors \in [Process -> Seq(Descriptor)]
      /\ dependents \in Counts
      /\ Covered(file_descriptors, dependents, unlisted)
      /\ FreeIsZero(dependents, objects)
      /\ unlisted \subseteq objects /\ objects \subseteq Obj
  BY <1>1, InvFacts
<1>7. Sets(file_descriptors, file_descriptors', p,
           add_descriptor(file_descriptors[p], "pipe_device_out", o))
  <2>1. add_descriptor(file_descriptors[p], "pipe_device_out", o) \in Seq(Descriptor)
    BY <1>1, PipeDevices, InvFacts, AddGrows
  <2> QED
    BY <1>1, <1>2, <2>1, InvFacts, SetListSets
<1>8. /\ Len(file_descriptors'[p]) <= MaxOpen
      /\ Covered(file_descriptors', counts, unlisted)
      /\ FreeIsZero(counts, objects \cup {o})
  <2>1. MayAdd(file_descriptors[p])
    BY <1>2
  <2> QED
    BY <1>1, <1>5, <1>6, <1>7, <2>1, PipeDevices, AddCovered
<1>9. Covered(file_descriptors', dependents', unlisted \cup {o})
  BY <1>4, <1>5, <1>6, <1>8, CoveredUnlisted
<1>10. FreeIsZero(dependents', (objects \cup {o}) \cup {o})
  <2>1. FreeIsZero(dependents',
                   (objects \cup {o}) \cup {Fresh(0, "pipe_device_in", o).data})
    BY <1>4, <1>5, <1>8, FreeAfterAdd
  <2> QED
    BY <2>1 DEF Fresh
<1>11. /\ objects' = (objects \cup {o}) \cup {o}
       /\ unlisted' \subseteq objects' /\ objects' \subseteq Obj
       /\ running' \subseteq running
  BY <1>2, <1>6 DEF NewPipe
<1> QED
  BY <1>2, <1>4, <1>7, <1>8, <1>9, <1>10, <1>11, InvAfter DEF Sets

LEMMA CloseCounts ==
  ASSUME CountInv, NEW p \in running, NEW fd, kfclose(p, fd)
  PROVE  CountInv'
<1> USE FileTableAssumption
<1>1. p \in Process
  BY DEF CountInv, TypeOK
<1> DEFINE list == file_descriptors[p]
<1>2. PICK k \in 1..Len(list) :
        /\ CloseCount(dependents, objects, list[k])
        /\ SetList(p, Removed(list, k))
        /\ sameProcesses
  BY DEF kfclose
<1>3. /\ file_descriptors \in [Process -> Seq(Descriptor)]
      /\ dependents \in Counts
      /\ Covered(file_descriptors, dependents, unlisted)
      /\ FreeIsZero(dependents, objects)
      /\ unlisted \subseteq objects /\ objects \subseteq Obj
      /\ list \in Seq(Descriptor) /\ Len(list) \in Nat /\ Len(list) <= MaxOpen
  BY <1>1, InvFacts
<1>4. PICK n \in Nat : n + 1 = Len(list)
  <2>1. Len(list) - 1 \in Nat /\ (Len(list) - 1) + 1 = Len(list)
    BY <1>3
  <2> QED
    BY <2>1
<1>5. list[k] \in Descriptor /\ list[k].data \in objects
  BY <1>1, NamedIsUsed
<1>6. /\ Removed(list, k) \in Seq(Descriptor)
      /\ ListGrows(Removed(list, k), list, n, k, list[k])
  <2> HIDE DEF list
  <2> QED
    BY <1>3, <1>4, RemovedGrows
<1>7. Sets(file_descriptors, file_descriptors', p, Removed(list, k))
  BY <1>1, <1>2, <1>3, <1>6, SetListSets
<1>8. OneMore(file_descriptors', file_descriptors, p, n, k, list[k])
  BY <1>1, <1>6, <1>7, GrowsIsOneMore DEF Sets
<1>9. /\ dependents' \in [Obj -> [Device -> Int]]
      /\ AddsOne(dependents', dependents, list[k])
  BY <1>2, <1>3, <1>5, CloseCountLess
<1>10. dependents' \in Counts /\ Covered(file_descriptors', dependents', unlisted)
  <2>1. k \in 1..(n + 1) /\ n + 1 <= MaxOpen
    BY <1>3, <1>4
  <2> HIDE DEF list
  <2> QED
    BY <1>1, <1>3, <1>8, <1>9, <2>1, CoveredRemove
<1>11. /\ FreeIsZero(dependents', objects')
       /\ unlisted \subseteq objects' /\ objects' \subseteq Obj
  BY <1>2, <1>3, <1>5, <1>10, FreeAfterClose
<1>12. Len(file_descriptors'[p]) <= MaxOpen
  <2>1. Len(file_descriptors'[p]) = n
    BY <1>8 DEF OneMore
  <2> QED
    BY <1>3, <1>4, <2>1
<1>13. unlisted' = unlisted /\ running' \subseteq running /\ UNCHANGED unborn
  BY <1>2 DEF sameProcesses
<1> QED
  BY <1>7, <1>10, <1>11, <1>12, <1>13, InvAfter DEF Sets

LEMMA Dup2Counts ==
  ASSUME CountInv, NEW p \in running, NEW oldfd \in FdArg, NEW newfd \in FdArg,
         kdup2(p, oldfd, newfd)
  PROVE  CountInv'
<1> USE FileTableAssumption
<1>1. p \in Process
  BY DEF CountInv, TypeOK
<1> DEFINE list == file_descriptors[p]
<1>2. PICK k \in 1..Len(list), j \in 1..Len(list) :
        /\ Dup2Place(p, Fresh(newfd, list[k].device, list[k].data),
                     DupCount(dependents, list[k]), j)
        /\ sameProcesses
  BY DEF kdup2
<1> DEFINE e == Fresh(newfd, list[k].device, list[k].data)
           deps == DupCount(dependents, list[k])
<1>3. /\ file_descriptors \in [Process -> Seq(Descriptor)]
      /\ dependents \in Counts
      /\ Covered(file_descriptors, dependents, unlisted)
      /\ FreeIsZero(dependents, objects)
      /\ unlisted \subseteq objects /\ objects \subseteq Obj
      /\ list \in Seq(Descriptor) /\ Len(list) \in Nat /\ Len(list) <= MaxOpen
  BY <1>1, InvFacts
<1>4. PICK n \in Nat : n + 1 = Len(list)
  <2>1. Len(list) - 1 \in Nat /\ (Len(list) - 1) + 1 = Len(list)
    BY <1>3
  <2> QED
    BY <2>1
<1>5. /\ list[k] \in Descriptor /\ list[k].data \in objects
      /\ list[j] \in Descriptor /\ list[j].data \in objects
  BY <1>1, NamedIsUsed
<1>6. e \in Descriptor /\ e.device = list[k].device /\ e.data = list[k].data
  BY <1>5 DEF Fresh, Descriptor, Int32
<1>7. deps \in Counts /\ AddsOne(dependents, deps, list[k])
  <2> HIDE DEF list
  <2> QED
    BY <1>3, <1>5, DupCountAdds
<1>8. AddsOne(dependents, deps, e)
  BY <1>6, <1>7 DEF AddsOne, Names
<1>9. FreeIsZero(deps, objects)
  <2>1. FreeIsZero(deps, objects \cup {list[k].data})
    <3> HIDE DEF list, deps
    <3> QED
      BY <1>3, <1>7, FreeAfterAdd
  <2>2. objects \cup {list[k].data} = objects
    BY <1>5
  <2> HIDE DEF deps
  <2> QED
    BY <2>1, <2>2
<1>10. unlisted' = unlisted /\ running' \subseteq running /\ UNCHANGED unborn
  BY <1>2 DEF sameProcesses
<1>11. CASE list[j].descriptor_id = newfd
  <2>1. /\ CloseCount(deps, objects, list[j])
        /\ SetList(p, [list EXCEPT ![j] = e])
    BY <1>2, <1>11 DEF Dup2Place, Fresh
  <2> HIDE DEF e, deps, list
  <2> DEFINE without == Removed(list, j)
             with == [list EXCEPT ![j] = e]
             mid == [q \in Process |-> IF q = p THEN without ELSE file_descriptors[q]]
             less == LessOne(dependents, list[j])
  <2>2. j \in 1..(n + 1) /\ n + 1 <= MaxOpen
    BY <1>3, <1>4
  <2>3. /\ without \in Seq(Descriptor)
        /\ ListGrows(without, list, n, j, list[j])
        /\ with \in Seq(Descriptor)
        /\ ListGrows(without, with, n, j, e)
    BY <1>3, <1>4, <1>6, <2>2, RemovedGrows, ReplacedGrows
  <2>4. Sets(file_descriptors, file_descriptors', p, with)
    <3> HIDE DEF with
    <3> QED
      BY <1>1, <1>3, <2>1, <2>3, SetListSets DEF with
  <2> HIDE DEF without, with
  <2>5. mid[p] = without /\ \A q \in Process \ {p} : mid[q] = file_descriptors[q]
    BY <1>1
  <2> HIDE DEF mid
  <2>6. OneMore(mid, file_descriptors, p, n, j, list[j])
    BY <1>1, <2>3, <2>5, GrowsIsOneMore DEF list
  <2>7. OneMore(mid, file_descriptors', p, n, j, e)
    <3>1. /\ file_descriptors'[p] = with
          /\ \A q \in Process \ {p} : file_descriptors'[q] = mid[q]
      BY <2>4, <2>5 DEF Sets
    <3> QED
      BY <1>1, <2>3, <2>5, <3>1, GrowsIsOneMore
  <2>8. less \in [Obj -> [Device -> Int]] /\ AddsOne(less, dependents, list[j])
    BY <1>3, LessOneAdds
  <2> HIDE DEF less
  <2>9. less \in Counts /\ Covered(mid, less, unlisted)
    BY <1>1, <1>3, <2>2, <2>6, <2>8, CoveredRemove
  <2>10. /\ dependents' \in [Obj -> [Device -> Int]]
         /\ AddsOne(dependents', deps, list[j])
    BY <1>5, <1>7, <2>1, CloseCountLess
  <2>11. ASSUME NEW o \in Obj, NEW d \in Device
         PROVE  /\ dependents'[o][d] = less[o][d] + (IF Names(e, d, o) THEN 1 ELSE 0)
                /\ dependents'[o][d] \in Nat
    <3> DEFINE u == IF Names(e, d, o) THEN 1 ELSE 0
               v == IF Names(list[j], d, o) THEN 1 ELSE 0
    <3>1. /\ deps[o][d] = dependents[o][d] + u
          /\ deps[o][d] = dependents'[o][d] + v
          /\ dependents[o][d] = less[o][d] + v
      BY <1>8, <2>8, <2>10 DEF AddsOne
    <3>u. u \in Nat /\ v \in Nat
      OBVIOUS
    <3> HIDE DEF u, v
    <3>2. /\ deps[o][d] \in Nat /\ dependents[o][d] \in Nat
          /\ less[o][d] \in Nat /\ dependents'[o][d] \in Int
      BY <1>3, <1>7, <2>9, <2>10 DEF Counts
    <3>3. PICK c \in Int : c = dependents'[o][d]
      BY <3>2
    <3>4. PICK l \in Nat : l = less[o][d]
      BY <3>2
    <3>5. c + v = (l + v) + u
      BY <3>1, <3>3, <3>4, Zenon
    <3>6. c = l + u /\ c \in Nat
      BY <3>5, <3>u
    <3> QED
      BY <3>3, <3>4, <3>6 DEF u
  <2>12. dependents' \in Counts /\ AddsOne(less, dependents', e)
    BY <2>10, <2>11 DEF Counts, AddsOne
  <2>13. Covered(file_descriptors', dependents', unlisted)
    BY <1>1, <2>2, <2>7, <2>9, <2>12, CoveredAdd
  <2>14. /\ FreeIsZero(dependents', objects')
         /\ unlisted \subseteq objects' /\ objects' \subseteq Obj
    BY <1>3, <1>5, <1>7, <1>9, <2>1, <2>12, <2>13, FreeAfterClose
  <2>15. Len(file_descriptors'[p]) <= MaxOpen
    BY <2>2, <2>7 DEF OneMore
  <2> QED
    BY <1>10, <2>4, <2>12, <2>13, <2>14, <2>15, InvAfter DEF Sets
<1>12. CASE list[j].descriptor_id # newfd
  <2> DEFINE at == IF list[j].descriptor_id > newfd THEN j ELSE j + 1
  <2>1. /\ Len(list) < MaxOpen
        /\ dependents' = deps
        /\ UNCHANGED objects
        /\ SetList(p, InsertedAt(list, at, e))
    BY <1>2, <1>12 DEF Dup2Place, Fresh
  <2> HIDE DEF e, deps, list
  <2>2. PICK m \in Nat : m = Len(list)
    BY <1>3
  <2>3. at \in 1..(m + 1) /\ m + 1 <= MaxOpen
    BY <2>1, <2>2
  <2> HIDE DEF at
  <2>4. /\ InsertedAt(list, at, e) \in Seq(Descriptor)
        /\ ListGrows(list, InsertedAt(list, at, e), m, at, e)
    BY <1>3, <1>6, <2>2, <2>3, InsertedGrows
  <2>5. Sets(file_descriptors, file_descriptors', p, InsertedAt(list, at, e))
    BY <1>1, <1>3, <2>1, <2>4, SetListSets
  <2>6. OneMore(file_descriptors, file_descriptors', p, m, at, e)
    BY <1>1, <2>4, <2>5, GrowsIsOneMore DEF list, Sets
  <2>7. Covered(file_descriptors', dependents', unlisted)
    BY <1>1, <1>3, <1>7, <1>8, <2>1, <2>3, <2>6, CoveredAdd
  <2>8. Len(file_descriptors'[p]) <= MaxOpen
    BY <2>3, <2>6 DEF OneMore
  <2> QED
    BY <1>3, <1>7, <1>9, <1>10, <2>1, <2>5, <2>7, <2>8, InvAfter DEF Sets
<1> QED
  BY <1>11, <1>12

LEMMA ForkStepCounts ==
  ASSUME CountInv, NEW p \in running, NEW c \in Process, kfork(p, c)
  PROVE  CountInv'
<1> USE FileTableAssumption
<1>1. p \in Process /\ c \in unborn /\ p # c
  BY DEF CountInv, TypeOK, kfork
<1> DEFINE list == file_descriptors[p]
<1>2. PICK new \in [1..Len(list) -> Obj] :
        /\ \A k \in 1..Len(list) :
             IF list[k].device = "ramdisk_device"
             THEN /\ new[k] \notin objects
                  /\ \A j \in 1..(k - 1) :
                       list[j].device = "ramdisk_device" => new[j] # new[k]
             ELSE new[k] = list[k].data
        /\ CloneCount(list, new)
        /\ SetList(c, [k \in 1..Len(list) |-> [list[k] EXCEPT !.data = new[k]]])
  BY DEF kfork
<1> DEFINE clone == [k \in 1..Len(list) |-> [list[k] EXCEPT !.data = new[k]]]
<1>3. /\ file_descriptors \in [Process -> Seq(Descriptor)]
      /\ dependents \in Counts
      /\ Covered(file_descriptors, dependents, unlisted)
      /\ FreeIsZero(dependents, objects)
      /\ unlisted \subseteq objects /\ objects \subseteq Obj
      /\ list \in Seq(Descriptor) /\ Len(list) \in Nat /\ Len(list) <= MaxOpen
  BY <1>1, InvFacts
<1>4. Cloned(list, new, objects)
  <2>1. ASSUME NEW j \in Copies(list), NEW k \in Copies(list), new[j] = new[k]
        PROVE  j = k
    <3>1. j \in 1..Len(list) /\ k \in 1..Len(list)
          /\ list[j].device = "ramdisk_device" /\ list[k].device = "ramdisk_device"
      BY DEF Copies
    <3>2. CASE j < k
      <4>1. j \in 1..(k - 1)
        BY <3>1, <3>2
      <4> QED
        BY <1>2, <2>1, <3>1, <4>1
    <3>3. CASE k < j
      <4>1. k \in 1..(j - 1)
        BY <3>1, <3>3
      <4> QED
        BY <1>2, <2>1, <3>1, <4>1
    <3> QED
      BY <3>1, <3>2, <3>3
  <2>2. \A k \in 1..Len(list) : k \notin Copies(list) => new[k] = list[k].data
    BY <1>2 DEF Copies
  <2>3. \A k \in Copies(list) : new[k] \notin objects
    BY <1>2 DEF Copies
  <2> QED
    BY <2>1, <2>2, <2>3 DEF Cloned
<1>5. /\ objects' = objects \cup {new[k] : k \in Copies(list)}
      /\ dependents' \in [Obj -> [Device -> Int]]
      /\ ForkCounts(dependents, list, new, dependents')
  <2> HIDE DEF list
  <2>1. dependents' =
          [o \in Obj |-> [d \in Device |->
             IF d \in PipeDevice
             THEN dependents[o][d] + CountIn(list, d, o)
             ELSE IF \E k \in Copies(list) : new[k] = o
                  THEN dependents[list[CHOOSE k \in Copies(list) : new[k] = o].data][d]
                  ELSE dependents[o][d]]]
        /\ objects' = objects \cup {new[k] : k \in Copies(list)}
    BY <1>2 DEF CloneCount, Copies
  <2>2. ForkCounts(dependents, list, new, dependents')
    BY <2>1 DEF ForkCounts
  <2>3. ASSUME NEW o \in Obj, NEW d \in Device
        PROVE  dependents'[o][d] \in Int
    <3>1. CountIn(list, d, o) \in Nat
      <4> DEFINE K == {k \in 1..Len(list) : list[k].device = d /\ list[k].data = o}
      <4>1. IsFiniteSet(1..Len(list))
        BY <1>3, FS_Interval
      <4>2. K \in SUBSET (1..Len(list))
        OBVIOUS
      <4>3. CountIn(list, d, o) = Cardinality(K)
        BY DEF CountIn
      <4> HIDE DEF K
      <4>4. IsFiniteSet(K)
        BY <4>1, <4>2, FS_Subset
      <4> QED
        BY <4>3, <4>4, FS_CardinalityType
    <3>2. \A b \in Obj : dependents[b][d] \in Nat
      BY <1>3 DEF Counts
    <3>3. CASE d \in PipeDevice
      <4>1. dependents'[o][d] = dependents[o][d] + CountIn(list, d, o)
        BY <2>2, <3>3 DEF ForkCounts
      <4>2. dependents[o][d] \in Nat
        BY <3>2
      <4> QED
        BY <3>1, <4>1, <4>2
    <3>4. CASE d \notin PipeDevice /\ \E k \in Copies(list) : new[k] = o
      <4> DEFINE j == CHOOSE k \in Copies(list) : new[k] = o
      <4>1. j \in Copies(list)
        BY <3>4
      <4>2. dependents'[o][d] = dependents[list[j].data][d]
        BY <2>2, <3>4 DEF ForkCounts
      <4> HIDE DEF j
      <4>3. list[j].data \in Obj
        <5>1. j \in 1..Len(list)
          BY <4>1 DEF Copies
        <5>2. list[j] \in Descriptor
          BY <1>3, <5>1
        <5> QED
          BY <5>2 DEF Descriptor
      <4> QED
        BY <3>2, <4>2, <4>3
    <3>5. CASE d \notin PipeDevice /\ ~(\E k \in Copies(list) : new[k] = o)
      BY <2>2, <3>2, <3>5 DEF ForkCounts
    <3> QED
      BY <3>3, <3>4, <3>5
  <2>4. dependents' \in [Obj -> [Device -> Int]]
    BY <2>1, <2>3
  <2> QED
    BY <2>1, <2>2, <2>4
<1>6. clone \in Seq(Descriptor) /\ Len(clone) = Len(list)
  <2> HIDE DEF list
  <2>1. ASSUME NEW k \in 1..Len(list)
        PROVE  [list[k] EXCEPT !.data = new[k]] \in Descriptor
    <3>1. list[k] \in Descriptor /\ new[k] \in Obj
      BY <1>3
    <3> QED
      BY <3>1 DEF Descriptor
  <2> QED
    BY <1>3, <2>1
<1>7. Sets(file_descriptors, file_descriptors', c, clone)
  <2>1. SetList(c, clone)
    BY <1>2
  <2> HIDE DEF clone
  <2> QED
    BY <1>3, <1>6, <2>1, SetListSets
<1>8. ForkLists(file_descriptors, file_descriptors', p, c, new)
  <2>1. Len(file_descriptors[c]) = 0
    BY <1>1 DEF CountInv, ListsFit
  <2>2. /\ file_descriptors'[c] = clone
        /\ \A q \in Process \ {c} : file_descriptors'[q] = file_descriptors[q]
    BY <1>7 DEF Sets
  <2>3. \A k \in 1..Len(list) : clone[k] = [list[k] EXCEPT !.data = new[k]]
    OBVIOUS
  <2> HIDE DEF clone
  <2> QED
    BY <1>6, <2>1, <2>2, <2>3 DEF ForkLists
<1>9. /\ dependents' \in Counts
      /\ Covered(file_descriptors', dependents', unlisted)
      /\ FreeIsZero(dependents', objects')
  <2>1. /\ dependents' \in Counts
        /\ Covered(file_descriptors', dependents', unlisted)
        /\ FreeIsZero(dependents', objects \cup Blocks(file_descriptors[p], new))
    <3>1. /\ Forks(file_descriptors, file_descriptors', p, c, new, objects,
                   dependents, dependents')
          /\ Len(file_descriptors[p]) <= MaxOpen
      BY <1>3, <1>4, <1>5, <1>8 DEF Forks
    <3>2. /\ file_descriptors \in [Process -> Seq(Descriptor)]
          /\ dependents \in Counts
          /\ Covered(file_descriptors, dependents, unlisted)
          /\ FreeIsZero(dependents, objects)
      BY <1>3
    <3> HIDE DEF list, clone
    <3> QED
      BY <1>1, <3>1, <3>2, CoveredFork
  <2> QED
    BY <1>5, <2>1 DEF Blocks
<1>10. objects' \subseteq Obj /\ unlisted \subseteq objects'
  BY <1>3, <1>5 DEF Copies
<1>11. /\ running' = running \cup {c} /\ unborn' = unborn \ {c}
       /\ unlisted' = unlisted
  BY DEF kfork
<1>12. TypeOK'
  BY <1>7, <1>9, <1>10, <1>11 DEF CountInv, TypeOK, Counts, Sets
<1>13. ListsFit'
  <2>1. Len(file_descriptors'[c]) <= MaxOpen
    BY <1>3, <1>6, <1>7 DEF Sets
  <2>2. \A q \in Process \ {c} : file_descriptors'[q] = file_descriptors[q]
    BY <1>7 DEF Sets
  <2>3. \A q \in unborn : q \in Process
    BY DEF CountInv, TypeOK
  <2> QED
    BY <1>11, <2>1, <2>2, <2>3 DEF CountInv, ListsFit
<1> QED
  BY <1>9, <1>11, <1>12, <1>13 DEF CountInv

LEMMA ExitCounts ==
  ASSUME CountInv, NEW p \in running, process_exit(p)
  PROVE  CountInv'
<1>1. /\ running' = running \ {p}
      /\ UNCHANGED <<unborn, file_descriptors, objects, dependents, unlisted>>
  BY DEF process_exit
<1>2. TypeOK'
  BY <1>1 DEF CountInv, TypeOK
<1> QED
  BY <1>1, <1>2 DEF CountInv, ListsFit

LEMMA CountStep ==
  ASSUME CountInv, [Next]_vars
  PROVE  CountInv'
<1>1. CASE UNCHANGED vars
  <2>1. TypeOK'
    BY <1>1 DEF vars, CountInv, TypeOK
  <2> QED
    BY <1>1, <2>1 DEF vars, CountInv, ListsFit
<1>2. CASE Next
  BY <1>2, OpenCounts, PipeEndCounts, PipeFaultCounts, CloseCounts, Dup2Counts,
     ForkStepCounts, ExitCounts DEF Next
<1> QED
  BY <1>1, <1>2

LEMMA CountStart ==
  ASSUME Init
  PROVE  CountInv
<1> USE FileTableAssumption DEF Init
<1>1. TypeOK
  BY DEF TypeOK
<1>2. \A p \in Process : Len(file_descriptors[p]) = 0
  OBVIOUS
<1>3. ListsFit
  BY <1>2 DEF ListsFit
<1>4. \A o \in Obj, d \in Device :
        RefsIn(file_descriptors, d, o) = {} /\ Extra(unlisted, d, o) = 0
  <2>1. ASSUME NEW o, NEW d, NEW r \in RefsIn(file_descriptors, d, o)
        PROVE  FALSE
    <3>1. r[1] \in Process /\ r[2] \in 1..MaxOpen
          /\ r[2] <= Len(file_descriptors[r[1]])
      BY DEF RefsIn
    <3> QED
      BY <1>2, <3>1
  <2>2. \A o, d : Extra(unlisted, d, o) = 0
    BY DEF Extra
  <2> QED
    BY <2>1, <2>2
<1>5. \A o \in Obj, d \in Device : dependents[o][d] = 0
  OBVIOUS
<1>6. Covered(file_descriptors, dependents, unlisted)
  <2>1. \A o \in Obj, d \in Device :
          /\ IsFiniteSet(RefsIn(file_descriptors, d, o))
          /\ Cardinality(RefsIn(file_descriptors, d, o)) = 0
    BY <1>4, FS_EmptySet
  <2> QED
    BY <1>4, <1>5, <2>1 DEF Covered
<1>7. FreeIsZero(dependents, objects)
  BY <1>5 DEF FreeIsZero
<1> QED
  BY <1>1, <1>3, <1>6, <1>7 DEF CountInv

LEMMA CountsAreSound ==
  ASSUME CountInv
  PROVE  CountsSound
<1>1. PipeCounts
  <2> SUFFICES ASSUME NEW o \in Obj, NEW d \in PipeDevice
               PROVE  dependents[o][d] = Cardinality(References(d, o))
                        + (IF d = "pipe_device_in" /\ o \in unlisted THEN 1 ELSE 0)
    BY DEF PipeCounts
  <2>1. d \in Device
    BY DEF Device
  <2>2. dependents[o][d] = Cardinality(RefsIn(file_descriptors, d, o))
                             + Extra(unlisted, d, o)
    BY <2>1 DEF CountInv, Covered
  <2> QED
    BY <2>2, ReferencesAreRefs DEF Extra
<1>2. NoDangling
  BY NamedIsUsed DEF NoDangling
<1> QED
  BY <1>1, <1>2 DEF CountsSound

-----------------------------------------------------------------------------
(***************************************************************************)
(* A list in order as a table.                                             *)
(***************************************************************************)
Ids(list) == {list[k].descriptor_id : k \in DOMAIN list}

File(e) == [device |-> e.device, data |-> e.data]

Entry(list, id) ==
  File(list[CHOOSE k \in DOMAIN list : list[k].descriptor_id = id])

LEMMA TableOf ==
  ASSUME NEW list
  PROVE  AsTable(list) = [id \in Ids(list) |-> Entry(list, id)]
BY DEF AsTable, Ids, Entry, File

\* A descriptor's number leads to it.
LEMMA EntryAt ==
  ASSUME NEW list \in Seq(Descriptor), InOrder(list), NEW k \in 1..Len(list)
  PROVE  /\ list[k].descriptor_id \in Ids(list)
         /\ Entry(list, list[k].descriptor_id) = File(list[k])
<1> DEFINE id == list[k].descriptor_id
           j == CHOOSE i \in DOMAIN list : list[i].descriptor_id = id
<1>1. DOMAIN list = 1..Len(list) /\ Len(list) \in Nat
  OBVIOUS
<1>2. j \in 1..Len(list) /\ list[j].descriptor_id = id
  BY <1>1
<1>3. Entry(list, id) = File(list[j])
  BY DEF Entry
<1>4. id \in Ids(list)
  BY <1>1 DEF Ids
<1>5. id \in Int
  BY DescriptorType
<1> HIDE DEF j
<1>6. j = k
  BY <1>2, <1>5 DEF InOrder
<1> QED
  BY <1>3, <1>4, <1>6

LEMMA IdIsAt ==
  ASSUME NEW list \in Seq(Descriptor), NEW id \in Ids(list)
  PROVE  \E k \in 1..Len(list) : list[k].descriptor_id = id
BY DEF Ids

\* The table of a list that gets a descriptor.
Binds(list, new, e) ==
  /\ e.descriptor_id \notin Ids(list)
  /\ Ids(new) = Ids(list) \cup {e.descriptor_id}
  /\ Entry(new, e.descriptor_id) = File(e)
  /\ \A id \in Ids(list) : Entry(new, id) = Entry(list, id)

LEMMA GrowsOrder ==
  ASSUME NEW list \in Seq(Descriptor), NEW new \in Seq(Descriptor), NEW n \in Nat,
         NEW k \in 1..(n + 1), NEW e, ListGrows(list, new, n, k, e), InOrder(new)
  PROVE  InOrder(list)
<1>1. SUFFICES ASSUME NEW i \in 1..n, NEW j \in 1..n, i < j
               PROVE  list[i].descriptor_id < list[j].descriptor_id
  BY DEF InOrder, ListGrows
<1> DEFINE at(m) == IF m < k THEN m ELSE m + 1
<1>2. \A m \in 1..n : at(m) \in 1..(n + 1) /\ new[at(m)] = list[m]
  <2> SUFFICES ASSUME NEW m \in 1..n
               PROVE  at(m) \in 1..(n + 1) /\ new[at(m)] = list[m]
    OBVIOUS
  <2>1. at(m) \in 1..(n + 1)
    OBVIOUS
  <2>2. new[at(m)] = ElementAfter(list, k, e, at(m))
    BY <2>1 DEF ListGrows
  <2> QED
    BY <2>1, <2>2 DEF ElementAfter
<1>3. at(i) < at(j)
  BY <1>1
<1>4. at(i) \in 1..Len(new) /\ at(j) \in 1..Len(new)
  BY <1>2 DEF ListGrows
<1> HIDE DEF at
<1>5. new[at(i)].descriptor_id < new[at(j)].descriptor_id
  BY <1>3, <1>4 DEF InOrder
<1> QED
  BY <1>2, <1>5

LEMMA GrowsBinds ==
  ASSUME NEW list \in Seq(Descriptor), NEW new \in Seq(Descriptor), NEW n \in Nat,
         NEW k \in 1..(n + 1), NEW e, ListGrows(list, new, n, k, e), InOrder(new)
  PROVE  Binds(list, new, e)
<1> DEFINE at(m) == IF m < k THEN m ELSE m + 1
<1>1. Len(list) = n /\ Len(new) = n + 1 /\ InOrder(list)
  BY GrowsOrder DEF ListGrows
<1>2. \A m \in 1..n : at(m) \in 1..(n + 1) /\ at(m) # k /\ new[at(m)] = list[m]
  <2> SUFFICES ASSUME NEW m \in 1..n
               PROVE  at(m) \in 1..(n + 1) /\ at(m) # k /\ new[at(m)] = list[m]
    OBVIOUS
  <2>1. at(m) \in 1..(n + 1) /\ at(m) # k
    OBVIOUS
  <2>2. new[at(m)] = ElementAfter(list, k, e, at(m))
    BY <2>1 DEF ListGrows
  <2> QED
    BY <2>1, <2>2 DEF ElementAfter
<1>3. new[k] = e
  BY DEF ListGrows, ElementAfter
<1>4. \A i \in 1..(n + 1) : i = k \/ \E m \in 1..n : i = at(m)
  <2> SUFFICES ASSUME NEW i \in 1..(n + 1), i # k
               PROVE  \E m \in 1..n : i = at(m)
    OBVIOUS
  <2>1. CASE i < k
    <3>1. i \in 1..n /\ i = at(i)
      BY <2>1
    <3> QED
      BY <3>1
  <2>2. CASE ~(i < k)
    <3>1. i - 1 \in 1..n /\ i = at(i - 1)
      BY <2>2
    <3> QED
      BY <3>1
  <2> QED
    BY <2>1, <2>2
<1> HIDE DEF at
<1>5. \A i \in 1..(n + 1) : /\ new[i].descriptor_id \in Ids(new)
                            /\ Entry(new, new[i].descriptor_id) = File(new[i])
  BY <1>1, EntryAt
<1>6. \A m \in 1..n : /\ list[m].descriptor_id \in Ids(list)
                      /\ Entry(list, list[m].descriptor_id) = File(list[m])
  BY <1>1, EntryAt
<1>7. \A i \in 1..(n + 1) : new[i].descriptor_id \in Int
  BY <1>1, DescriptorType
<1>8. \A id \in Ids(list) : \E m \in 1..n : list[m].descriptor_id = id
  BY <1>1, IdIsAt
<1>9. \A id \in Ids(new) : \E i \in 1..(n + 1) : new[i].descriptor_id = id
  BY <1>1, IdIsAt
<1>10. ASSUME NEW id \in Ids(list)
       PROVE  /\ id \in Ids(new) /\ Entry(new, id) = Entry(list, id)
              /\ id # e.descriptor_id
  <2>1. PICK m \in 1..n : list[m].descriptor_id = id
    BY <1>8
  <2>2. PICK i \in 1..(n + 1) : i = at(m) /\ i # k /\ new[i] = list[m]
    BY <1>2
  <2>3. id \in Ids(new) /\ Entry(new, id) = Entry(list, id)
    BY <1>5, <1>6, <2>1, <2>2
  <2>4. id # e.descriptor_id
    <3>1. i < k \/ k < i
      BY <2>2
    <3>2. new[i].descriptor_id # new[k].descriptor_id
      BY <1>1, <1>7, <2>2, <3>1 DEF InOrder
    <3> QED
      BY <1>3, <2>1, <2>2, <3>2
  <2> QED
    BY <2>3, <2>4
<1>11. e.descriptor_id \in Ids(new) /\ Entry(new, e.descriptor_id) = File(e)
  BY <1>3, <1>5
<1>12. ASSUME NEW id \in Ids(new)
       PROVE  id \in Ids(list) \/ id = e.descriptor_id
  <2>1. PICK i \in 1..(n + 1) : new[i].descriptor_id = id
    BY <1>9
  <2>2. i = k \/ \E m \in 1..n : i = at(m)
    BY <1>4
  <2> QED
    BY <1>2, <1>3, <1>6, <2>1, <2>2
<1>13. Ids(new) = Ids(list) \cup {e.descriptor_id}
  BY <1>10, <1>11, <1>12
<1> QED
  BY <1>10, <1>11, <1>13, Zenon DEF Binds

LEMMA BindsTable ==
  ASSUME NEW list, NEW new, NEW e, Binds(list, new, e)
  PROVE  /\ DOMAIN AsTable(list) = Ids(list)
         /\ e.descriptor_id \notin DOMAIN AsTable(list)
         /\ AsTable(new) = Table!Bind(AsTable(list), e.descriptor_id, File(e))
         /\ AsTable(list) = Table!Without(AsTable(new), e.descriptor_id)
<1> DEFINE x == e.descriptor_id
<1>1. /\ AsTable(list) = [id \in Ids(list) |-> Entry(list, id)]
      /\ AsTable(new) = [id \in Ids(new) |-> Entry(new, id)]
  BY TableOf
<1>2. /\ x \notin Ids(list) /\ Ids(new) = Ids(list) \cup {x}
      /\ Entry(new, x) = File(e)
      /\ \A id \in Ids(list) : Entry(new, id) = Entry(list, id)
  BY DEF Binds
<1> HIDE DEF x
<1>3. DOMAIN AsTable(list) = Ids(list)
  BY <1>1
<1>4. AsTable(new) = Table!Bind(AsTable(list), x, File(e))
  BY <1>1, <1>2 DEF Table!Bind
<1>5. AsTable(list) = Table!Without(AsTable(new), x)
  BY <1>1, <1>2 DEF Table!Without
<1> QED
  BY <1>2, <1>3, <1>4, <1>5 DEF x

\* Another descriptor of the same number.
LEMMA RebindsTable ==
  ASSUME NEW mid, NEW list, NEW new, NEW x, NEW e,
         Binds(mid, list, x), Binds(mid, new, e),
         x.descriptor_id = e.descriptor_id
  PROVE  AsTable(new) = Table!Bind(AsTable(list), e.descriptor_id, File(e))
<1> DEFINE y == e.descriptor_id
<1>1. /\ AsTable(list) = [id \in Ids(list) |-> Entry(list, id)]
      /\ AsTable(new) = [id \in Ids(new) |-> Entry(new, id)]
  BY TableOf
<1>2. /\ Ids(new) = Ids(mid) \cup {y} /\ Ids(list) = Ids(mid) \cup {y}
      /\ Entry(new, y) = File(e)
      /\ \A id \in Ids(mid) : Entry(new, id) = Entry(list, id)
  BY DEF Binds
<1> HIDE DEF y
<1> QED
  BY <1>1, <1>2 DEF Table!Bind, y

(***************************************************************************)
(* The number add_descriptor gives.                                        *)
(***************************************************************************)
LEMMA NoGapBefore ==
  ASSUME NEW list \in Seq(Descriptor), NEW m \in 1..Len(list), m < Place(list)
  PROVE  ~GapAfter(list, m)
<1> DEFINE gaps == {k \in 1..(Len(list) - 1) : GapAfter(list, k)}
<1>1. Len(list) \in Nat
  OBVIOUS
<1>2. CASE gaps = {}
  <2>1. Place(list) = Len(list)
    BY <1>2 DEF Place
  <2>2. m \in 1..(Len(list) - 1)
    BY <1>1, <2>1
  <2> QED
    BY <1>2, <2>2
<1>3. CASE gaps # {}
  <2>1. gaps \subseteq Nat
    OBVIOUS
  <2>2. Least(gaps) \in gaps /\ \A j \in gaps : Least(gaps) <= j
    BY <1>3, <2>1, LeastIsLeast
  <2>3. Place(list) = Least(gaps)
    BY <1>3 DEF Place
  <2>4. gaps \subseteq 1..(Len(list) - 1)
    OBVIOUS
  <2> HIDE DEF gaps
  <2>5. PICK l \in 1..(Len(list) - 1) : l = Place(list) /\ \A j \in gaps : l <= j
    BY <2>2, <2>3, <2>4
  <2>6. m < l /\ m \in 1..(Len(list) - 1)
    BY <1>1, <2>5
  <2>7. m \notin gaps
    BY <2>5, <2>6
  <2> QED
    BY <2>6, <2>7 DEF gaps
<1> QED
  BY <1>2, <1>3

\* The descriptor that list gets is of device d and data o and has the next
\* number.
Adds(list, d, o, e) ==
  /\ e \in Descriptor
  /\ e.descriptor_id = NextId(list)
  /\ File(e) = [device |-> d, data |-> o]
  /\ Binds(list, add_descriptor(list, d, o), e)
  /\ ListGrows(list, add_descriptor(list, d, o), Len(list), Place(list) + 1, e)

LEMMA AddBinds ==
  ASSUME NoOverflow, NEW list, ListOK(list), MayAdd(list),
         NEW d \in Device, NEW o \in Obj
  PROVE  /\ Adds(list, d, o, Fresh(NextId(list), d, o))
         /\ NextId(list) \in Int32
<1> DEFINE e == Fresh(NextId(list), d, o)
           k == Place(list) + 1
           new == add_descriptor(list, d, o)
<1>1. list \in Seq(Descriptor) /\ Len(list) \in Nat
  BY DEF ListOK
<1>2. /\ e \in Descriptor /\ e.descriptor_id = NextId(list)
      /\ File(e) = [device |-> d, data |-> o]
  BY <1>1, NextIdType DEF Fresh, Descriptor, File
<1>3. k \in 1..(Len(list) + 1)
  BY <1>1, PlaceBound
<1>4. new = InsertedAt(list, k, e)
  BY DEF add_descriptor
<1>5. new \in Seq(Descriptor) /\ InOrder(new)
  BY AddKeepsOrder DEF ListOK
<1>6. NextId(list) \in Int32
  BY <1>1, NextIdType
<1> HIDE DEF e, k, new
<1>7. ListGrows(list, new, Len(list), k, e)
  BY <1>1, <1>2, <1>3, <1>4, InsertedGrows
<1>8. Binds(list, new, e)
  BY <1>1, <1>3, <1>5, <1>7, GrowsBinds
<1> QED
  BY <1>2, <1>6, <1>7, <1>8 DEF Adds, e, k, new

\* The next one is greater.
LEMMA NextIsGreater ==
  ASSUME NoOverflow, NEW list, ListOK(list), MayAdd(list),
         NEW d \in Device, NEW o \in Obj,
         NEW fd1, fd1 = add_descriptor(list, d, o)
  PROVE  NextId(list) < NextId(fd1)
<1> USE FileTableAssumption
<1> DEFINE k == Place(list)
           r == NextId(list)
           m == Place(fd1)
<1>1. PICK n \in Nat : n = Len(list)
  BY DEF ListOK
<1>2. PICK e \in Descriptor : Adds(list, d, o, e)
  BY AddBinds DEF Adds
<1>3. /\ e.descriptor_id = r
      /\ Len(fd1) = n + 1
      /\ \A i \in 1..(n + 1) : fd1[i] = ElementAfter(list, k + 1, e, i)
  BY <1>1, <1>2 DEF Adds, ListGrows
<1>4. list \in Seq(Descriptor) /\ ListOK(fd1) /\ fd1 \in Seq(Descriptor)
  BY AddKeepsOrder DEF ListOK
<1>5. k + 1 \in 1..(n + 1)
  BY <1>1, <1>4, PlaceBound
<1>6. k \in 0..n
  <2>1. CASE list = <<>>
    <3>1. Len(list) = 0
      BY <2>1
    <3>2. {i \in 1..(Len(list) - 1) : GapAfter(list, i)} = {}
      BY <3>1
    <3> QED
      BY <1>1, <3>1, <3>2 DEF Place
  <2>2. CASE list # <<>>
    BY <1>1, <1>4, <2>2, PlaceIsInList
  <2> QED
    BY <2>1, <2>2
<1>7. r \in Int32 /\ r <= IdBound
  BY AddBinds DEF MayAdd
<1>8. fd1 # <<>> /\ m \in 1..(n + 1) /\ (m < n + 1 => GapAfter(fd1, m))
  <2>1. fd1 # <<>>
    BY <1>3
  <2> QED
    BY <1>3, <1>4, <2>1, PlaceIsInList
<1>9. NextId(fd1) = Incremented(fd1[m].descriptor_id)
  BY <1>8 DEF NextId
<1>10. CASE list = <<>>
  <2>1. n = 0 /\ k = 0
    <3>1. Len(list) = 0
      BY <1>10
    <3> QED
      BY <1>1, <1>6, <3>1
  <2>2. m = 1 /\ fd1[1] = e
    BY <1>3, <1>8, <2>1 DEF ElementAfter
  <2>3. NextId(fd1) = Incremented(r)
    BY <1>3, <1>9, <2>2
  <2> HIDE DEF r, m
  <2>4. r < Incremented(r)
    BY <1>7 DEF Incremented, NoOverflow, Int32
  <2> QED
    BY <2>3, <2>4 DEF r
<1>11. CASE list # <<>>
  <2>1. k \in 1..n
    BY <1>1, <1>4, <1>11, PlaceIsInList
  <2>2. r = Incremented(list[k].descriptor_id)
    BY <1>11 DEF NextId
  <2> HIDE DEF k, r, m
  <2>3. m \in 1..k => ~GapAfter(fd1, m)
    <3>1. CASE m \in 1..(k - 1)
      <4>1. m \in 1..Len(list) /\ m < Place(list)
        BY <1>1, <2>1, <3>1 DEF k
      <4>2. ~GapAfter(list, m)
        BY <1>4, <4>1, NoGapBefore
      <4>3. fd1[m] = list[m] /\ fd1[m + 1] = list[m + 1]
        BY <1>3, <2>1, <3>1 DEF ElementAfter
      <4> QED
        BY <4>2, <4>3 DEF GapAfter
    <3>2. CASE m = k
      <4>1. fd1[k] = list[k] /\ fd1[k + 1] = e
        BY <1>3, <2>1 DEF ElementAfter
      <4> QED
        BY <1>3, <1>7, <2>2, <3>2, <4>1 DEF GapAfter, Int32
    <3> QED
      BY <2>1, <3>1, <3>2
  <2>4. m \in (k + 1)..(n + 1)
    BY <1>8, <2>1, <2>3
  <2>5. r <= fd1[m].descriptor_id
    <3>1. fd1[k + 1] = e
      BY <1>3, <2>1 DEF ElementAfter
    <3>2. CASE m = k + 1
      BY <1>3, <1>7, <3>1, <3>2 DEF Int32
    <3>3. CASE m > k + 1
      <4>1. m \in 1..(n + 1) /\ k + 1 \in 1..(n + 1) /\ k + 1 < m
        BY <2>1, <2>4, <3>3
      <4>2. fd1[k + 1].descriptor_id < fd1[m].descriptor_id
        BY <1>3, <1>4, <4>1 DEF ListOK, InOrder
      <4>3. fd1[m].descriptor_id \in Int
        BY <1>3, <1>4, <4>1, DescriptorType
      <4> QED
        BY <1>3, <1>7, <3>1, <4>2, <4>3 DEF Int32
    <3> QED
      BY <2>1, <2>4, <3>2, <3>3
  <2>6. fd1[m].descriptor_id \in Int /\ fd1[m].descriptor_id <= IdBound
    BY <1>3, <1>4, <1>8, DescriptorType DEF ListOK, Bounded
  <2> QED
    BY <1>7, <1>9, <2>5, <2>6 DEF Incremented, NoOverflow, Int32, r
<1> QED
  BY <1>10, <1>11

-----------------------------------------------------------------------------
(***************************************************************************)
(* The steps of the table.                                                 *)
(***************************************************************************)
TableInv ==
  /\ ListsOK
  /\ running \subseteq Process
  /\ \A p \in Process : Ids(file_descriptors[p]) \subseteq Number

\* The next number is one of those that tables have.
LEMMA NextIsNumber ==
  ASSUME NoOverflow, NEW list, ListOK(list), MayAdd(list),
         Ids(list) \subseteq Number
  PROVE  NextId(list) \in Number
<1> USE FileTableAssumption
<1>1. list \in Seq(Descriptor) /\ Len(list) \in Nat
  BY DEF ListOK
<1>2. NextId(list) \in Int32 /\ NextId(list) <= IdBound
  BY <1>1, NextIdType DEF MayAdd
<1>3. CASE list = <<>>
  <2>1. NextId(list) = 0
    BY <1>3 DEF NextId
  <2> QED
    BY <1>2, <2>1 DEF Number
<1>4. CASE list # <<>>
  <2> DEFINE k == Place(list)
             i == list[k].descriptor_id
  <2>1. k \in 1..Len(list)
    BY <1>1, <1>4, PlaceIsInList
  <2>2. NextId(list) = Incremented(i)
    BY <1>4 DEF NextId
  <2> HIDE DEF k
  <2>3. i \in Ids(list)
    BY <1>1, <2>1 DEF Ids
  <2> HIDE DEF i
  <2>4. PICK fd \in FdArg \cup {0} : fd <= i
    BY <2>3 DEF Number
  <2>5. i \in Int /\ i <= IdBound /\ fd \in Int
    BY <2>3 DEF Number, Int32
  <2>6. Incremented(i) = i + 1
    BY <2>5 DEF Incremented, NoOverflow
  <2>7. fd <= NextId(list)
    BY <2>2, <2>4, <2>5, <2>6
  <2> QED
    BY <1>2, <2>7 DEF Number
<1> QED
  BY <1>3, <1>4

\* List p becomes list, and so does its table.
LEMMA SetListTable ==
  ASSUME TableInv, NEW p \in Process, NEW list, SetList(p, list)
  PROVE  Tables' = [Tables EXCEPT ![p] = AsTable(list)]
<1>1. file_descriptors \in [Process -> Seq(Descriptor)]
  BY DEF TableInv, ListsOK
<1>2. file_descriptors' = [file_descriptors EXCEPT ![p] = list]
  BY DEF SetList
<1> QED
  BY <1>1, <1>2 DEF Tables

LEMMA TableAt ==
  ASSUME NEW p \in Process
  PROVE  Tables[p] = AsTable(file_descriptors[p])
BY DEF Tables

LEMMA OpenTable ==
  ASSUME NoOverflow, TableInv, NEW p \in Process, kfopen(p)
  PROVE  Table!Open(p)
<1>1. PICK o \in Obj \ objects :
        /\ MayAdd(file_descriptors[p])
        /\ SetList(p, add_descriptor(file_descriptors[p], "ramdisk_device", o))
        /\ sameProcesses
  BY DEF kfopen
<1> DEFINE list == file_descriptors[p]
           new == add_descriptor(list, "ramdisk_device", o)
           id == NextId(list)
<1>2. ListOK(list) /\ Ids(list) \subseteq Number /\ "ramdisk_device" \in Device
  BY DEF TableInv, ListsOK, Device
<1>3. PICK e : Adds(list, "ramdisk_device", o, e) /\ NextId(list) \in Number
  BY <1>1, <1>2, AddBinds, NextIsNumber
<1>4. Tables' = [Tables EXCEPT ![p] = AsTable(new)]
  BY <1>1, SetListTable
<1>5. Tables[p] = AsTable(list)
  BY TableAt
<1> HIDE DEF list, new, id
<1>6. /\ id \notin DOMAIN AsTable(list)
      /\ AsTable(new) = Table!Bind(AsTable(list), id,
                                   [device |-> "ramdisk_device", data |-> o])
  <2>1. Binds(list, new, e) /\ e.descriptor_id = id
        /\ File(e) = [device |-> "ramdisk_device", data |-> o]
    BY <1>3 DEF Adds, new, id
  <2> QED
    BY <2>1, BindsTable
<1>7. id \in Number
  BY <1>3 DEF id
<1> QED
  BY <1>1, <1>4, <1>5, <1>6, <1>7 DEF Table!Open, Table!Change, sameProcesses

LEMMA PipeTable ==
  ASSUME NoOverflow, TableInv, NEW p \in Process, kpipe(p)
  PROVE  Table!Pipe(p)
<1> DEFINE list == file_descriptors[p]
           out(o) == add_descriptor(list, "pipe_device_out", o)
           r == NextId(list)
           reading(o) == [device |-> "pipe_device_out", data |-> o]
           writing(o) == [device |-> "pipe_device_in", data |-> o]
<1>1. PICK o \in Obj \ objects :
        /\ MayAdd(list)
        /\ MayAdd(out(o))
        /\ SetList(p, add_descriptor(out(o), "pipe_device_in", o))
        /\ sameProcesses
  BY DEF kpipe
<1> DEFINE fd1 == out(o)
           new == add_descriptor(fd1, "pipe_device_in", o)
           w == NextId(fd1)
<1>2. /\ ListOK(list) /\ Ids(list) \subseteq Number
      /\ "pipe_device_in" \in Device /\ "pipe_device_out" \in Device
  BY DEF TableInv, ListsOK, Device, PipeDevice
<1>3. PICK e : Adds(list, "pipe_device_out", o, e) /\ r \in Number
  BY <1>1, <1>2, AddBinds, NextIsNumber
<1>4. ListOK(fd1) /\ r < w
  BY <1>1, <1>2, AddKeepsOrder, NextIsGreater
<1>5. MayAdd(fd1) /\ Tables' = [Tables EXCEPT ![p] = AsTable(new)]
  BY <1>1, SetListTable
<1>6. Tables[p] = AsTable(list)
  BY TableAt
<1>7. Binds(list, fd1, e) /\ e.descriptor_id = r /\ File(e) = reading(o)
  BY <1>3 DEF Adds
<1> HIDE DEF list, fd1, r, reading, writing
<1>8. PICK f : Adds(fd1, "pipe_device_in", o, f) /\ w \in Number
  <2>1. Ids(fd1) \subseteq Number
    BY <1>2, <1>3, <1>7 DEF Binds
  <2> QED
    BY <1>2, <1>4, <1>5, <2>1, AddBinds, NextIsNumber
<1>9. Binds(fd1, new, f) /\ f.descriptor_id = w /\ File(f) = writing(o)
  BY <1>8 DEF Adds, writing
<1> HIDE DEF new, w
<1>10. /\ r \notin DOMAIN AsTable(list)
       /\ AsTable(fd1) = Table!Bind(AsTable(list), r, reading(o))
  BY <1>7, BindsTable
<1>11. /\ w \notin DOMAIN AsTable(fd1)
       /\ AsTable(new) = Table!Bind(AsTable(fd1), w, writing(o))
  BY <1>9, BindsTable
<1>12. w \notin DOMAIN AsTable(list)
  BY <1>10, <1>11 DEF Table!Bind
<1>13. AsTable(new) = Table!Bind(Table!Bind(Tables[p], r, reading(o)), w, writing(o))
  BY <1>6, <1>10, <1>11
<1>14. Table!Change(p, Table!Bind(Table!Bind(Tables[p], r, reading(o)), w, writing(o)))
  BY <1>1, <1>5, <1>13 DEF Table!Change, sameProcesses
<1>15. /\ r \in Number \ DOMAIN Tables[p] /\ w \in Number \ DOMAIN Tables[p]
       /\ r < w /\ o \in Obj
  BY <1>3, <1>4, <1>6, <1>8, <1>10, <1>12 DEF r, w
<1> QED
  BY <1>14, <1>15, Zenon DEF Table!Pipe, reading, writing

LEMMA PipeFaultTable ==
  ASSUME NoOverflow, TableInv, NEW p \in Process, kpipe_fault(p)
  PROVE  Table!PipeEnds(p)
<1>1. PICK o \in Obj \ objects :
        /\ MayAdd(file_descriptors[p])
        /\ SetList(p, add_descriptor(file_descriptors[p], "pipe_device_out", o))
        /\ running' = running \ {p}
        /\ UNCHANGED unborn
  BY DEF kpipe_fault
<1> DEFINE list == file_descriptors[p]
           new == add_descriptor(list, "pipe_device_out", o)
           id == NextId(list)
<1>2. ListOK(list) /\ Ids(list) \subseteq Number /\ "pipe_device_out" \in Device
  BY DEF TableInv, ListsOK, Device, PipeDevice
<1>3. PICK e : Adds(list, "pipe_device_out", o, e) /\ NextId(list) \in Number
  BY <1>1, <1>2, AddBinds, NextIsNumber
<1>4. Tables' = [Tables EXCEPT ![p] = AsTable(new)]
  BY <1>1, SetListTable
<1>5. Tables[p] = AsTable(list)
  BY TableAt
<1> HIDE DEF list, new, id
<1>6. /\ id \notin DOMAIN AsTable(list)
      /\ AsTable(new) = Table!Bind(AsTable(list), id,
                                   [device |-> "pipe_device_out", data |-> o])
  <2>1. Binds(list, new, e) /\ e.descriptor_id = id
        /\ File(e) = [device |-> "pipe_device_out", data |-> o]
    BY <1>3 DEF Adds, new, id
  <2> QED
    BY <2>1, BindsTable
<1>7. id \in Number
  BY <1>3 DEF id
<1> QED
  BY <1>1, <1>4, <1>5, <1>6, <1>7 DEF Table!PipeEnds

LEMMA CloseTable ==
  ASSUME TableInv, NEW p \in Process, NEW fd \in FdArg, kfclose(p, fd)
  PROVE  Table!Close(p, fd)
<1> DEFINE list == file_descriptors[p]
<1>1. PICK k \in 1..Len(list) :
        /\ list[k].descriptor_id = fd
        /\ SetList(p, Removed(list, k))
        /\ sameProcesses
  BY DEF kfclose, IsFound
<1> DEFINE new == Removed(list, k)
<1>2. ListOK(list) /\ list \in Seq(Descriptor) /\ InOrder(list)
  BY DEF TableInv, ListsOK, ListOK
<1>3. PICK n \in Nat : n + 1 = Len(list)
  <2>1. Len(list) - 1 \in Nat /\ (Len(list) - 1) + 1 = Len(list)
    BY <1>1, <1>2
  <2> QED
    BY <2>1
<1>4. Tables' = [Tables EXCEPT ![p] = AsTable(new)]
  BY <1>1, SetListTable
<1>5. Tables[p] = AsTable(list)
  BY TableAt
<1> HIDE DEF list
<1>6. k \in 1..(n + 1)
  BY <1>3
<1>7. /\ new \in Seq(Descriptor) /\ ListGrows(new, list, n, k, list[k])
  BY <1>2, <1>3, <1>6, RemovedGrows
<1> HIDE DEF new
<1>8. Binds(new, list, list[k])
  BY <1>2, <1>6, <1>7, GrowsBinds
<1>9. /\ fd \in DOMAIN AsTable(list)
      /\ AsTable(new) = Table!Without(AsTable(list), fd)
  <2>1. AsTable(new) = Table!Without(AsTable(list), fd)
    BY <1>1, <1>8, BindsTable
  <2>2. fd \in Ids(list)
    BY <1>1, <1>8 DEF Binds
  <2> QED
    BY <2>1, <2>2, TableOf
<1> QED
  BY <1>1, <1>4, <1>5, <1>9 DEF Table!Close, Table!Change, sameProcesses

LEMMA Dup2Table ==
  ASSUME NoOverflow, TableInv, ListsOK', NEW p \in Process,
         NEW oldfd \in FdArg, NEW newfd \in FdArg, kdup2(p, oldfd, newfd)
  PROVE  oldfd \in DOMAIN Tables[p] /\ Table!Dup2(p, oldfd, newfd)
<1> USE FileTableAssumption
<1> DEFINE list == file_descriptors[p]
<1>1. PICK k \in 1..Len(list), j \in 1..Len(list) :
        /\ list[k].descriptor_id = oldfd
        /\ Dup2Place(p, Fresh(newfd, list[k].device, list[k].data),
                     DupCount(dependents, list[k]), j)
        /\ sameProcesses
  BY DEF kdup2, IsFound
<1> DEFINE e == Fresh(newfd, list[k].device, list[k].data)
<1>2. /\ ListOK(list) /\ list \in Seq(Descriptor) /\ InOrder(list)
      /\ Len(list) \in Nat
  BY DEF TableInv, ListsOK, ListOK
<1>3. PICK n \in Nat : n + 1 = Len(list)
  <2>1. Len(list) - 1 \in Nat /\ (Len(list) - 1) + 1 = Len(list)
    BY <1>1, <1>2
  <2> QED
    BY <2>1
<1>4. e \in Descriptor /\ e.descriptor_id = newfd /\ File(e) = File(list[k])
  <2>1. newfd \in Int32 /\ list[k] \in Descriptor
    BY <1>2 DEF Int32
  <2> QED
    BY <2>1 DEF Fresh, Descriptor, File
<1>5. Tables[p] = AsTable(list)
  BY TableAt
<1>6. /\ oldfd \in DOMAIN AsTable(list)
      /\ AsTable(list)[oldfd] = File(e)
  <2> HIDE DEF list, e
  <2>1. oldfd \in Ids(list) /\ Entry(list, oldfd) = File(list[k])
    BY <1>1, <1>2, EntryAt
  <2> QED
    BY <1>4, <2>1, TableOf
<1>7. ASSUME NEW new, SetList(p, new)
      PROVE  Tables' = [Tables EXCEPT ![p] = AsTable(new)] /\ InOrder(new)
  <2>1. Tables' = [Tables EXCEPT ![p] = AsTable(new)]
    BY <1>7, SetListTable
  <2>2. file_descriptors'[p] = new
    BY <1>7 DEF SetList, TableInv, ListsOK
  <2>3. InOrder(file_descriptors'[p])
    BY DEF ListsOK, ListOK
  <2> QED
    BY <2>1, <2>2, <2>3
<1>8. ASSUME NEW new, SetList(p, new),
             AsTable(new) = Table!Bind(AsTable(list), newfd, File(e))
      PROVE  Table!Dup2(p, oldfd, newfd)
  <2> HIDE DEF list, e
  <2>1. Tables' = [Tables EXCEPT ![p] = AsTable(new)]
    BY <1>7, <1>8
  <2> QED
    BY <1>1, <1>5, <1>6, <1>8, <2>1 DEF Table!Dup2, Table!Change, sameProcesses
<1>9. CASE list[j].descriptor_id = newfd
  <2> DEFINE new == [list EXCEPT ![j] = e]
             mid == Removed(list, j)
  <2>1. SetList(p, new)
    BY <1>1, <1>9 DEF Dup2Place, Fresh
  <2> HIDE DEF list, e
  <2>2. j \in 1..(n + 1)
    BY <1>3
  <2>3. /\ mid \in Seq(Descriptor) /\ ListGrows(mid, list, n, j, list[j])
        /\ new \in Seq(Descriptor) /\ ListGrows(mid, new, n, j, e)
    BY <1>2, <1>3, <1>4, <2>2, RemovedGrows, ReplacedGrows
  <2> HIDE DEF new, mid
  <2>4. InOrder(new)
    BY <1>7, <2>1
  <2>5. Binds(mid, list, list[j]) /\ Binds(mid, new, e)
    BY <1>2, <2>2, <2>3, <2>4, GrowsBinds
  <2>6. AsTable(new) = Table!Bind(AsTable(list), newfd, File(e))
    BY <1>4, <1>9, <2>5, RebindsTable
  <2> QED
    BY <1>5, <1>6, <1>8, <2>1, <2>6
<1>10. CASE list[j].descriptor_id # newfd
  <2> DEFINE at == IF list[j].descriptor_id > newfd THEN j ELSE j + 1
             new == InsertedAt(list, at, e)
  <2>1. SetList(p, new)
    BY <1>1, <1>10 DEF Dup2Place, Fresh
  <2> HIDE DEF list, e
  <2>2. at \in 1..((n + 1) + 1) /\ n + 1 \in Nat
    BY <1>3
  <2> HIDE DEF at
  <2>3. /\ new \in Seq(Descriptor) /\ ListGrows(list, new, n + 1, at, e)
    BY <1>2, <1>3, <1>4, <2>2, InsertedGrows
  <2> HIDE DEF new
  <2>4. InOrder(new)
    BY <1>7, <2>1
  <2>5. Binds(list, new, e)
    BY <1>2, <2>2, <2>3, <2>4, GrowsBinds
  <2>6. AsTable(new) = Table!Bind(AsTable(list), newfd, File(e))
    BY <1>4, <2>5, BindsTable
  <2> QED
    BY <1>5, <1>6, <1>8, <2>1, <2>6
<1> QED
  BY <1>9, <1>10

\* The list of a child, number by number.
Clones(list, clone, new) ==
  /\ DOMAIN clone = DOMAIN list
  /\ \A k \in DOMAIN list :
       /\ clone[k].descriptor_id = list[k].descriptor_id
       /\ clone[k].device = list[k].device
       /\ clone[k].data = new[k]
       /\ list[k].device # "ramdisk_device" => new[k] = list[k].data

LEMMA ForkTable ==
  ASSUME TableInv, NEW p \in Process, NEW c \in Process, kfork(p, c)
  PROVE  Table!Fork(p, c)
<1> DEFINE list == file_descriptors[p]
           at(id) == CHOOSE k \in DOMAIN list : list[k].descriptor_id = id
<1>1. PICK new \in [1..Len(list) -> Obj] :
        /\ \A k \in 1..Len(list) :
             list[k].device # "ramdisk_device" => new[k] = list[k].data
        /\ SetList(c, [k \in 1..Len(list) |-> [list[k] EXCEPT !.data = new[k]]])
  BY DEF kfork
<1> DEFINE clone == [k \in 1..Len(list) |-> [list[k] EXCEPT !.data = new[k]]]
           data == [id \in Ids(list) |-> new[at(id)]]
<1>2. list \in Seq(Descriptor) /\ DOMAIN list = 1..Len(list)
  BY DEF TableInv, ListsOK, ListOK
<1>3. Tables' = [Tables EXCEPT ![c] = AsTable(clone)]
  BY <1>1, SetListTable
<1>4. Tables[p] = AsTable(list)
  BY TableAt
<1>5. Clones(list, clone, new)
  <2> HIDE DEF list
  <2>1. ASSUME NEW k \in 1..Len(list)
        PROVE  /\ clone[k].descriptor_id = list[k].descriptor_id
               /\ clone[k].device = list[k].device
               /\ clone[k].data = new[k]
    <3>1. list[k] \in Descriptor
      BY <1>2
    <3> QED
      BY <3>1 DEF Descriptor
  <2>2. DOMAIN clone = DOMAIN list
    BY <1>2
  <2> HIDE DEF clone
  <2> QED
    BY <1>1, <1>2, <2>1, <2>2 DEF Clones
<1>6. c \in unborn /\ running' = running \cup {c} /\ unborn' = unborn \ {c}
  BY DEF kfork
<1> HIDE DEF list, clone
<1>7. Ids(clone) = Ids(list)
  BY <1>5 DEF Ids, Clones
<1>8. ASSUME NEW id \in Ids(list)
      PROVE  /\ data[id] \in Obj
             /\ Entry(clone, id) =
                  IF Entry(list, id).device = "ramdisk_device"
                  THEN [device |-> "ramdisk_device", data |-> data[id]]
                  ELSE Entry(list, id)
  <2>1. at(id) \in DOMAIN list
    BY DEF Ids
  <2>2. (CHOOSE k \in DOMAIN clone : clone[k].descriptor_id = id) = at(id)
    <3>1. \A k \in DOMAIN list : clone[k].descriptor_id = list[k].descriptor_id
      BY <1>5 DEF Clones
    <3>2. DOMAIN clone = DOMAIN list
      BY <1>5 DEF Clones
    <3> QED
      BY <3>1, <3>2
  <2>3. Entry(clone, id) = File(clone[at(id)]) /\ Entry(list, id) = File(list[at(id)])
    BY <2>2 DEF Entry
  <2>4. data[id] = new[at(id)]
    OBVIOUS
  <2> HIDE DEF at
  <2> QED
    BY <1>1, <1>2, <1>5, <2>1, <2>3, <2>4 DEF Clones, File
<1>9. data \in [DOMAIN Tables[p] -> Obj]
  BY <1>4, <1>8, TableOf
<1> HIDE DEF data
<1>10. AsTable(clone) =
         [id \in DOMAIN Tables[p] |->
            IF Tables[p][id].device = "ramdisk_device"
            THEN [device |-> "ramdisk_device", data |-> data[id]]
            ELSE Tables[p][id]]
  <2>1. /\ AsTable(list) = [id \in Ids(list) |-> Entry(list, id)]
        /\ AsTable(clone) = [id \in Ids(clone) |-> Entry(clone, id)]
    BY TableOf
  <2>2. \A id \in Ids(list) :
          Entry(clone, id) = IF Entry(list, id).device = "ramdisk_device"
                             THEN [device |-> "ramdisk_device", data |-> data[id]]
                             ELSE Entry(list, id)
    BY <1>8
  <2> QED
    BY <1>4, <1>7, <2>1, <2>2
<1> QED
  BY <1>3, <1>6, <1>9, <1>10 DEF Table!Fork

LEMMA TableStep ==
  ASSUME NoOverflow, TableInv, [Next]_vars
  PROVE  [Table!TableNext]_<<running, unborn, Tables>>
<1>1. CASE UNCHANGED vars
  BY <1>1 DEF vars, Tables
<1>2. CASE Next
  <2>1. PICK p \in running :
          \/ kfopen(p)
          \/ kpipe(p)
          \/ kpipe_fault(p)
          \/ \E fd \in FdArg : kfclose(p, fd)
          \/ \E oldfd, newfd \in FdArg : kdup2(p, oldfd, newfd)
          \/ \E c \in Process : kfork(p, c)
          \/ process_exit(p)
    BY <1>2 DEF Next
  <2>2. p \in Process
    BY DEF TableInv
  <2>3. FdArg \subseteq Number
    BY FileTableAssumption DEF Number, Int32, NoOverflow
  <2>4. CASE kfopen(p)
    BY <2>2, <2>4, OpenTable DEF Table!TableNext
  <2>5. CASE kpipe(p)
    BY <2>2, <2>5, PipeTable DEF Table!TableNext
  <2>6. CASE kpipe_fault(p)
    BY <2>2, <2>6, PipeFaultTable DEF Table!TableNext
  <2>7. CASE \E fd \in FdArg : kfclose(p, fd)
    BY <2>2, <2>3, <2>7, CloseTable DEF Table!TableNext
  <2>8. CASE \E oldfd, newfd \in FdArg : kdup2(p, oldfd, newfd)
    <3>1. PICK oldfd \in FdArg, newfd \in FdArg : kdup2(p, oldfd, newfd)
      BY <2>8
    <3>2. ListsOK'
      BY ListStep DEF TableInv
    <3>3. oldfd \in DOMAIN Tables[p] /\ Table!Dup2(p, oldfd, newfd)
      BY <2>2, <3>1, <3>2, Dup2Table
    <3> QED
      BY <2>3, <3>3, Zenon DEF Table!TableNext
  <2>9. CASE \E c \in Process : kfork(p, c)
    BY <2>2, <2>9, ForkTable DEF Table!TableNext
  <2>10. CASE process_exit(p)
    <3>1. Tables' = Tables
      BY <2>10 DEF process_exit, Tables
    <3> QED
      BY <2>10, <3>1 DEF process_exit, Table!Exit, Table!TableNext
  <2> QED
    BY <2>1, <2>4, <2>5, <2>6, <2>7, <2>8, <2>9, <2>10
<1> QED
  BY <1>1, <1>2

\* The numbers of a table that a step binds are numbers.
LEMMA TableKeepsNumbers ==
  ASSUME TableInv, [Table!TableNext]_<<running, unborn, Tables>>,
         NEW p \in Process
  PROVE  DOMAIN Tables'[p] \subseteq Number
<1>1. \A q \in Process : DOMAIN Tables[q] \subseteq Number
  BY TableAt, TableOf DEF TableInv
<1>2. Tables = [q \in Process |-> Tables[q]]
  BY DEF Tables
<1>3. ASSUME NEW q \in Process, NEW f, Tables' = [Tables EXCEPT ![q] = f],
             DOMAIN f \subseteq Number
      PROVE  DOMAIN Tables'[p] \subseteq Number
  BY <1>1, <1>2, <1>3
<1>4. CASE UNCHANGED <<running, unborn, Tables>>
  BY <1>1, <1>4
<1>5. CASE Table!TableNext
  <2>1. PICK q \in running :
          \/ Table!Open(q)
          \/ Table!Pipe(q)
          \/ Table!PipeEnds(q)
          \/ \E id \in Number : Table!Close(q, id)
          \/ \E old \in DOMAIN Tables[q], new \in Number : Table!Dup2(q, old, new)
          \/ \E c \in Process : Table!Fork(q, c)
          \/ Table!Exit(q)
    BY <1>5 DEF Table!TableNext
  <2>2. q \in Process
    BY DEF TableInv
  <2>3. CASE Table!Open(q)
    BY <1>1, <1>3, <2>2, <2>3 DEF Table!Open, Table!Change, Table!Bind
  <2>4. CASE Table!Pipe(q)
    BY <1>1, <1>3, <2>2, <2>4 DEF Table!Pipe, Table!Change, Table!Bind
  <2>5. CASE Table!PipeEnds(q)
    BY <1>1, <1>3, <2>2, <2>5 DEF Table!PipeEnds, Table!Bind
  <2>6. CASE \E id \in Number : Table!Close(q, id)
    BY <1>1, <1>3, <2>2, <2>6 DEF Table!Close, Table!Change, Table!Without
  <2>7. CASE \E old \in DOMAIN Tables[q], new \in Number : Table!Dup2(q, old, new)
    BY <1>1, <1>3, <2>2, <2>7 DEF Table!Dup2, Table!Change, Table!Bind
  <2>8. CASE \E c \in Process : Table!Fork(q, c)
    BY <1>1, <1>3, <2>2, <2>8 DEF Table!Fork
  <2>9. CASE Table!Exit(q)
    BY <1>1, <2>9 DEF Table!Exit
  <2> QED
    BY <2>1, <2>3, <2>4, <2>5, <2>6, <2>7, <2>8, <2>9
<1> QED
  BY <1>4, <1>5

LEMMA TableInvStep ==
  ASSUME NoOverflow, TableInv, [Next]_vars
  PROVE  TableInv'
<1>1. ListsOK' /\ (running \subseteq Process)'
  BY ListStep, RunningStep DEF TableInv
<1>2. [Table!TableNext]_<<running, unborn, Tables>>
  BY TableStep
<1>3. ASSUME NEW p \in Process
      PROVE  Ids(file_descriptors'[p]) \subseteq Number
  <2>1. Tables'[p] = AsTable(file_descriptors'[p])
    BY DEF Tables
  <2>2. DOMAIN Tables'[p] \subseteq Number
    BY <1>2, TableKeepsNumbers
  <2> QED
    BY <2>1, <2>2, TableOf
<1> QED
  BY <1>1, <1>3 DEF TableInv

LEMMA TableStart ==
  ASSUME Init
  PROVE  TableInv /\ Table!TableInit
<1>1. TableInv
  <2>1. ListsOK /\ running \subseteq Process
    BY ListStart
  <2>2. \A p \in Process : Ids(file_descriptors[p]) = {}
    BY DEF Init, Ids
  <2> QED
    BY <2>1, <2>2 DEF TableInv
<1>2. AsTable(<<>>) = [id \in {} |-> {}]
  <2>1. Ids(<<>>) = {}
    BY DEF Ids
  <2> QED
    BY <2>1, TableOf
<1>3. Tables = [p \in Process |-> [id \in {} |-> {}]]
  BY <1>2 DEF Init, Tables
<1> QED
  BY <1>1, <1>3 DEF Init, Table!TableInit

-----------------------------------------------------------------------------
(***************************************************************************)
(* Every descriptor list is strictly in order (filesystem.c:217-242,       *)
(* 429-480, 561-581), as long as no number reaches the largest int.        *)
(***************************************************************************)
THEOREM OrderKept ==
  ASSUME NoOverflow
  PROVE  Spec => []DescriptorsInOrder
<1> DEFINE I == ListsOK /\ running \subseteq Process
<1>1. Init => I
  BY ListStart
<1>2. I /\ [Next]_vars => I'
  BY ListStep, RunningStep
<1>3. I => DescriptorsInOrder
  BY DEF ListsOK, ListOK, InOrder, DescriptorsInOrder
<1> QED
  BY <1>1, <1>2, <1>3, PTL DEF Spec

(***************************************************************************)
(* Lists, blocks and counts have their types: in particular no count falls *)
(* below zero, whatever is closed and by whom (pipe.c:91-146,              *)
(* ramdisk.c:140-160).                                                     *)
(***************************************************************************)
THEOREM TableTyped == Spec => []TypeOK
<1>1. Init => CountInv
  BY CountStart
<1>2. CountInv /\ [Next]_vars => CountInv'
  BY CountStep
<1>3. CountInv => TypeOK
  BY DEF CountInv
<1> QED
  BY <1>1, <1>2, <1>3, PTL DEF Spec

(***************************************************************************)
(* A pipe counts exactly the descriptors of its ends, and no descriptor    *)
(* names a block that has been freed (pipe.c:91-146, ramdisk.c:140-160,    *)
(* filesystem.c:253-313, 429-480, 561-581).                                *)
(***************************************************************************)
THEOREM CountsKept == Spec => []CountsSound
<1>1. Init => CountInv
  BY CountStart
<1>2. CountInv /\ [Next]_vars => CountInv'
  BY CountStep
<1>3. CountInv => CountsSound
  BY CountsAreSound
<1> QED
  BY <1>1, <1>2, <1>3, PTL DEF Spec

(***************************************************************************)
(* The lists implement the table from numbers to open files, as long as no *)
(* number reaches the largest int: open and pipe take numbers that are     *)
(* free, pipe the smaller one for reading, dup2 changes the one number it  *)
(* names, fork gives the child the same numbers (filesystem.c:217-242,     *)
(* 253-313, 429-480, 561-581).                                             *)
(***************************************************************************)
THEOREM ListsAreTables ==
  ASSUME NoOverflow
  PROVE  Spec => IsFdTable
<1>1. Init => TableInv /\ Table!TableInit
  BY TableStart
<1>2. TableInv /\ [Next]_vars => TableInv'
  BY TableInvStep
<1>3. TableInv /\ [Next]_vars => [Table!TableNext]_<<running, unborn, Tables>>
  BY TableStep
<1> QED
  BY <1>1, <1>2, <1>3, PTL DEF Spec, IsFdTable, Table!TableSpec, Table!tableVars
=============================================================================

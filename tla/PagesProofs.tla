---------------------------- MODULE PagesProofs ----------------------------
(***************************************************************************)
(* Pages, for any memory, with holes and without, any programs, breaks and *)
(* heap, and any number of processes: types; that no page is lost; that a  *)
(* page gets a second user in two steps only; and where the free memory    *)
(* lies when the kernel stops for want of it.                              *)
(***************************************************************************)
EXTENDS Pages, FiniteSetTheorems, WellFoundedInduction, TLAPS

(***************************************************************************)
(* The search for a free page.                                             *)
(***************************************************************************)
LEMMA LeastIsLeast ==
  ASSUME NEW S, S \subseteq Nat, S # {}
  PROVE  Least(S) \in S /\ \A n \in S : Least(S) <= n
<1>1. \E m \in S : \A n \in S : ~(<<n, m>> \in OpToRel(<, Nat))
  BY NatLessThanWellFounded, WFMin
<1>2. OpToRel(<, Nat) = {pair \in Nat \X Nat : pair[1] < pair[2]}
  BY Zenon DEF OpToRel
<1>3. \A m, n \in Nat :
        <<m, n>> \in {pair \in Nat \X Nat : pair[1] < pair[2]} <=> m < n
  OBVIOUS
<1>4. \E m \in S : \A n \in S : ~(n < m)
  BY <1>1, <1>2, <1>3, Zenon
<1>5. \E m \in S : \A n \in S : m <= n
  BY <1>4
<1> QED
  BY <1>5 DEF Least

\* Division, for the provers, which know less of it.
LEMMA Division ==
  ASSUME NEW a \in Nat, NEW b \in Nat \ {0}
  PROVE  /\ a \div b \in Nat /\ a % b \in 0..(b - 1)
         /\ a = (a \div b) * b + (a % b)
<1>1. a \div b \in Nat /\ a % b \in 0..(b - 1)
  OBVIOUS
<1>2. a % b = a - b * (a \div b)
  BY SMTT(30)
<1>3. b * (a \div b) \in Int /\ b * (a \div b) = (a \div b) * b
  <2> DEFINE q == a \div b
  <2>1. q \in Nat
    BY <1>1
  <2> HIDE DEF q
  <2>2. b * q \in Int /\ b * q = q * b
    BY <2>1
  <2> QED
    BY <2>2 DEF q
<1> DEFINE q == b * (a \div b)
           r == a % b
<1>4. q \in Int /\ r \in Int /\ r = a - q
  BY <1>1, <1>2, <1>3
<1>5. a = q + r
  <2> HIDE DEF q, r
  <2> QED
    BY <1>4
<1> QED
  BY <1>1, <1>3, <1>5, Zenon

\* The words hold the bits of all pages, and of nothing else.
LEMMA WordsAreOfPages ==
  /\ WordBits \in Nat \ {0} /\ TotalPages \in Nat
  /\ TotalPages \div WordBits \in Nat
  /\ TotalPages = (TotalPages \div WordBits) * WordBits
<1>1. WordBits \in Nat \ {0} /\ TotalPages \in Nat /\ TotalPages % WordBits = 0
  BY PagesAssumption
<1> DEFINE n == TotalPages \div WordBits
<1>2. n \in Nat /\ TotalPages = n * WordBits + (TotalPages % WordBits)
  BY <1>1, Division
<1> HIDE DEF n
<1>3. n * WordBits \in Nat
  BY <1>1, <1>2
<1>4. TotalPages = n * WordBits
  <2>1. TotalPages = n * WordBits + 0
    BY <1>1, <1>2, Zenon
  <2> QED
    BY <1>3, <2>1
<1> QED
  BY <1>1, <1>2, <1>4 DEF n

\* Pages of a word that comes first come first.
LEMMA WordsInOrder ==
  ASSUME NEW v \in Nat, NEW w \in Nat, v < w, NEW i \in 0..(WordBits - 1)
  PROVE  v * WordBits + i < w * WordBits
<1>1. WordBits \in Nat \ {0} /\ v + 1 <= w
  BY PagesAssumption
<1>2. (v + 1) * WordBits <= w * WordBits
  BY <1>1
<1>3. (v + 1) * WordBits = v * WordBits + WordBits
  BY <1>1
<1>4. v * WordBits \in Nat /\ w * WordBits \in Nat
  BY <1>1
<1> QED
  BY <1>1, <1>2, <1>3, <1>4

LEMMA PageHasWord ==
  ASSUME NEW f \in Page
  PROVE  \E w \in Words, i \in 0..(WordBits - 1) : f = w * WordBits + i
<1> DEFINE w == f \div WordBits
           n == TotalPages \div WordBits
<1>1. f \in Nat /\ f < TotalPages
  BY WordsAreOfPages DEF Page
<1>2. w \in Nat /\ f % WordBits \in 0..(WordBits - 1) /\ f = w * WordBits + (f % WordBits)
  BY <1>1, WordsAreOfPages, Division
<1>3. n \in Nat /\ TotalPages = n * WordBits
  BY WordsAreOfPages
<1>4. w \in Words
  <2>1. SUFFICES w < n
    BY <1>2, <1>3 DEF Words
  <2> DEFINE i == f % WordBits
  <2> HIDE DEF w, n, i
  <2>2. SUFFICES ASSUME n <= w PROVE FALSE
    BY <1>2, <1>3
  <2>3. n * WordBits <= w * WordBits /\ w * WordBits \in Nat
    BY <1>2, <1>3, <2>2, WordsAreOfPages
  <2> QED
    <3>1. i \in 0..(WordBits - 1) /\ f = w * WordBits + i
      BY <1>2, Zenon DEF i
    <3> QED
      BY <1>1, <1>3, <2>3, <3>1, WordsAreOfPages
<1> QED
  <2>1. f % WordBits \in 0..(WordBits - 1) /\ f = w * WordBits + (f % WordBits)
    BY <1>2
  <2> HIDE DEF w
  <2> QED
    BY <1>4, <2>1, Zenon

LEMMA WordIsOfPages ==
  ASSUME NEW w \in Words, NEW i \in 0..(WordBits - 1)
  PROVE  w * WordBits + i \in Page
<1> DEFINE n == TotalPages \div WordBits
<1>1. n \in Nat /\ TotalPages = n * WordBits
  BY WordsAreOfPages
<1>2. w \in Nat /\ w < n
  BY <1>1 DEF Words
<1> HIDE DEF n
<1>3. w * WordBits + i < n * WordBits
  BY <1>1, <1>2, WordsInOrder
<1>4. w * WordBits \in Nat
  BY <1>2, WordsAreOfPages
<1> QED
  BY <1>1, <1>3, <1>4, WordsAreOfPages DEF Page

\* The search begins at the first free page.
LEMMA ProbeIsFirstFree ==
  /\ WordsFrom(0) = {} => Page \subseteq used
  /\ WordsFrom(0) # {} =>
       /\ Probe(0) \in Page \ used
       /\ \A f \in Page : f < Probe(0) => f \in used
<1>1. WordBits \in Nat \ {0} /\ 0 \div WordBits = 0
  BY PagesAssumption
<1>2. WordsFrom(0) = {w \in Words : FreeIn(w) # {}}
  BY <1>1 DEF WordsFrom, Words
<1>3. ASSUME WordsFrom(0) = {} PROVE Page \subseteq used
  <2>1. SUFFICES ASSUME NEW f \in Page, f \notin used PROVE FALSE
    OBVIOUS
  <2>2. PICK w \in Words, i \in 0..(WordBits - 1) : f = w * WordBits + i
    BY PageHasWord
  <2> QED
    BY <1>2, <1>3, <2>1, <2>2 DEF FreeIn
<1>4. ASSUME WordsFrom(0) # {}
      PROVE  /\ Probe(0) \in Page \ used
             /\ \A f \in Page : f < Probe(0) => f \in used
  <2> DEFINE w == Least(WordsFrom(0))
             i == Least(FreeIn(w))
  <2>1. WordsFrom(0) \subseteq Nat
    BY DEF WordsFrom, Words
  <2>2. w \in WordsFrom(0) /\ \A v \in WordsFrom(0) : w <= v
    BY <1>4, <2>1, LeastIsLeast
  <2>3. w \in Words /\ FreeIn(w) # {}
    BY <1>2, <2>2
  <2>4. FreeIn(w) \subseteq Nat
    BY DEF FreeIn
  <2>5. i \in FreeIn(w) /\ \A j \in FreeIn(w) : i <= j
    BY <2>3, <2>4, LeastIsLeast
  <2>6. i \in 0..(WordBits - 1) /\ w * WordBits + i \notin used
    BY <2>5 DEF FreeIn
  <2>7. Probe(0) = w * WordBits + i
    <3>1. w \in Int /\ i \in Int /\ w * WordBits \in Int
      BY <1>1, <2>3, <2>6 DEF Words
    <3>2. Probe(0) = 0 + (w - 0 \div WordBits) * WordBits + i
      BY DEF Probe
    <3> HIDE DEF w, i
    <3> QED
      BY <1>1, <3>1, <3>2
  <2> HIDE DEF w, i
  <2>8. Probe(0) \in Page \ used
    BY <2>3, <2>6, <2>7, WordIsOfPages
  <2>9. ASSUME NEW f \in Page, f < Probe(0), f \notin used PROVE FALSE
    <3>1. PICK v \in Words, j \in 0..(WordBits - 1) : f = v * WordBits + j
      BY PageHasWord
    <3>2. j \in FreeIn(v)
      BY <2>9, <3>1 DEF FreeIn
    <3>3. w <= v
      BY <1>2, <2>2, <3>2
    <3>4. v \in Nat /\ w \in Nat
      BY <2>3 DEF Words
    <3>5. CASE v = w
      <4>1. i <= j
        BY <2>5, <3>2, <3>5
      <4>2. w * WordBits \in Int
        BY <1>1, <3>4
      <4> QED
        BY <2>6, <2>7, <2>9, <3>1, <3>5, <4>1, <4>2
    <3>6. CASE w < v
      <4>1. Probe(0) < v * WordBits
        BY <2>6, <2>7, <3>4, <3>6, WordsInOrder
      <4>2. v * WordBits \in Nat /\ j \in Nat
        BY <1>1, <3>1, <3>4
      <4> QED
        BY <2>8, <2>9, <3>1, <4>1, <4>2, PagesAssumption DEF Page
    <3> QED
      BY <3>3, <3>4, <3>5, <3>6
  <2> QED
    BY <2>8, <2>9
<1> QED
  BY <1>3, <1>4

LEMMA FoundIsUsable == Found \subseteq Usable /\ Usable \subseteq Page
BY PagesAssumption DEF Found

\* What the search finds when the first free page is usable, is that page.
LEMMA FoundIsFree ==
  ASSUME NEW f \in Found, Probe(0) \in Usable
  PROVE  f \in Page \ used
<1>1. WordsFrom(0) # {} /\ f = Probe(0)
  BY DEF Found
<1> QED
  BY <1>1, ProbeIsFirstFree

\* What stops the kernel is a free page that is not usable, before all others.
LEMMA StoppedByHole ==
  ASSUME NEW how, Refused(how), NEW f \in Usable \ used
  PROVE  \E g \in Page \ (Usable \cup used) : g < f
<1>1. Usable \subseteq Page /\ Page \subseteq Int
  BY PagesAssumption DEF Page
<1>2. CASE WordsFrom(0) = {}
  BY <1>1, <1>2, ProbeIsFirstFree
<1>3. CASE WordsFrom(0) # {}
  <2>1. Probe(0) \in Page \ used /\ \A g \in Page : g < Probe(0) => g \in used
    BY <1>3, ProbeIsFirstFree
  <2>2. Probe(0) \notin Usable
    <3>1. SUFFICES ASSUME Probe(0) \in Usable PROVE FALSE
      OBVIOUS
    <3>2. Found = {Probe(0)}
      BY <1>3, <3>1 DEF Found
    <3> QED
      BY <2>1, <3>2 DEF Refused, Full
  <2> DEFINE g == Probe(0)
  <2>3. g \in Int /\ f \in Int /\ g # f /\ ~(f < g)
    BY <1>1, <2>1, <2>2
  <2> HIDE DEF g
  <2>4. g < f
    BY <2>3
  <2> QED
    BY <2>1, <2>2, <2>4 DEF g
<1> QED
  BY <1>2, <1>3

-----------------------------------------------------------------------------
(***************************************************************************)
(* Addresses and the pages they are in.                                    *)
(***************************************************************************)
LEMMA Units ==
  /\ PAGE \in Nat \ {0} /\ TOP \in Nat \ {0} /\ LIMIT \in Nat \ {0} /\ TOP < LIMIT
  /\ Address \subseteq Nat
<1>1. PAGE \in Nat \ {0} /\ TOP \in 1..(LIMIT - 1) /\ LIMIT \in Nat
  BY PagesAssumption
<1> QED
  BY <1>1 DEF Address

LEMMA PageBegins ==
  ASSUME NEW a \in Nat
  PROVE  /\ PageOf(a) \in Nat /\ PageOf(a) * PAGE \in Nat
         /\ PageOf(a) * PAGE <= a /\ a < PageOf(a) * PAGE + PAGE
         /\ a % PAGE = a - PageOf(a) * PAGE
<1> DEFINE q == PageOf(a)
           r == a % PAGE
<1>1. q \in Nat /\ r \in 0..(PAGE - 1) /\ a = q * PAGE + r
  BY Units, Division DEF PageOf
<1> HIDE DEF q, r
<1>2. q * PAGE \in Nat
  BY <1>1, Units
<1>3. q * PAGE <= a /\ a < q * PAGE + PAGE /\ r = a - q * PAGE
  BY <1>1, <1>2, Units
<1> QED
  BY <1>1, <1>2, <1>3 DEF q, r

LEMMA PagesInOrder ==
  ASSUME NEW a \in Nat, NEW b \in Nat
  PROVE  /\ a <= b => PageOf(a) <= PageOf(b)
         /\ a < b * PAGE => PageOf(a) < b
         /\ a <= b * PAGE => PageOf(a) <= b
<1> DEFINE q == PageOf(a)
           r == PageOf(b)
<1>1. /\ q \in Nat /\ q * PAGE \in Nat /\ q * PAGE <= a
      /\ r \in Nat /\ r * PAGE \in Nat /\ b < r * PAGE + PAGE
  BY PageBegins
<1> HIDE DEF q, r
<1>2. \A m, n \in Nat : m < n => m * PAGE + PAGE <= n * PAGE
  <2>1. SUFFICES ASSUME NEW m \in Nat, NEW n \in Nat, m < n
                 PROVE  m * PAGE + PAGE <= n * PAGE
    OBVIOUS
  <2>2. m + 1 <= n /\ (m + 1) * PAGE = m * PAGE + PAGE
    BY <2>1, Units
  <2>3. (m + 1) * PAGE <= n * PAGE
    BY <2>2, Units
  <2> QED
    BY <2>2, <2>3
<1>3. b * PAGE \in Nat
  BY Units
<1>4. ASSUME a <= b PROVE q <= r
  <2>1. SUFFICES ASSUME r < q PROVE FALSE
    BY <1>1
  <2>2. r * PAGE + PAGE <= q * PAGE
    BY <1>1, <1>2, <2>1
  <2> QED
    BY <1>1, <1>4, <2>2, Units
<1>5. ASSUME a < b * PAGE PROVE q < b
  <2>1. SUFFICES ASSUME b <= q PROVE FALSE
    BY <1>1
  <2>2. b = q \/ b * PAGE + PAGE <= q * PAGE
    BY <1>1, <1>2, <2>1
  <2> QED
    BY <1>1, <1>3, <1>5, <2>2, Units
<1>6. ASSUME a <= b * PAGE PROVE q <= b
  <2>1. SUFFICES ASSUME b < q PROVE FALSE
    BY <1>1
  <2>2. b * PAGE + PAGE <= q * PAGE
    BY <1>1, <1>2, <2>1
  <2> QED
    BY <1>1, <1>3, <1>6, <2>2, Units
<1> QED
  BY <1>4, <1>5, <1>6 DEF q, r

\* All addresses are of pages, and what comes before one is one.
LEMMA PageOfAddress ==
  ASSUME NEW a \in Address
  PROVE  PageOf(a) \in Virtual /\ PageOf(a) * PAGE \in Address
<1>1. LIMIT * PAGE \in Nat
  BY Units
<1>2. a \in Nat /\ a < LIMIT * PAGE
  BY <1>1 DEF Address
<1> DEFINE q == PageOf(a)
           n == LIMIT * PAGE
           m == q * PAGE
<1>3. q \in Nat /\ m \in Nat /\ m <= a /\ q < LIMIT
  BY <1>2, Units, PageBegins, PagesInOrder
<1>4. n \in Nat /\ a < n /\ a \in Nat
  BY <1>1, <1>2
<1>5. Virtual = 0..(LIMIT - 1) /\ Address = 0..(n - 1)
  BY DEF Virtual, Address
<1> HIDE DEF q, n, m
<1>6. q \in Virtual /\ m \in Address
  BY <1>3, <1>4, <1>5, Units
<1> QED
  BY <1>6 DEF q, m

LEMMA AlignedUp ==
  ASSUME NEW a \in Address
  PROVE  PAGE_ALIGN_UP(a) \in Address
<1> DEFINE n == LIMIT * PAGE
           b == IF a % PAGE = 0 THEN a ELSE (PageOf(a) + 1) * PAGE
<1>1. n \in Nat \ {0}
  BY Units
<1>2. b \in Nat
  <2>1. a \in Nat
    BY Units
  <2>2. PageOf(a) \in Nat
    BY <2>1, PageBegins
  <2>3. (PageOf(a) + 1) * PAGE \in Nat
    BY <2>2, Units
  <2> QED
    BY <2>1, <2>3
<1>3. PAGE_ALIGN_UP(a) = b % n /\ Address = 0..(n - 1)
  BY DEF PAGE_ALIGN_UP, Address
<1> HIDE DEF n, b
<1> QED
  BY <1>1, <1>2, <1>3, Division

-----------------------------------------------------------------------------
(***************************************************************************)
(* The pages of a directory from the lowest (PagesOf): each once.          *)
(***************************************************************************)
Below(S, v) == {w \in S : w < v}

LEMMA NextRank ==
  ASSUME NEW S \in SUBSET Nat, IsFiniteSet(S),
         NEW v \in S, Cardinality(Below(S, v)) + 1 < Cardinality(S)
  PROVE  \E u \in S : Cardinality(Below(S, u)) = Cardinality(Below(S, v)) + 1
<1> DEFINE upto == Below(S, v) \cup {v}
           above == S \ upto
<1>1. Below(S, v) \in SUBSET S /\ v \notin Below(S, v)
  BY DEF Below
<1>2. IsFiniteSet(Below(S, v)) /\ Cardinality(Below(S, v)) \in Nat
  BY <1>1, FS_Subset, FS_CardinalityType
<1>3. Cardinality(upto) = Cardinality(Below(S, v)) + 1
  BY <1>1, <1>2, FS_AddElement
<1>4. upto # S
  <2> HIDE DEF upto
  <2> QED
    BY <1>2, <1>3
<1>5. above # {} /\ above \subseteq Nat
  BY <1>1, <1>4
<1> DEFINE u == Least(above)
<1>6. u \in above /\ \A n \in above : u <= n
  <2> HIDE DEF above
  <2> QED
    BY <1>5, LeastIsLeast
<1> HIDE DEF u
<1>7. u \in Nat /\ v \in Nat /\ v < u
  BY <1>6 DEF Below
<1>8. Below(S, u) = upto
  <2>1. ASSUME NEW w \in S, w < u PROVE w \in upto
    BY <1>6, <1>7, <2>1
  <2>2. ASSUME NEW w \in upto PROVE w \in S /\ w < u
    BY <1>7 DEF Below
  <2> HIDE DEF upto
  <2> QED
    BY <2>1, <2>2 DEF Below
<1> QED
  BY <1>3, <1>6, <1>8

LEMMA RankExists ==
  ASSUME NEW S \in SUBSET Nat, IsFiniteSet(S), NEW i \in 1..Cardinality(S)
  PROVE  \E v \in S : Cardinality(Below(S, v)) = i - 1
<1> DEFINE missing == {k \in 1..Cardinality(S) :
                         ~ \E v \in S : Cardinality(Below(S, v)) = k - 1}
<1>1. SUFFICES ASSUME missing # {} PROVE FALSE
  OBVIOUS
<1>2. Cardinality(S) \in Nat
  BY FS_CardinalityType
<1> DEFINE k == Least(missing)
<1>3. k \in missing /\ \A n \in missing : k <= n
  <2>1. missing \subseteq Nat
    OBVIOUS
  <2> HIDE DEF missing
  <2> QED
    BY <1>1, <2>1, LeastIsLeast
<1> HIDE DEF k
<1>4. k \in 1..Cardinality(S) /\ ~ \E v \in S : Cardinality(Below(S, v)) = k - 1
  BY <1>3
<1>5. CASE k = 1
  <2>1. S # {}
    BY <1>2, <1>4, FS_EmptySet
  <2>2. PICK m \in S : \A n \in S : m <= n
    BY <2>1, LeastIsLeast
  <2>3. Below(S, m) = {}
    <3>1. SUFFICES ASSUME NEW w \in Below(S, m) PROVE FALSE
      OBVIOUS
    <3>2. w \in Nat /\ m \in Nat /\ w < m /\ m <= w
      BY <2>2, <3>1 DEF Below
    <3> QED
      BY <3>2
  <2>4. Cardinality(Below(S, m)) = k - 1
    BY <1>5, <2>3, FS_EmptySet
  <2> QED
    BY <1>4, <2>4
<1>6. CASE k > 1
  <2>1. k - 1 \notin missing /\ k - 1 \in 1..Cardinality(S)
    BY <1>2, <1>3, <1>4, <1>6
  <2>2. PICK v \in S : Cardinality(Below(S, v)) = (k - 1) - 1
    BY <2>1
  <2>3. Cardinality(Below(S, v)) + 1 < Cardinality(S)
    BY <1>2, <1>4, <2>2
  <2>4. \E u \in S : Cardinality(Below(S, u)) = Cardinality(Below(S, v)) + 1
    BY <2>3, NextRank
  <2> QED
    BY <1>2, <1>4, <2>2, <2>4
<1> QED
  BY <1>2, <1>4, <1>5, <1>6

Todo == [v : Virtual, write : BOOLEAN]

Held(p) == {v \in Virtual : space[p][v] # NoPage}

LEMMA PagesOfSound ==
  ASSUME NEW p
  PROVE  /\ PagesOf(p) \in Seq(Todo)
         /\ \A i \in 1..Len(PagesOf(p)) : PagesOf(p)[i].v \in Held(p)
         /\ \A i, j \in 1..Len(PagesOf(p)) :
              PagesOf(p)[i].v = PagesOf(p)[j].v => i = j
<1> DEFINE S == Held(p)
           pick(i) == CHOOSE v \in S : Cardinality(Below(S, v)) = i - 1
<1>1. S \in SUBSET Nat /\ S \subseteq Virtual /\ IsFiniteSet(S)
  <2>1. IsFiniteSet(Virtual) /\ Virtual \subseteq Nat
    BY Units, FS_Interval DEF Virtual
  <2> QED
    BY <2>1, FS_Subset DEF Held
<1>2. Cardinality(S) \in Nat
  BY <1>1, FS_CardinalityType
<1>3. \A i \in 1..Cardinality(S) :
        pick(i) \in S /\ Cardinality(Below(S, pick(i))) = i - 1
  <2>1. SUFFICES ASSUME NEW i \in 1..Cardinality(S)
                 PROVE  pick(i) \in S /\ Cardinality(Below(S, pick(i))) = i - 1
    BY Zenon
  <2> HIDE DEF S
  <2>2. \E v \in S : Cardinality(Below(S, v)) = i - 1
    BY <1>1, RankExists
  <2> QED
    BY <2>2
<1>4. PagesOf(p) = [i \in 1..Cardinality(S) |-> Map(pick(i))]
  BY DEF PagesOf, Held, Below
<1> HIDE DEF S, pick
<1>5. Len(PagesOf(p)) = Cardinality(S)
  BY <1>2, <1>4
<1>6. \A i \in 1..Cardinality(S) : PagesOf(p)[i] = Map(pick(i)) /\ PagesOf(p)[i].v = pick(i)
  BY <1>4 DEF Map
<1>7. \A i \in 1..Cardinality(S) : Map(pick(i)) \in Todo
  BY <1>1, <1>3 DEF Map, Todo
<1>8. PagesOf(p) \in Seq(Todo)
  BY <1>2, <1>4, <1>7
<1>9. \A i, j \in 1..Cardinality(S) : pick(i) = pick(j) => i = j
  <2>1. \A i \in 1..Cardinality(S) : i - 1 = Cardinality(Below(S, pick(i))) /\ i \in Int
    BY <1>3
  <2> QED
    BY <2>1
<1> QED
  BY <1>3, <1>5, <1>6, <1>8, <1>9 DEF S

-----------------------------------------------------------------------------
(***************************************************************************)
(* Types.                                                                  *)
(***************************************************************************)
Shape ==
  cpu = [op |-> cpu.op, p |-> cpu.p, d |-> cpu.d, todo |-> cpu.todo,
         phys |-> cpu.phys, grow |-> cpu.grow, program |-> cpu.program]

CpuTyped ==
  /\ Shape
  /\ cpu.op \in {"none", "boot", "fork", "exec", "fault", "brk"}
  /\ cpu.d \in Directory /\ cpu.p \in Directory
  /\ cpu.op # "none" => cpu.p \in Proc
  /\ cpu.todo \in Seq(Todo)
  /\ cpu.phys \in Page \cup {NoPage} /\ cpu.grow \in 0..GROW
  /\ cpu.program \in Program \cup {InitProgram}

\* The heap has room for what it grows by.
HeapTyped ==
  /\ kheap_end \in KHEAP..(KHEAP + MaxHeap)
  /\ kheap_end + cpu.grow <= KHEAP + MaxHeap

\* Who may be doomed: there is nobody at the boot.
Actors ==
  /\ alive \subseteq Proc /\ doomed \subseteq alive
  /\ cpu.op = "exec" => cpu.p \in alive
  /\ cpu.op = "boot" => alive = {}

SpaceTyped == space \in [Directory -> [Virtual -> Page \cup {NoPage}]]

Typed ==
  /\ used \subseteq Page /\ heap \subseteq Page /\ lost \subseteq Page
  /\ HeapTyped
  /\ SpaceTyped
  /\ regions \in [Proc -> SUBSET [start : Address, end : Address]]
  /\ brk \in [Proc -> Address]
  /\ Actors
  /\ kernel \in {"run", "panic", "hang", "overrun"}
  /\ CpuTyped

LEMMA CpuKept ==
  ASSUME Typed, NEW phys \in Page \cup {NoPage}, NEW grow \in 0..GROW, NEW todo \in Seq(Todo),
         cpu' = [cpu EXCEPT !.phys = phys, !.grow = grow, !.todo = todo]
  PROVE  CpuTyped'
<1>1. cpu' = [op |-> cpu.op, p |-> cpu.p, d |-> cpu.d, todo |-> todo,
              phys |-> phys, grow |-> grow, program |-> cpu.program]
  BY DEF Typed, CpuTyped, Shape
<1>2. /\ cpu'.op = cpu.op /\ cpu'.p = cpu.p /\ cpu'.d = cpu.d /\ cpu'.todo = todo
      /\ cpu'.phys = phys /\ cpu'.grow = grow /\ cpu'.program = cpu.program
  BY <1>1
<1>3. Shape'
  BY <1>1, <1>2, Zenon DEF Shape
<1> QED
  BY <1>2, <1>3 DEF Typed, CpuTyped

LEMMA CpuSame == ASSUME Typed, UNCHANGED cpu PROVE CpuTyped'
BY DEF Typed, CpuTyped, Shape

LEMMA CpuIdle == ASSUME cpu' = Idle PROVE CpuTyped'
<1>1. <<>> \in Seq(Todo) /\ 0 \in 0..GROW
  BY PagesAssumption
<1> QED
  BY <1>1 DEF Idle, CpuTyped, Shape, Directory

LEMMA CpuBegins ==
  ASSUME NEW op \in {"boot", "fork", "exec", "fault", "brk"},
         NEW p \in Proc, NEW d \in Directory, NEW todo \in Seq(Todo),
         NEW e \in Program \cup {InitProgram}, Begins(op, p, d, todo, e)
  PROVE  CpuTyped'
<1>1. cpu' = [op |-> op, p |-> p, d |-> d, todo |-> todo,
              phys |-> NoPage, grow |-> 0, program |-> e]
  BY DEF Begins, Idle
<1>2. 0 \in 0..GROW
  BY PagesAssumption
<1> QED
  BY <1>1, <1>2 DEF CpuTyped, Shape, Directory

LEMMA TodoTail ==
  ASSUME Typed, cpu.todo # <<>>
  PROVE  Tail(cpu.todo) \in Seq(Todo) /\ Now \in Todo
BY DEF Typed, CpuTyped, Now

LEMMA Bounds ==
  /\ GROW \in Nat \ {0} /\ 0 \in 0..GROW /\ GROW \in 0..GROW
  /\ MaxHeap \in Nat /\ KHEAP \in Nat /\ INIT_HEAP_PAGES \in 0..MaxHeap
<1>1. KHEAP \in TOP..LIMIT /\ TOP \in Nat /\ LIMIT \in Nat
  BY Units, PagesAssumption
<1>2. GROW \in Nat \ {0} /\ MaxHeap \in Nat /\ INIT_HEAP_PAGES \in Nat /\ INIT_HEAP_PAGES <= MaxHeap
  BY PagesAssumption
<1> QED
  BY <1>1, <1>2

LEMMA InitTyped == Init => Typed
<1>1. SUFFICES ASSUME Init PROVE Typed
  OBVIOUS
<1>2. FirstHeap \subseteq Usable \ Fixed
  BY DEF FirstHeap
<1>3. Fixed \subseteq Page
  BY PagesAssumption DEF Fixed, Page
<1>4. used \subseteq Page /\ heap \subseteq Page
  BY <1>1, <1>2, <1>3, PagesAssumption DEF Init
<1>5. CpuTyped
  <2>1. <<>> \in Seq(Todo) /\ 0 \in 0..GROW
    BY Bounds
  <2> QED
    BY <1>1, <2>1 DEF Init, Idle, CpuTyped, Shape, Directory
<1>6. 0 \in Address
  <2>1. LIMIT * PAGE \in Nat \ {0}
    BY Units
  <2> QED
    BY <2>1 DEF Address
<1>7. HeapTyped
  BY <1>1, Bounds DEF Init, Idle, HeapTyped
<1>8. Actors
  BY <1>1 DEF Init, Idle, Actors
<1>9. SpaceTyped
  BY <1>1 DEF Init, SpaceTyped, Empty
<1> QED
  BY <1>1, <1>4, <1>5, <1>6, <1>7, <1>8, <1>9 DEF Typed, Init

\* Where an entry is made, there is a directory.
LEMMA WhereIs ==
  ASSUME NEW d \in Directory, NEW v
  PROVE  Where(d, v) \in Directory
BY DEF Where, Directory

LEMMA EntryTyped ==
  ASSUME SpaceTyped, used \subseteq Page, NEW d \in Directory, NEW v, NEW f \in Page,
         Entered(d, v, f)
  PROVE  SpaceTyped' /\ used' \subseteq Page
BY DEF SpaceTyped, Entered

\* The operation stays the same while it is under way.
SameOperation == cpu'.op = cpu.op /\ cpu'.p = cpu.p /\ cpu'.d = cpu.d

LEMMA ActorsSame ==
  ASSUME Actors, SameOperation, UNCHANGED <<alive, doomed>>
  PROVE  Actors'
BY DEF Actors, SameOperation

LEMMA ChooseTyped == ASSUME Typed, Choose PROVE Typed'
<1>1. Shape /\ cpu.todo \in Seq(Todo) /\ HeapTyped /\ Actors
  BY DEF Typed, CpuTyped
<1>2. /\ UNCHANGED <<used, heap, lost, kheap_end, space, regions, brk, alive, doomed>>
      /\ kernel' \in {"run", "panic", "hang", "overrun"}
  BY DEF Choose, memVars, procVars, Typed
<1>3. SpaceTyped'
  BY <1>2 DEF Typed, SpaceTyped
<1>4. CASE UNCHANGED cpu
  <2>1. CpuTyped' /\ HeapTyped' /\ Actors'
    BY <1>1, <1>2, <1>4, CpuSame, ActorsSame DEF HeapTyped, SameOperation
  <2> QED
    BY <1>2, <1>3, <2>1 DEF Typed
<1>5. ASSUME NEW f \in Found, NEW g \in {0, GROW}, g = GROW => MayGrow,
             cpu' = [cpu EXCEPT !.phys = f, !.grow = g]
      PROVE  Typed'
  <2>1. cpu' = [cpu EXCEPT !.phys = f, !.grow = g, !.todo = cpu.todo]
    BY <1>1, <1>5 DEF Shape
  <2>2. f \in Page \cup {NoPage} /\ g \in 0..GROW
    BY <1>5, Bounds, FoundIsUsable
  <2>3. CpuTyped'
    BY <1>1, <2>1, <2>2, CpuKept
  <2>4. SameOperation /\ cpu'.grow = g
    BY <1>1, <2>1 DEF Shape, SameOperation
  <2>5. HeapTyped'
    BY <1>1, <1>2, <1>5, <2>4, Bounds DEF HeapTyped, MayGrow
  <2>6. Actors'
    BY <1>1, <1>2, <2>4, ActorsSame
  <2> QED
    BY <1>2, <1>3, <2>3, <2>5, <2>6 DEF Typed
<1> QED
  BY <1>4, <1>5 DEF Choose

LEMMA EnterTyped == ASSUME Typed, Enter PROVE Typed'
<1>1. /\ Shape /\ cpu.grow \in 0..GROW /\ cpu.d \in Directory
      /\ Tail(cpu.todo) \in Seq(Todo) /\ NoPage \in Page \cup {NoPage}
  BY TodoTail DEF Enter, Mapping, Typed, CpuTyped
<1>2. cpu' = [cpu EXCEPT !.phys = NoPage, !.grow = cpu.grow, !.todo = Tail(cpu.todo)]
  BY <1>1 DEF Enter, Shape
<1>3. CpuTyped'
  BY <1>1, <1>2, CpuKept
<1>4. SameOperation /\ cpu'.grow = cpu.grow
  BY <1>1, <1>2 DEF Shape, SameOperation
<1>5. /\ UNCHANGED <<heap, lost, kheap_end, regions, brk, alive, doomed, kernel>>
      /\ cpu.phys \in Page
  BY DEF Enter, procVars, Typed, CpuTyped
<1>6. SpaceTyped' /\ used' \subseteq Page
  <2>1. CASE Entered(Where(cpu.d, Now.v), Now.v, cpu.phys)
    BY <1>1, <1>5, <2>1, WhereIs, EntryTyped DEF Typed
  <2>2. CASE UNCHANGED <<space, used>>
    BY <2>2 DEF Typed, SpaceTyped
  <2> QED
    BY <2>1, <2>2 DEF Enter
<1>7. HeapTyped' /\ Actors'
  BY <1>4, <1>5, ActorsSame DEF Typed, HeapTyped
<1> QED
  BY <1>3, <1>5, <1>6, <1>7 DEF Typed

LEMMA CopyTyped == ASSUME Typed, CopyPage PROVE Typed'
<1>1. /\ Shape /\ cpu.grow \in 0..GROW /\ cpu.d \in Directory /\ cpu.phys \in Page \cup {NoPage}
      /\ Tail(cpu.todo) \in Seq(Todo)
  BY TodoTail DEF CopyPage, Typed, CpuTyped
<1>2. /\ UNCHANGED <<heap, lost, kheap_end, regions, brk, alive, doomed>>
      /\ kernel' \in {"run", "panic", "hang", "overrun"}
  BY DEF CopyPage, procVars, Typed
<1>3. ASSUME NEW f \in Found, Entered(cpu.d, Now.v, f), cpu' = [cpu EXCEPT !.todo = Tail(@)]
      PROVE  Typed'
  <2>1. cpu' = [cpu EXCEPT !.phys = cpu.phys, !.grow = cpu.grow, !.todo = Tail(cpu.todo)]
    BY <1>1, <1>3 DEF Shape
  <2>2. CpuTyped'
    BY <1>1, <2>1, CpuKept
  <2>3. SameOperation /\ cpu'.grow = cpu.grow
    BY <1>1, <2>1 DEF Shape, SameOperation
  <2>4. SpaceTyped' /\ used' \subseteq Page
    BY <1>1, <1>3, EntryTyped, FoundIsUsable DEF Typed
  <2>5. HeapTyped' /\ Actors'
    BY <1>2, <2>3, ActorsSame DEF Typed, HeapTyped
  <2> QED
    BY <1>2, <2>2, <2>4, <2>5 DEF Typed
<1>4. CASE UNCHANGED <<cpu, space, used>>
  <2>1. CpuTyped' /\ HeapTyped' /\ Actors' /\ SpaceTyped'
    BY <1>2, <1>4, CpuSame, ActorsSame DEF Typed, HeapTyped, SameOperation, SpaceTyped
  <2> QED
    BY <1>2, <1>4, <2>1 DEF Typed
<1> QED
  BY <1>3, <1>4 DEF CopyPage

LEMMA GrowTyped == ASSUME Typed, GrowStarts \/ heap_expand PROVE Typed'
<1>1. /\ Shape /\ cpu.grow \in 0..GROW /\ cpu.phys \in Page \cup {NoPage}
      /\ cpu.todo \in Seq(Todo)
  BY DEF Typed, CpuTyped
<1>2. /\ UNCHANGED <<space, lost, regions, brk, alive, doomed>>
      /\ kernel' \in {"run", "panic", "hang", "overrun"}
  BY DEF GrowStarts, heap_expand, memVars, procVars, Typed
<1>3. SpaceTyped'
  BY <1>2 DEF Typed, SpaceTyped
<1>4. CASE GrowStarts
  <2>1. cpu' = [cpu EXCEPT !.phys = cpu.phys, !.grow = GROW, !.todo = cpu.todo]
    BY <1>1, <1>4 DEF GrowStarts, Shape
  <2>2. CpuTyped' /\ SameOperation /\ cpu'.grow = GROW
    BY <1>1, <2>1, Bounds, CpuKept DEF Shape, SameOperation
  <2>3. HeapTyped' /\ Actors'
    BY <1>2, <1>4, <2>2, ActorsSame DEF GrowStarts, MayGrow, Typed, HeapTyped, memVars
  <2> QED
    BY <1>2, <1>3, <1>4, <2>2, <2>3 DEF GrowStarts, Typed, memVars
<1>5. ASSUME NEW f \in Found, heap' = heap \cup {f}, used' = used \cup {f},
             kheap_end' = kheap_end + 1, cpu' = [cpu EXCEPT !.grow = @ - 1], cpu.grow > 0
      PROVE  Typed'
  <2>1. cpu' = [cpu EXCEPT !.phys = cpu.phys, !.grow = cpu.grow - 1, !.todo = cpu.todo]
    BY <1>1, <1>5 DEF Shape
  <2>2. cpu.grow - 1 \in 0..GROW /\ cpu.grow \in Nat \ {0}
    BY <1>1, <1>5, Bounds
  <2>3. CpuTyped' /\ SameOperation /\ cpu'.grow = cpu.grow - 1
    BY <1>1, <2>1, <2>2, CpuKept DEF Shape, SameOperation
  <2>4. HeapTyped'
    BY <1>5, <2>2, <2>3, Bounds DEF Typed, HeapTyped
  <2>5. Actors'
    BY <1>2, <2>3, ActorsSame DEF Typed
  <2>6. used' \subseteq Page /\ heap' \subseteq Page
    BY <1>5, FoundIsUsable DEF Typed
  <2> QED
    BY <1>2, <1>3, <2>3, <2>4, <2>5, <2>6 DEF Typed
<1>6. CASE UNCHANGED <<cpu, heap, kheap_end, used>>
  <2>1. CpuTyped' /\ HeapTyped' /\ Actors'
    BY <1>2, <1>6, CpuSame, ActorsSame DEF Typed, HeapTyped, SameOperation
  <2> QED
    BY <1>2, <1>3, <1>6, <2>1 DEF Typed
<1> QED
  BY <1>4, <1>5, <1>6 DEF heap_expand

\* Steps that change what is left to do, or stop the kernel.
LEMMA WriteTyped ==
  ASSUME Typed, WriteThere \/ WriteRecovers \/ EnterOverruns \/ WriteOverruns
  PROVE  Typed'
<1>1. /\ Shape /\ cpu.grow \in 0..GROW /\ cpu.phys \in Page \cup {NoPage}
      /\ cpu.todo \in Seq(Todo) /\ Tail(cpu.todo) \in Seq(Todo) /\ Now \in Todo
  BY TodoTail DEF WriteThere, WriteRecovers, EnterOverruns, WriteOverruns, Writing, Mapping,
                  Typed, CpuTyped
<1>2. /\ UNCHANGED <<used, heap, lost, kheap_end, space, regions, brk, alive, doomed>>
      /\ kernel' \in {"run", "panic", "hang", "overrun"}
  BY DEF WriteThere, WriteRecovers, EnterOverruns, WriteOverruns, memVars, procVars, Typed
<1>3. SpaceTyped'
  BY <1>2 DEF Typed, SpaceTyped
<1>4. CASE UNCHANGED cpu
  <2>1. CpuTyped' /\ HeapTyped' /\ Actors'
    BY <1>2, <1>4, CpuSame, ActorsSame DEF Typed, HeapTyped, SameOperation
  <2> QED
    BY <1>2, <1>3, <2>1 DEF Typed
<1>5. ASSUME NEW todo \in Seq(Todo), cpu' = [cpu EXCEPT !.todo = todo]
      PROVE  Typed'
  <2>1. cpu' = [cpu EXCEPT !.phys = cpu.phys, !.grow = cpu.grow, !.todo = todo]
    BY <1>1, <1>5 DEF Shape
  <2>2. CpuTyped' /\ SameOperation /\ cpu'.grow = cpu.grow
    BY <1>1, <2>1, CpuKept DEF Shape, SameOperation
  <2>3. HeapTyped' /\ Actors'
    BY <1>2, <2>2, ActorsSame DEF Typed, HeapTyped
  <2> QED
    BY <1>2, <1>3, <2>2, <2>3 DEF Typed
<1>6. CASE WriteThere
  BY <1>1, <1>5, <1>6 DEF WriteThere
<1>7. CASE WriteRecovers
  <2>1. Map(Now.v) \in Todo
    BY <1>1 DEF Map, Todo
  <2>2. <<Map(Now.v)>> \o cpu.todo \in Seq(Todo)
    BY <1>1, <2>1
  <2>3. cpu' = [cpu EXCEPT !.todo = <<Map(Now.v)>> \o cpu.todo]
    BY <1>7 DEF WriteRecovers
  <2> QED
    BY <1>5, <2>2, <2>3
<1> QED
  BY <1>4, <1>6, <1>7 DEF EnterOverruns, WriteOverruns

\* Ends of operations.
LEMMA EndTyped ==
  ASSUME Typed,
         \/ BootEnds \/ ForkEnds \/ ExecEnds \/ ExecFails \/ Returns \/ WriteFaults
         \/ \E p \in Proc : Exit(p)
  PROVE  Typed'
<1>1. CpuTyped' /\ HeapTyped'
  <2>1. cpu' = Idle /\ UNCHANGED kheap_end
    BY DEF BootEnds, ForkEnds, ExecEnds, ExecFails, Returns, WriteFaults, Exit, memVars
  <2>2. CpuTyped' /\ cpu'.grow = 0
    BY <2>1, CpuIdle DEF Idle
  <2> QED
    BY <2>1, <2>2, Bounds DEF Typed, HeapTyped
<1>2. /\ cpu.p \in Directory /\ New \in Directory /\ Empty \in [Virtual -> Page \cup {NoPage}]
      /\ \A p \in Proc : p \in Directory
  BY DEF Typed, CpuTyped, Directory, Empty
<1>3. space[New] \in [Virtual -> Page \cup {NoPage}]
  BY <1>2 DEF Typed, SpaceTyped
<1>4. MaxAddr(cpu.program) \in Address /\ PAGE_ALIGN_UP(MaxAddr(cpu.program)) \in Address
  BY ProgramsAssumption, AlignedUp DEF Typed, CpuTyped
<1>5. \A d \in Directory : Mapped(d) \subseteq Page /\ Freed(d) \subseteq Page
  BY DEF Mapped, Freed, Typed, SpaceTyped
<1>6. \A a, d : cpu' = Idle /\ alive' = a /\ doomed' = d /\ a \subseteq Proc /\ d \subseteq a
                  => Actors'
  BY DEF Actors, Idle
<1>7. alive \subseteq Proc /\ doomed \subseteq alive
  BY DEF Typed, Actors
<1>8. CASE BootEnds
  <2>1. StackRegion \in [start : Address, end : Address]
    <3>1. MAX_STACK_SIZE \in 1..(TOP * PAGE) /\ TOP * PAGE \in Nat /\ LIMIT * PAGE \in Nat
      BY Units, PagesAssumption
    <3>2. TOP * PAGE <= LIMIT * PAGE
      BY Units
    <3> QED
      BY <3>1, <3>2 DEF StackRegion, Address
  <2>2. cpu.p \in Proc /\ alive = {} /\ doomed = {}
    BY <1>8 DEF BootEnds, Ends, Typed, CpuTyped, Actors
  <2>3. SpaceTyped'
    BY <1>2, <1>3, <1>8 DEF BootEnds, Typed, SpaceTyped
  <2>4. regions' \in [Proc -> SUBSET [start : Address, end : Address]]
    BY <1>8, <2>1, <2>2 DEF BootEnds, Typed
  <2>5. brk' \in [Proc -> Address]
    BY <1>4, <1>8, <2>2 DEF BootEnds, Typed
  <2>6. Actors'
    BY <1>6, <1>8, <2>2 DEF BootEnds
  <2> QED
    BY <1>1, <1>8, <2>3, <2>4, <2>5, <2>6 DEF BootEnds, Typed
<1>9. CASE ForkEnds
  <2>1. cpu.p \in Proc
    BY <1>9 DEF ForkEnds, Ends, Typed, CpuTyped
  <2>2. Actors'
    BY <1>6, <1>7, <1>9, <2>1 DEF ForkEnds
  <2>3. SpaceTyped'
    BY <1>9 DEF ForkEnds, memVars, Typed, SpaceTyped
  <2> QED
    BY <1>1, <1>9, <2>2, <2>3 DEF ForkEnds, memVars, Typed
<1>10. CASE ExecEnds
  <2>1. cpu.p \in Proc
    BY <1>10 DEF ExecEnds, Ends, Typed, CpuTyped
  <2>2. SpaceTyped'
    BY <1>2, <1>3, <1>10 DEF ExecEnds, Typed, SpaceTyped
  <2>3. brk' \in [Proc -> Address]
    BY <1>4, <1>10, <2>1 DEF ExecEnds, Typed
  <2>4. Actors'
    BY <1>6, <1>7, <1>10 DEF ExecEnds
  <2> QED
    BY <1>1, <1>2, <1>5, <1>10, <2>2, <2>3, <2>4 DEF ExecEnds, Typed
<1>11. CASE ExecFails
  <2>1. SpaceTyped'
    BY <1>2, <1>11 DEF ExecFails, Typed, SpaceTyped
  <2>2. Actors'
    BY <1>6, <1>7, <1>11 DEF ExecFails, procVars
  <2> QED
    BY <1>1, <1>2, <1>5, <1>11, <2>1, <2>2 DEF ExecFails, procVars, Typed
<1>12. CASE Returns
  <2>1. Actors' /\ SpaceTyped'
    BY <1>6, <1>7, <1>12 DEF Returns, procVars, memVars, Typed, SpaceTyped
  <2> QED
    BY <1>1, <1>12, <2>1 DEF Returns, procVars, memVars, Typed
<1>13. CASE WriteFaults
  <2>1. SpaceTyped'
    BY <1>2, <1>13 DEF WriteFaults, Typed, SpaceTyped
  <2>2. cpu.p \in alive
    BY <1>13 DEF WriteFaults, Typed, Actors
  <2>3. Actors'
    BY <1>6, <1>7, <1>13, <2>2 DEF WriteFaults
  <2> QED
    BY <1>1, <1>2, <1>5, <1>13, <2>1, <2>3 DEF WriteFaults, Typed
<1>14. ASSUME NEW p \in Proc, Exit(p) PROVE Typed'
  <2>1. SpaceTyped'
    BY <1>2, <1>14 DEF Exit, Typed, SpaceTyped
  <2>2. Actors'
    <3>1. cpu' = Idle /\ alive' = alive \ {p} /\ doomed' = doomed \ {p}
      BY <1>14 DEF Exit
    <3> QED
      BY <1>6, <1>7, <3>1
  <2> QED
    BY <1>1, <1>2, <1>5, <1>14, <2>1, <2>2 DEF Exit, Typed
<1> QED
  BY <1>8, <1>9, <1>10, <1>11, <1>12, <1>13, <1>14

LEMMA StackIsTodo == Stack \in Seq(Todo)
<1>1. STACK \in 1..TOP /\ TOP \in Nat \ {0} /\ LIMIT \in Nat /\ TOP < LIMIT
  BY Units, PagesAssumption
<1>2. \A i \in 1..STACK : Map(StackPages[i]) \in Todo
  BY <1>1 DEF StackPages, Map, Todo, Virtual
<1>3. Stack = [i \in 1..STACK |-> Map(StackPages[i])] /\ STACK \in Nat
  BY <1>1 DEF Stack
<1> QED
  BY <1>2, <1>3

\* What brk maps are pages, those round the end of all addresses too.
LEMMA BreakIsTodo ==
  ASSUME NEW old \in Virtual, NEW new \in Virtual
  PROVE  BreakPages(old, new) \in Seq(Todo)
<1>1. old \in Nat /\ new \in Nat /\ old < LIMIT /\ new < LIMIT /\ LIMIT \in Nat \ {0}
  BY Units DEF Virtual
<1>2. CASE new < LIMIT - 1
  <2> DEFINE n == new - old + 1
  <2>1. BreakPages(old, new) = [i \in 1..n |-> Map(old + i - 1)]
    BY <1>2 DEF BreakPages
  <2>2. CASE n <= 0
    <3>1. n \in Int /\ 1..n = {}
      BY <1>1, <2>2
    <3>2. 1..0 = {}
      OBVIOUS
    <3> HIDE DEF n
    <3>3. BreakPages(old, new) = [i \in 1..0 |-> Map(old + i - 1)]
      BY <2>1, <3>1, <3>2, Zenon
    <3> QED
      BY <3>3
  <2>3. CASE n > 0
    <3>1. n \in Nat
      BY <1>1, <2>3
    <3>2. \A i \in 1..n : old + i - 1 \in Virtual
      BY <1>1 DEF Virtual
    <3>3. \A i \in 1..n : Map(old + i - 1) \in Todo
      BY <3>2 DEF Map, Todo
    <3> HIDE DEF n
    <3> QED
      BY <2>1, <3>1, <3>3
  <2> QED
    BY <1>1, <2>2, <2>3
<1>3. CASE ~(new < LIMIT - 1)
  <2> DEFINE n == 2 * LIMIT - old
             page(i) == (old + i - 1) % LIMIT
  <2>1. BreakPages(old, new) = [i \in 1..n |-> Map(page(i))]
    BY <1>3 DEF BreakPages
  <2>2. n \in Nat
    BY <1>1
  <2>3. \A i \in 1..n : page(i) \in Virtual
    <3>1. \A i \in 1..n : old + i - 1 \in Nat
      BY <1>1
    <3>2. \A i \in 1..n : page(i) \in 0..(LIMIT - 1)
      BY <1>1, <3>1, Division
    <3> QED
      BY <3>2 DEF Virtual
  <2> HIDE DEF page, n
  <2>4. \A i \in 1..n : Map(page(i)) \in Todo
    BY <2>3 DEF Map, Todo
  <2> QED
    BY <2>1, <2>2, <2>4
<1> QED
  BY <1>2, <1>3

\* Beginnings of operations.
LEMMA BeginsTyped ==
  ASSUME Typed, NEW op \in {"boot", "fork", "exec", "fault", "brk"},
         NEW p \in Proc, NEW d \in Directory, NEW todo \in Seq(Todo),
         NEW e \in Program \cup {InitProgram}, Begins(op, p, d, todo, e),
         UNCHANGED <<alive, doomed>>,
         op = "exec" => p \in alive, op = "boot" => alive = {}
  PROVE  /\ CpuTyped' /\ HeapTyped' /\ Actors' /\ SpaceTyped'
         /\ UNCHANGED <<used, heap, lost, kernel>>
<1>1. CpuTyped'
  BY CpuBegins
<1>2. UNCHANGED <<used, heap, kheap_end, space, lost, kernel>>
  BY DEF Begins, memVars
<1>3. cpu'.op = op /\ cpu'.p = p /\ cpu'.grow = 0
  BY DEF Begins, Idle
<1>4. Actors'
  BY <1>3 DEF Typed, Actors
<1>5. HeapTyped'
  BY <1>2, <1>3, Bounds DEF Typed, HeapTyped
<1>6. SpaceTyped'
  BY <1>2 DEF Typed, SpaceTyped
<1> QED
  BY <1>1, <1>2, <1>4, <1>5, <1>6

LEMMA BeginTyped ==
  ASSUME Typed, NEW p \in Proc,
         \/ Boot(p)
         \/ \E q \in Proc : kfork(p, q)
         \/ \E e \in Program : kexecv(p, e)
         \/ \E a \in Address : page_fault_error(p, a)
         \/ \E location \in Break : kbrk(p, location)
  PROVE  Typed'
<1>1. New \in Directory /\ \A q \in Proc : q \in Directory
  BY DEF Directory
<1>2. \A e \in Program \cup {InitProgram} : Load(e) \in Seq(Todo)
  BY ProgramsAssumption DEF Todo
<1>3. CASE Boot(p)
  <2>1. Load(InitProgram) \o Stack \in Seq(Todo)
    BY <1>2, StackIsTodo
  <2>2. UNCHANGED <<regions, brk, alive, doomed>> /\ alive = {}
    BY <1>3 DEF Boot, procVars
  <2>3. /\ CpuTyped' /\ HeapTyped' /\ Actors' /\ SpaceTyped'
        /\ UNCHANGED <<used, heap, lost, kernel>>
    BY <1>1, <1>3, <2>1, <2>2, BeginsTyped DEF Boot
  <2> QED
    BY <2>2, <2>3 DEF Typed
<1>4. ASSUME NEW q \in Proc, kfork(p, q) PROVE Typed'
  <2>1. Begins("fork", q, q, PagesOf(p), InitProgram) /\ UNCHANGED <<alive, doomed>>
    BY <1>4 DEF kfork
  <2>2. /\ CpuTyped' /\ HeapTyped' /\ Actors' /\ SpaceTyped'
        /\ UNCHANGED <<used, heap, lost, kernel>>
    BY <1>1, <2>1, PagesOfSound, BeginsTyped
  <2>3. /\ brk' \in [Proc -> Address]
        /\ regions' \in [Proc -> SUBSET [start : Address, end : Address]]
    BY <1>4, PagesAssumption DEF kfork, Typed
  <2> QED
    BY <2>2, <2>3 DEF Typed
<1>5. ASSUME NEW e \in Program, kexecv(p, e) PROVE Typed'
  <2>1. Stack \o (IF e.valid THEN Load(e) ELSE <<>>) \in Seq(Todo)
    BY <1>2, StackIsTodo
  <2>2. UNCHANGED <<regions, brk, alive, doomed>> /\ p \in alive
    BY <1>5 DEF kexecv, procVars, Runs
  <2>3. /\ CpuTyped' /\ HeapTyped' /\ Actors' /\ SpaceTyped'
        /\ UNCHANGED <<used, heap, lost, kernel>>
    BY <1>1, <1>5, <2>1, <2>2, BeginsTyped DEF kexecv
  <2> QED
    BY <2>2, <2>3 DEF Typed
<1>6. ASSUME NEW a \in Address, page_fault_error(p, a) PROVE Typed'
  <2>1. <<Map(PageOf(a))>> \in Seq(Todo)
    BY PageOfAddress DEF Map, Todo
  <2>2. UNCHANGED <<regions, brk, alive, doomed>>
    BY <1>6 DEF page_fault_error, procVars
  <2>3. /\ CpuTyped' /\ HeapTyped' /\ Actors' /\ SpaceTyped'
        /\ UNCHANGED <<used, heap, lost, kernel>>
    BY <1>1, <1>6, <2>1, <2>2, BeginsTyped DEF page_fault_error
  <2> QED
    BY <2>2, <2>3 DEF Typed
<1>7. ASSUME NEW location \in Break, kbrk(p, location) PROVE Typed'
  <2> DEFINE new == PAGE_ALIGN_UP(location)
             low == PageOf(brk[p])
             high == PageOf(new)
  <2>1. brk[p] \in Address /\ location \in Address
    BY PagesAssumption DEF Typed
  <2>2. /\ new \in Address /\ low \in Virtual /\ high \in Virtual
        /\ low * PAGE \in Address /\ high * PAGE \in Address
    BY <2>1, AlignedUp, PageOfAddress
  <2>3. /\ UNCHANGED <<alive, doomed>> /\ brk' = [brk EXCEPT ![p] = new]
        /\ \/ Begins("brk", p, p, <<>>, InitProgram) /\ UNCHANGED regions
           \/ /\ Begins("brk", p, p, BreakPages(low, high), InitProgram)
              /\ regions' = [regions EXCEPT ![p] =
                               @ \cup {[start |-> low * PAGE, end |-> high * PAGE]}]
    BY <1>7, Zenon DEF kbrk
  <2> HIDE DEF new, low, high
  <2>4. PICK todo \in Seq(Todo) : Begins("brk", p, p, todo, InitProgram)
    <3>1. <<>> \in Seq(Todo)
      OBVIOUS
    <3> QED
      BY <2>2, <2>3, <3>1, BreakIsTodo
  <2>5. /\ CpuTyped' /\ HeapTyped' /\ Actors' /\ SpaceTyped'
        /\ UNCHANGED <<used, heap, lost, kernel>>
    BY <1>1, <2>3, <2>4, BeginsTyped
  <2>6. brk' \in [Proc -> Address]
    BY <2>2, <2>3 DEF Typed
  <2>7. regions' \in [Proc -> SUBSET [start : Address, end : Address]]
    BY <2>2, <2>3 DEF Typed
  <2> QED
    BY <2>5, <2>6, <2>7 DEF Typed
<1> QED
  BY <1>3, <1>4, <1>5, <1>6, <1>7

LEMMA NextTyped == Typed /\ [Next]_vars => Typed'
<1>1. CASE Typed /\ UNCHANGED vars
  <2>1. CpuTyped'
    BY <1>1, CpuSame DEF vars
  <2>2. Actors' /\ HeapTyped' /\ SpaceTyped'
    BY <1>1, ActorsSame DEF vars, memVars, procVars, Typed, HeapTyped, SpaceTyped, SameOperation
  <2> QED
    BY <1>1, <2>1, <2>2 DEF vars, memVars, procVars, Typed
<1> QED
  BY <1>1, ChooseTyped, EnterTyped, CopyTyped, GrowTyped, WriteTyped, EndTyped, BeginTyped
     DEF Next

(***************************************************************************)
THEOREM PagesTypeCorrect == Spec => []TypeOK
<1>1. Init => Typed
  BY InitTyped
<1>2. Typed /\ [Next]_vars => Typed'
  BY NextTyped
<1>3. Typed => TypeOK
  BY DEF Typed, CpuTyped, HeapTyped, Actors, SpaceTyped, TypeOK, Todo
<1> QED
  BY <1>1, <1>2, <1>3, PTL DEF Spec

-----------------------------------------------------------------------------
(***************************************************************************)
(* Who owns a page.  One that has been chosen and not been entered is      *)
(* free, unless the heap has taken it since.                               *)
(***************************************************************************)
Chosen ==
  cpu.phys # NoPage =>
    /\ cpu.op # "fork"
    /\ cpu.phys \notin used \/ cpu.phys \in heap

LEMMA NoPageIsNone == NoPage \notin Page /\ Page \subseteq Nat
BY PagesAssumption DEF Page

(***************************************************************************)
(* What an entry, and what a directory that is given up or takes the place *)
(* of another, does to the owners.                                         *)
(***************************************************************************)
LEMMA EnteredKeeps ==
  ASSUME SpaceTyped, OwnedOnce, UNCHANGED heap,
         NEW d \in Directory, NEW v, NEW f \in Page, f \notin used, Entered(d, v, f)
  PROVE  SpaceTyped' /\ OwnedOnce'
<1>1. SpaceTyped'
  BY DEF SpaceTyped, Entered
<1>2. \A e \in Directory, w \in Virtual :
        space'[e][w] = IF e = d /\ w = v THEN f ELSE space[e][w]
  BY DEF SpaceTyped, Entered
<1>3. \A e \in Directory, w \in Virtual :
        space[e][w] # NoPage => space[e][w] \in used
  BY DEF OwnedOnce, Mapped
<1>4. used' = used \cup {f} /\ f # NoPage
  BY NoPageIsNone DEF Entered
<1>5. \A e \in Directory : Mapped(e)' \subseteq Mapped(e) \cup (IF e = d THEN {f} ELSE {})
  BY <1>2 DEF Mapped
<1>6. \A e \in Directory : \A w, x \in Virtual :
        space'[e][w] = space'[e][x] /\ space'[e][w] # NoPage => w = x
  BY <1>2, <1>3, <1>4 DEF OwnedOnce
<1>7. \A e, g \in Directory : e # g => Mapped(e)' \cap Mapped(g)' = {}
  <2>1. SUFFICES ASSUME NEW e \in Directory, NEW g \in Directory, e # g,
                        NEW x, x \in Mapped(e)', x \in Mapped(g)'
                 PROVE  FALSE
    OBVIOUS
  <2>2. x \notin Mapped(e) \/ x \notin Mapped(g)
    BY <2>1 DEF OwnedOnce
  <2>3. f \notin Mapped(e) /\ f \notin Mapped(g)
    BY <1>4 DEF OwnedOnce
  <2> QED
    BY <1>5, <2>1, <2>2, <2>3
<1>8. f \notin heap \cup Fixed
  BY DEF OwnedOnce
<1>9. \A e \in Directory : Mapped(e)' \cap (heap \cup Fixed) = {} /\ Mapped(e)' \subseteq used'
  BY <1>4, <1>5, <1>8 DEF OwnedOnce
<1> QED
  BY <1>1, <1>4, <1>6, <1>7, <1>9 DEF OwnedOnce

\* What each directory maps next it maps already, or directory from[d] did: the
\* directories are moved, none is copied, and that of p is given up.
MovesOff(p, from) ==
  /\ \A d \in Directory :
       space'[d] = Empty \/ (space'[d] = space[from[d]] /\ from[d] # p)
  /\ \A d, e \in Directory :
       d # e /\ space'[d] # Empty /\ space'[e] # Empty => from[d] # from[e]

LEMMA GivenUpKeeps ==
  ASSUME SpaceTyped', OwnedOnce, UNCHANGED heap,
         NEW p \in Directory, used \ Mapped(p) \subseteq used',
         NEW from \in [Directory -> Directory], MovesOff(p, from)
  PROVE  OwnedOnce'
<1>0. /\ \A d \in Directory :
           space'[d] = Empty \/ (space'[d] = space[from[d]] /\ from[d] # p)
      /\ \A d, e \in Directory :
           d # e /\ space'[d] # Empty /\ space'[e] # Empty => from[d] # from[e]
  BY DEF MovesOff
<1>1. \A d \in Directory : space'[d] = Empty => Mapped(d)' = {}
  BY DEF Mapped, Empty
<1>2. \A d \in Directory : space'[d] = space[from[d]] => Mapped(d)' = Mapped(from[d])
  BY DEF Mapped
<1>3. \A d \in Directory : Mapped(d)' = {} \/ (Mapped(d)' = Mapped(from[d]) /\ from[d] # p)
  BY <1>0, <1>1, <1>2
<1>4. \A d \in Directory : \A v, w \in Virtual :
        space'[d][v] = space'[d][w] /\ space'[d][v] # NoPage => v = w
  BY <1>0 DEF OwnedOnce, Empty
<1>5. \A d, e \in Directory : d # e => Mapped(d)' \cap Mapped(e)' = {}
  <2>1. SUFFICES ASSUME NEW d \in Directory, NEW e \in Directory, d # e
                 PROVE  Mapped(d)' \cap Mapped(e)' = {}
    OBVIOUS
  <2>2. CASE space'[d] = Empty \/ space'[e] = Empty
    BY <1>1, <2>2
  <2>3. CASE space'[d] # Empty /\ space'[e] # Empty
    <3>1. from[d] # from[e] /\ Mapped(d)' = Mapped(from[d]) /\ Mapped(e)' = Mapped(from[e])
      BY <1>0, <1>2, <2>1, <2>3
    <3> QED
      BY <3>1 DEF OwnedOnce
  <2> QED
    BY <2>2, <2>3
<1>6. \A d \in Directory : d # p => Mapped(d) \subseteq used'
  BY DEF OwnedOnce
<1>7. \A d \in Directory : Mapped(d)' \cap (heap \cup Fixed) = {} /\ Mapped(d)' \subseteq used'
  BY <1>3, <1>6 DEF OwnedOnce
<1>8. heap \cup Fixed \subseteq used'
  BY DEF OwnedOnce
<1> QED
  BY <1>4, <1>5, <1>7, <1>8 DEF OwnedOnce

LEMMA EmptiedKeeps ==
  ASSUME SpaceTyped, OwnedOnce, UNCHANGED heap,
         NEW p \in Directory, used \ Mapped(p) \subseteq used',
         \A d \in Directory : space'[d] = Empty \/ (space'[d] = space[d] /\ d # p),
         space' \in [Directory -> [Virtual -> Page \cup {NoPage}]]
  PROVE  OwnedOnce'
<1> DEFINE from == [d \in Directory |-> d]
<1>1. from \in [Directory -> Directory] /\ \A d \in Directory : from[d] = d
  OBVIOUS
<1> HIDE DEF from
<1>2. \A d \in Directory :
        space'[d] = Empty \/ (space'[d] = space[from[d]] /\ from[d] # p)
  BY <1>1
<1>3. \A d, e \in Directory :
        d # e /\ space'[d] # Empty /\ space'[e] # Empty => from[d] # from[e]
  BY <1>1
<1>4. SpaceTyped'
  BY DEF SpaceTyped
<1>5. MovesOff(p, from)
  BY <1>2, <1>3 DEF MovesOff
<1> QED
  BY <1>1, <1>4, <1>5, GivenUpKeeps

LEMMA ReplacedKeeps ==
  ASSUME SpaceTyped, OwnedOnce, UNCHANGED heap,
         NEW p \in Directory, used \ Mapped(p) \subseteq used',
         space' = [space EXCEPT ![p] = space[New], ![New] = Empty]
  PROVE  SpaceTyped' /\ OwnedOnce'
<1>1. New \in Directory /\ Empty \in [Virtual -> Page \cup {NoPage}]
  BY DEF Directory, Empty
<1>2. SpaceTyped'
  BY <1>1 DEF SpaceTyped
<1>3. \A d \in Directory :
        space'[d] = IF d = New THEN Empty ELSE IF d = p THEN space[New] ELSE space[d]
  BY <1>1 DEF SpaceTyped
<1> DEFINE from == [d \in Directory |-> IF d = p THEN New ELSE d]
<1>4. /\ from \in [Directory -> Directory]
      /\ \A d \in Directory : from[d] = IF d = p THEN New ELSE d
  BY <1>1
<1> HIDE DEF from
<1>5. \A d \in Directory :
        space'[d] = Empty \/ (space'[d] = space[from[d]] /\ from[d] # p)
  BY <1>3, <1>4
<1>6. \A d, e \in Directory :
        d # e /\ space'[d] # Empty /\ space'[e] # Empty => from[d] # from[e]
  BY <1>3, <1>4
<1>7. MovesOff(p, from)
  BY <1>5, <1>6 DEF MovesOff
<1> QED
  BY <1>2, <1>4, <1>7, GivenUpKeeps

-----------------------------------------------------------------------------
(***************************************************************************)
(* The steps.                                                              *)
(***************************************************************************)

\* When neither pages nor directories change.
LEMMA SameOwners ==
  ASSUME OwnedOnce, UNCHANGED <<used, heap, space>>
  PROVE  OwnedOnce'
BY DEF OwnedOnce, Mapped

LEMMA NothingChosen == ASSUME cpu'.phys = NoPage PROVE Chosen'
BY DEF Chosen

\* Steps of the operation under way.
LEMMA ChosenAtWork ==
  ASSUME Typed, Chosen,
         \/ Choose \/ CopyPage \/ GrowStarts \/ heap_expand
         \/ WriteThere \/ WriteRecovers \/ EnterOverruns \/ WriteOverruns
  PROVE  Chosen'
<1>1. Shape
  BY DEF Typed, CpuTyped
<1>2. CASE Choose
  <2>1. UNCHANGED <<used, heap>> /\ cpu.op # "fork"
    BY <1>2 DEF Choose, Mapping, memVars
  <2>2. CASE UNCHANGED cpu
    BY <2>1, <2>2 DEF Chosen
  <2>3. ASSUME NEW f \in Found, NEW g, f \notin used, cpu' = [cpu EXCEPT !.phys = f, !.grow = g]
        PROVE  Chosen'
    <3>1. cpu'.phys = f /\ cpu'.op = cpu.op
      BY <1>1, <2>3 DEF Shape
    <3> QED
      BY <2>1, <2>3, <3>1 DEF Chosen
  <2> QED
    BY <1>2, <2>2, <2>3 DEF Choose
<1>3. CASE CopyPage
  <2>1. cpu.phys = NoPage
    BY <1>3 DEF CopyPage, Chosen
  <2>2. cpu' = cpu \/ cpu' = [cpu EXCEPT !.todo = Tail(@)]
    BY <1>3 DEF CopyPage
  <2>3. cpu'.phys = NoPage
    BY <1>1, <2>1, <2>2 DEF Shape
  <2> QED
    BY <2>3, NothingChosen
<1>4. CASE GrowStarts
  <2>1. cpu'.phys = NoPage
    BY <1>1, <1>4 DEF GrowStarts, Shape
  <2> QED
    BY <2>1, NothingChosen
<1>5. CASE heap_expand
  <2>1. cpu'.phys = cpu.phys /\ cpu'.op = cpu.op
    BY <1>1, <1>5 DEF heap_expand, Shape
  <2>2. \/ UNCHANGED <<used, heap>>
        \/ \E f \in Found : heap' = heap \cup {f} /\ used' = used \cup {f}
    BY <1>5 DEF heap_expand
  <2> QED
    BY <2>1, <2>2 DEF Chosen
<1>6. CASE WriteThere \/ WriteRecovers
  <2>1. cpu'.phys = NoPage
    BY <1>1, <1>6 DEF WriteThere, WriteRecovers, Writing, Shape
  <2> QED
    BY <2>1, NothingChosen
<1>7. CASE EnterOverruns \/ WriteOverruns
  BY <1>7 DEF EnterOverruns, WriteOverruns, memVars, Chosen
<1> QED
  BY <1>2, <1>3, <1>4, <1>5, <1>6, <1>7

\* Beginnings and ends of operations, and Enter.
LEMMA ChosenOnce ==
  ASSUME Typed,
         \/ Enter \/ BootEnds \/ ForkEnds \/ ExecEnds \/ ExecFails \/ Returns \/ WriteFaults
         \/ \E p \in Proc :
              \/ Boot(p)
              \/ Exit(p)
              \/ \E q \in Proc : kfork(p, q)
              \/ \E e \in Program : kexecv(p, e)
              \/ \E a \in Address : page_fault_error(p, a)
              \/ \E location \in Break : kbrk(p, location)
  PROVE  Chosen'
<1>1. Shape
  BY DEF Typed, CpuTyped
<1>2. CASE Enter
  <2>1. cpu'.phys = NoPage
    BY <1>1, <1>2 DEF Enter, Shape
  <2> QED
    BY <2>1, NothingChosen
<1>3. CASE cpu' = Idle
  BY <1>3, NothingChosen DEF Idle
<1>4. ASSUME NEW op, NEW p, NEW d, NEW todo, NEW e, Begins(op, p, d, todo, e)
      PROVE  Chosen'
  BY <1>4, NothingChosen DEF Begins, Idle
<1>5. ASSUME NEW p, NEW location, kbrk(p, location) PROVE Chosen'
  <2>1. \E todo : Begins("brk", p, p, todo, InitProgram)
    BY <1>5, Zenon DEF kbrk
  <2> QED
    BY <1>4, <2>1
<1>6. CASE BootEnds \/ ForkEnds \/ ExecEnds \/ ExecFails \/ Returns \/ WriteFaults
  BY <1>3, <1>6 DEF BootEnds, ForkEnds, ExecEnds, ExecFails, Returns, WriteFaults
<1>7. ASSUME NEW p \in Proc, Exit(p) PROVE Chosen'
  BY <1>3, <1>7 DEF Exit
<1>8. ASSUME NEW p \in Proc,
             \/ Boot(p)
             \/ \E q \in Proc : kfork(p, q)
             \/ \E e \in Program : kexecv(p, e)
             \/ \E a \in Address : page_fault_error(p, a)
      PROVE  Chosen'
  BY <1>4, <1>8 DEF Boot, kfork, kexecv, page_fault_error
<1> QED
  BY <1>2, <1>5, <1>6, <1>7, <1>8

LEMMA ChosenKept == Typed /\ Chosen /\ [Next]_vars => Chosen'
<1>1. CASE Chosen /\ UNCHANGED vars
  BY <1>1 DEF vars, memVars, Chosen
<1> QED
  BY <1>1, ChosenAtWork, ChosenOnce DEF Next

\* A page that is entered was chosen, and the heap may have taken it.
LEMMA EnterOwners ==
  ASSUME Typed, Chosen, OwnedOnce, Enter
  PROVE  OwnedOnce' \/ TakenTwice
<1>1. /\ cpu.d \in Directory /\ cpu.phys \in Page /\ UNCHANGED heap
      /\ SpaceTyped
  BY DEF Typed, CpuTyped, Enter
<1>2. CASE cpu.phys \in heap
  BY <1>2 DEF TakenTwice
<1>3. CASE cpu.phys \notin used /\ Entered(Where(cpu.d, Now.v), Now.v, cpu.phys)
  <2>1. Where(cpu.d, Now.v) \in Directory
    BY <1>1, WhereIs
  <2> QED
    BY <1>1, <1>3, <2>1, EnteredKeeps
<1>4. CASE UNCHANGED <<space, used>>
  BY <1>1, <1>4, SameOwners
<1> QED
  BY <1>2, <1>3, <1>4 DEF Enter, Chosen

LEMMA CopyOwners ==
  ASSUME Typed, OwnedOnce, CopyPage
  PROVE  OwnedOnce' \/ TakenTwice
<1>1. cpu.d \in Directory /\ UNCHANGED heap /\ SpaceTyped
  BY DEF Typed, CpuTyped, CopyPage
<1>2. CASE Probe(0) \notin Usable
  BY <1>2 DEF TakenTwice
<1>3. ASSUME Probe(0) \in Usable, NEW f \in Found, Entered(cpu.d, Now.v, f)
      PROVE  OwnedOnce'
  <2>1. f \in Page /\ f \notin used
    BY <1>3, FoundIsFree
  <2> QED
    BY <1>1, <1>3, <2>1, EnteredKeeps
<1>4. CASE UNCHANGED <<space, used>>
  BY <1>1, <1>4, SameOwners
<1> QED
  BY <1>2, <1>3, <1>4 DEF CopyPage

LEMMA HeapOwners ==
  ASSUME OwnedOnce, heap_expand
  PROVE  OwnedOnce'
<1>1. ASSUME NEW f \in Found, f \notin used, heap' = heap \cup {f}, used' = used \cup {f},
             UNCHANGED space
      PROVE  OwnedOnce'
  <2>1. \A d \in Directory : Mapped(d)' = Mapped(d) /\ f \notin Mapped(d)
    BY <1>1 DEF Mapped, OwnedOnce
  <2>2. f \notin Fixed
    BY <1>1 DEF OwnedOnce
  <2> QED
    BY <1>1, <2>1, <2>2 DEF OwnedOnce
<1>2. CASE UNCHANGED <<used, heap, space>>
  BY <1>2, SameOwners
<1> QED
  BY <1>1, <1>2 DEF heap_expand

\* A directory is emptied.
LEMMA EmptiedOwners ==
  ASSUME SpaceTyped, OwnedOnce, NEW p \in Directory, used \ Mapped(p) \subseteq used',
         space' = [space EXCEPT ![p] = Empty], UNCHANGED heap
  PROVE  OwnedOnce'
<1>1. \A d \in Directory : space'[d] = IF d = p THEN Empty ELSE space[d]
  BY DEF SpaceTyped
<1>2. space' \in [Directory -> [Virtual -> Page \cup {NoPage}]]
  BY DEF SpaceTyped, Empty
<1> QED
  BY <1>1, <1>2, EmptiedKeeps

LEMMA EndOwners ==
  ASSUME Typed, OwnedOnce,
         \/ BootEnds \/ ForkEnds \/ ExecEnds \/ ExecFails \/ Returns \/ WriteFaults
         \/ \E p \in Proc : Exit(p)
  PROVE  OwnedOnce'
<1>1. /\ SpaceTyped /\ cpu.p \in Directory /\ New \in Directory
      /\ \A p \in Proc : p \in Directory
  BY DEF Typed, CpuTyped, Directory
<1>2. CASE BootEnds
  BY <1>1, <1>2, ReplacedKeeps DEF BootEnds
<1>3. CASE ExecEnds
  BY <1>1, <1>3, ReplacedKeeps DEF ExecEnds, Freed
<1>4. CASE ForkEnds \/ Returns
  BY <1>4, SameOwners DEF ForkEnds, Returns, memVars
<1>5. CASE ExecFails \/ WriteFaults
  BY <1>1, <1>5, EmptiedOwners DEF ExecFails, WriteFaults, Freed
<1>6. ASSUME NEW p \in Proc, Exit(p) PROVE OwnedOnce'
  BY <1>1, <1>6, EmptiedOwners DEF Exit, Freed
<1> QED
  BY <1>2, <1>3, <1>4, <1>5, <1>6

\* Beginnings of operations, and steps that enter nothing.
LEMMA OtherOwners ==
  ASSUME OwnedOnce,
         \/ Choose \/ GrowStarts \/ EnterOverruns
         \/ WriteThere \/ WriteRecovers \/ WriteOverruns
         \/ \E p \in Proc :
              \/ Boot(p)
              \/ \E q \in Proc : kfork(p, q)
              \/ \E e \in Program : kexecv(p, e)
              \/ \E a \in Address : page_fault_error(p, a)
              \/ \E location \in Break : kbrk(p, location)
  PROVE  OwnedOnce'
<1>1. CASE UNCHANGED memVars
  BY <1>1, SameOwners DEF memVars
<1>2. \A op, p, d, todo, e : Begins(op, p, d, todo, e) => UNCHANGED memVars
  BY DEF Begins
<1>3. ASSUME NEW p, NEW location, kbrk(p, location) PROVE UNCHANGED memVars
  <2>1. \E todo : Begins("brk", p, p, todo, InitProgram)
    BY <1>3, Zenon DEF kbrk
  <2> QED
    BY <1>2, <2>1
<1>4. CASE \/ Choose \/ GrowStarts \/ EnterOverruns
           \/ WriteThere \/ WriteRecovers \/ WriteOverruns
  BY <1>1, <1>4 DEF Choose, GrowStarts, EnterOverruns, WriteThere, WriteRecovers, WriteOverruns
<1>5. ASSUME NEW p \in Proc,
             \/ Boot(p)
             \/ \E q \in Proc : kfork(p, q)
             \/ \E e \in Program : kexecv(p, e)
             \/ \E a \in Address : page_fault_error(p, a)
      PROVE  UNCHANGED memVars
  BY <1>2, <1>5 DEF Boot, kfork, kexecv, page_fault_error
<1> QED
  BY <1>1, <1>3, <1>4, <1>5

LEMMA StepOwners ==
  ASSUME Typed, Chosen, OwnedOnce, [Next]_vars
  PROVE  OwnedOnce' \/ TakenTwice
<1>1. CASE UNCHANGED vars
  BY <1>1, SameOwners DEF vars, memVars
<1> QED
  BY <1>1, EnterOwners, CopyOwners, HeapOwners, EndOwners, OtherOwners DEF Next

LEMMA InitOwners == Init => OwnedOnce /\ Chosen
<1>1. SUFFICES ASSUME Init PROVE OwnedOnce /\ Chosen
  OBVIOUS
<1>2. FirstHeap \subseteq Usable \ Fixed
  BY DEF FirstHeap
<1>3. \A d \in Directory : Mapped(d) = {}
  BY <1>1 DEF Init, Mapped, Empty
<1>4. \A d \in Directory, v \in Virtual : space[d][v] = NoPage
  BY <1>1 DEF Init, Empty
<1>5. OwnedOnce
  BY <1>1, <1>2, <1>3, <1>4 DEF Init, OwnedOnce
<1>6. Chosen
  BY <1>1 DEF Init, Idle, Chosen
<1> QED
  BY <1>5, <1>6

(***************************************************************************)
(* A page gets a second user in two steps only, whatever memory, programs  *)
(* and calls there are (memory.c:90-144, 402-428, 556-650): when it is     *)
(* entered after the heap has taken it, and when a fork copies to what the *)
(* search has found behind a page that is not usable.                      *)
(***************************************************************************)
THEOREM PagesOwnedOnce == Spec => OwnedOnceBut
<1>1. Init => Typed /\ Chosen /\ OwnedOnce
  BY InitTyped, InitOwners
<1>2. Typed /\ Chosen /\ [Next]_vars => (Typed /\ Chosen)'
  BY NextTyped, ChosenKept
<1>3. Typed /\ Chosen /\ [Next]_vars => [OwnedOnce /\ ~OwnedOnce' => TakenTwice]_vars
  BY StepOwners
<1> QED
  BY <1>1, <1>2, <1>3, PTL DEF Spec, OwnedOnceBut

(***************************************************************************)
(* The kernel stops for want of memory only when all free usable memory is *)
(* behind a free page that is not usable (memory.c:402-428), whatever      *)
(* memory, programs and calls there are: without such a page, only when    *)
(* there is none.                                                          *)
(***************************************************************************)
THEOREM StopsOnlyWithoutMemory == Spec => []StopsOnlyAtAHole
<1>1. Init => StopsOnlyAtAHole
  BY DEF Init, StopsOnlyAtAHole
<1>2. StopsOnlyAtAHole /\ [Next]_vars => StopsOnlyAtAHole'
  <2>1. SUFFICES ASSUME StopsOnlyAtAHole, [Next]_vars, kernel' \in {"panic", "hang"}
                 PROVE  StopsOnlyAtAHole'
    BY DEF StopsOnlyAtAHole
  <2>2. CASE UNCHANGED <<used, kernel>>
    BY <2>1, <2>2 DEF StopsOnlyAtAHole
  <2>3. ASSUME NEW how, Refused(how), UNCHANGED used
        PROVE  StopsOnlyAtAHole'
    BY <2>3, StoppedByHole DEF StopsOnlyAtAHole
  <2>4. CASE Choose \/ CopyPage \/ heap_expand
    <3>1. kernel = "run"
      BY <2>4 DEF Choose, Mapping, CopyPage, heap_expand
    <3>2. UNCHANGED used /\ \E how : Refused(how)
      BY <2>1, <2>4, <3>1 DEF Choose, CopyPage, heap_expand, Refused, memVars
    <3> QED
      BY <2>3, <3>2
  <2>5. \A op, p, d, todo, e : Begins(op, p, d, todo, e) => UNCHANGED kernel /\ kernel = "run"
    BY DEF Begins
  <2>6. ASSUME NEW p, NEW location, kbrk(p, location)
        PROVE  UNCHANGED kernel /\ kernel = "run"
    <3>1. \E todo : Begins("brk", p, p, todo, InitProgram)
      BY <2>6, Zenon DEF kbrk
    <3> QED
      BY <2>5, <3>1
  <2>7. ASSUME NEW p \in Proc,
               \/ Boot(p)
               \/ Exit(p)
               \/ \E q \in Proc : kfork(p, q)
               \/ \E e \in Program : kexecv(p, e)
               \/ \E a \in Address : page_fault_error(p, a)
        PROVE  UNCHANGED kernel /\ kernel = "run"
    BY <2>5, <2>7 DEF Boot, Exit, kfork, kexecv, page_fault_error
  <2>8. CASE \/ Enter \/ GrowStarts \/ BootEnds \/ ForkEnds \/ ExecEnds \/ ExecFails
             \/ Returns \/ WriteThere \/ WriteRecovers \/ WriteFaults
    BY <2>1, <2>8 DEF Enter, GrowStarts, BootEnds, ForkEnds, ExecEnds, ExecFails, Returns,
       WriteThere, WriteRecovers, WriteFaults, Writing, Mapping, Ends
  <2>9. CASE EnterOverruns \/ WriteOverruns
    BY <2>1, <2>9 DEF EnterOverruns, WriteOverruns
  <2> QED
    BY <2>1, <2>2, <2>4, <2>6, <2>7, <2>8, <2>9 DEF Next, vars, memVars
<1> QED
  BY <1>1, <1>2, PTL DEF Spec

-----------
(***************************************************************************)
(* What every step keeps so that no page is lost: a directory is empty     *)
(* before it is filled, an entry is empty before it is made, and a program *)
(* is never replaced by a directory that is not New.                       *)
(***************************************************************************)
Whose ==
  /\ cpu.op \in {"boot", "exec"} => cpu.d = New
  /\ cpu.op \in {"fork", "fault", "brk"} => cpu.d = cpu.p
  /\ cpu.op \in {"fault", "brk"} => cpu.p \in alive
  /\ cpu.op = "none" => cpu.todo = <<>>

Forking ==
  cpu.op = "fork" =>
    /\ cpu.p \notin alive
    /\ \A i, j \in DOMAIN cpu.todo : cpu.todo[i].v = cpu.todo[j].v => i = j
    /\ \A i \in DOMAIN cpu.todo : space[cpu.d][cpu.todo[i].v] = NoPage

Vacant ==
  /\ cpu.op \notin {"boot", "exec"} => space[New] = Empty
  /\ \A p \in Proc \ alive : space[p] = Empty \/ (cpu.op = "fork" /\ cpu.p = p)

Whole == Typed /\ Whose /\ Forking /\ Vacant /\ NothingLost

LEMMA InitWhole == Init => Whole
<1>1. SUFFICES ASSUME Init PROVE Whole
  OBVIOUS
<1>2. Typed
  BY <1>1, InitTyped
<1>3. Whose /\ Forking
  BY <1>1 DEF Init, Idle, Whose, Forking
<1>4. Vacant
  BY <1>1 DEF Init, Vacant, Directory
<1>5. NothingLost
  BY <1>1 DEF Init, NothingLost
<1> QED
  BY <1>2, <1>3, <1>4, <1>5 DEF Whole

\* An entry that was empty: whatever had a user has it still.
LEMMA EnteredLosesNothing ==
  ASSUME Typed, NothingLost, UNCHANGED <<heap, lost>>,
         NEW d \in Directory, NEW v \in Virtual, NEW f \in Page,
         space[d][v] = NoPage, Entered(d, v, f)
  PROVE  NothingLost'
<1>1. \A e \in Directory, w \in Virtual :
        space'[e][w] = IF e = d /\ w = v THEN f ELSE space[e][w]
  BY DEF Typed, SpaceTyped, Entered
<1>2. \A e \in Directory : Mapped(e) \subseteq Mapped(e)'
  BY <1>1 DEF Mapped
<1>3. f \in Mapped(d)'
  <2>1. f # NoPage
    BY PagesAssumption DEF Page
  <2> QED
    BY <1>1, <2>1 DEF Mapped
<1>4. used' = used \cup {f}
  BY DEF Entered
<1> QED
  BY <1>2, <1>3, <1>4 DEF NothingLost

\* Pages change as little as the directories do.
LEMMA SameLosesNothing ==
  ASSUME NothingLost, UNCHANGED <<used, heap, space, lost>>
  PROVE  NothingLost'
BY DEF NothingLost, Mapped

\* Steps in which only the record of the operation changes.
LEMMA RecordWhole ==
  ASSUME Whole, Typed', UNCHANGED <<used, heap, space, alive, lost>>, SameOperation,
         cpu.op \in {"none", "fork"} => cpu'.todo = cpu.todo
  PROVE  Whole'
<1>1. Whose' /\ Vacant'
  BY DEF Whole, Whose, Vacant, SameOperation
<1>2. Forking'
  BY DEF Whole, Forking, SameOperation
<1> QED
  BY <1>1, <1>2, SameLosesNothing DEF Whole

LEMMA ChooseWhole == ASSUME Whole, Choose PROVE Whole'
<1>1. Typed' /\ Shape
  BY ChooseTyped DEF Whole, Typed, CpuTyped
<1>2. SameOperation /\ cpu'.todo = cpu.todo
  <2>1. CASE UNCHANGED cpu
    BY <2>1 DEF SameOperation
  <2>2. CASE \E f, g : cpu' = [cpu EXCEPT !.phys = f, !.grow = g]
    BY <1>1, <2>2 DEF Shape, SameOperation
  <2> QED
    BY <2>1, <2>2 DEF Choose
<1> QED
  BY <1>1, <1>2, RecordWhole DEF Choose, memVars, procVars

LEMMA GrowStartsWhole == ASSUME Whole, GrowStarts PROVE Whole'
<1>1. Typed' /\ Shape
  BY GrowTyped DEF Whole, Typed, CpuTyped
<1>2. SameOperation /\ cpu'.todo = cpu.todo
  BY <1>1 DEF Shape, GrowStarts, SameOperation
<1> QED
  BY <1>1, <1>2, RecordWhole DEF GrowStarts, memVars, procVars

LEMMA WriteWhole ==
  ASSUME Whole, WriteThere \/ WriteRecovers \/ EnterOverruns \/ WriteOverruns
  PROVE  Whole'
<1>1. Typed' /\ Shape
  BY WriteTyped DEF Whole, Typed, CpuTyped
<1>2. SameOperation
  BY <1>1 DEF WriteThere, WriteRecovers, EnterOverruns, WriteOverruns, Shape, SameOperation
<1>3. cpu.op \notin {"none", "fork"}
  BY DEF WriteThere, WriteRecovers, EnterOverruns, WriteOverruns, Writing, Mapping, Whole, Whose
<1>4. UNCHANGED <<used, heap, space, alive, lost>>
  BY DEF WriteThere, WriteRecovers, EnterOverruns, WriteOverruns, memVars, procVars
<1> QED
  BY <1>1, <1>2, <1>3, <1>4, RecordWhole

LEMMA HeapExpandWhole == ASSUME Whole, heap_expand PROVE Whole'
<1>1. Typed' /\ Shape /\ UNCHANGED <<space, alive, lost>>
  BY GrowTyped DEF heap_expand, procVars, Whole, Typed, CpuTyped
<1>2. CASE \E f \in Found : heap' = heap \cup {f} /\ used' = used \cup {f}
                            /\ cpu' = [cpu EXCEPT !.grow = @ - 1]
  <2>1. SameOperation /\ cpu'.todo = cpu.todo
    BY <1>1, <1>2 DEF Shape, SameOperation
  <2>2. Whose' /\ Vacant' /\ Forking'
    BY <1>1, <2>1 DEF Whole, Whose, Vacant, Forking, SameOperation
  <2>3. NothingLost'
    BY <1>1, <1>2 DEF Whole, NothingLost, Mapped
  <2> QED
    BY <1>1, <2>2, <2>3 DEF Whole
<1>3. CASE UNCHANGED <<cpu, heap, used>>
  BY <1>1, <1>3, RecordWhole DEF SameOperation
<1> QED
  BY <1>2, <1>3 DEF heap_expand

LEMMA EnterWhole == ASSUME Whole, Enter PROVE Whole'
<1>1. Typed' /\ Shape
  BY EnterTyped DEF Whole, Typed, CpuTyped
<1>2. SameOperation
  BY <1>1 DEF Shape, Enter, SameOperation
<1>3. cpu.op \in {"boot", "exec", "fault", "brk"}
  BY DEF Enter, Mapping, Whole, Whose, Typed, CpuTyped
<1>4. UNCHANGED <<heap, alive, lost>>
  BY DEF Enter, procVars
<1>5. CASE UNCHANGED <<space, used>>
  BY <1>1, <1>2, <1>3, <1>4, <1>5, RecordWhole
<1> DEFINE d == Where(cpu.d, Now.v)
<1>6. CASE space[d][Now.v] = NoPage /\ Entered(d, Now.v, cpu.phys)
  <2>1. Now.v \in Virtual /\ cpu.d \in Directory /\ cpu.phys \in Page
    BY TodoTail DEF Enter, Mapping, Whole, Typed, CpuTyped, Todo
  <2>2. d \in Directory
    BY <2>1, WhereIs
  <2>3. d \in {cpu.d, Half}
    BY DEF Where
  <2> HIDE DEF d
  <2>4. NothingLost'
    BY <1>4, <1>6, <2>1, <2>2, EnteredLosesNothing DEF Whole
  <2>5. Whose' /\ Forking'
    BY <1>2, <1>3, <1>4 DEF Whole, Whose, Forking, SameOperation
  <2>6. \A e \in Directory : e # d => space'[e] = space[e]
    BY <1>6 DEF Entered, Whole, Typed, SpaceTyped
  <2>7. New \in Directory /\ New # Half /\ \A p \in Proc : p \in Directory /\ p # New /\ p # Half
    BY NewAssumption DEF Directory, New, Half
  <2>8. CASE cpu.op \in {"boot", "exec"}
    <3>1. cpu.d = New
      BY <2>8 DEF Whole, Whose
    <3>2. \A p \in Proc : space'[p] = space[p]
      BY <2>3, <2>6, <2>7, <3>1
    <3>3. Vacant'
      BY <1>2, <1>4, <2>8, <3>2 DEF Whole, Vacant, SameOperation
    <3> QED
      BY <1>1, <2>4, <2>5, <3>3 DEF Whole
  <2>9. CASE cpu.op \in {"fault", "brk"}
    <3>1. cpu.d \in alive /\ cpu.d \in Proc
      BY <2>9 DEF Whole, Whose, Typed, Actors
    <3>2. space'[New] = space[New] /\ \A p \in Proc \ alive : space'[p] = space[p]
      BY <2>3, <2>6, <2>7, <3>1
    <3>3. Vacant'
      BY <1>2, <1>4, <2>9, <3>2 DEF Whole, Vacant, SameOperation
    <3> QED
      BY <1>1, <2>4, <2>5, <3>3 DEF Whole
  <2> QED
    BY <1>3, <2>8, <2>9
<1> QED
  BY <1>5, <1>6 DEF Enter, There, Entry

\* The pages that are left to copy are others than the one that was copied.
LEMMA CopyPageWhole == ASSUME Whole, CopyPage PROVE Whole'
<1>1. Typed' /\ Shape
  BY CopyTyped DEF Whole, Typed, CpuTyped
<1>2. ASSUME NEW f \in Found, Entered(cpu.d, Now.v, f), cpu' = [cpu EXCEPT !.todo = Tail(@)]
      PROVE  Whole'
  <2>1. cpu'.todo = Tail(cpu.todo)
    BY <1>1, <1>2 DEF Shape
  <2>2. /\ cpu'.op = cpu.op /\ cpu'.p = cpu.p /\ cpu'.d = cpu.d
        /\ cpu'.todo = Tail(cpu.todo) /\ cpu.op = "fork"
    BY <1>1, <1>2, <2>1 DEF Shape, CopyPage
  <2>3. /\ Now.v \in Virtual /\ cpu.d \in Directory /\ f \in Page
        /\ cpu.todo \in Seq(Todo) /\ cpu.todo # <<>>
    BY FoundIsUsable, TodoTail DEF CopyPage, Whole, Typed, CpuTyped, Todo
  <2>4. /\ cpu.p \notin alive /\ 1 \in DOMAIN cpu.todo /\ Now = cpu.todo[1]
        /\ \A i, j \in DOMAIN cpu.todo : cpu.todo[i].v = cpu.todo[j].v => i = j
        /\ \A i \in DOMAIN cpu.todo : space[cpu.d][cpu.todo[i].v] = NoPage
    BY <2>2, <2>3 DEF Whole, Forking, Now
  <2>5. UNCHANGED <<heap, alive, lost>>
    BY DEF CopyPage, procVars
  <2>6. NothingLost'
    BY <1>2, <2>3, <2>4, <2>5, EnteredLosesNothing DEF Whole
  <2>7. Whose'
    BY <2>2, <2>5 DEF Whole, Whose
  <2>8. \A d \in Directory : d # cpu.d => space'[d] = space[d]
    BY <1>2 DEF Entered, Whole, Typed, SpaceTyped
  <2>9. Vacant'
    <3>1. cpu.d = cpu.p /\ cpu.p \in Proc /\ cpu.p # New
      BY <2>2, NewAssumption DEF Whole, Whose, Typed, CpuTyped
    <3>2. New \in Directory /\ \A p \in Proc : p \in Directory
      BY DEF Directory
    <3> QED
      BY <2>2, <2>5, <2>8, <3>1, <3>2 DEF Whole, Vacant
  <2>10. Forking'
    <3>1. \A i \in DOMAIN Tail(cpu.todo) :
            /\ Tail(cpu.todo)[i] = cpu.todo[i + 1]
            /\ i + 1 \in DOMAIN cpu.todo /\ i + 1 # 1 /\ i \in Int
      BY <2>3
    <3>2. \A i \in DOMAIN Tail(cpu.todo) :
            Tail(cpu.todo)[i].v # Now.v /\ space[cpu.d][Tail(cpu.todo)[i].v] = NoPage
      BY <2>4, <3>1
    <3>3. \A w : w # Now.v => space'[cpu.d][w] = space[cpu.d][w]
      BY <1>2, <2>3 DEF Entered, Whole, Typed, SpaceTyped
    <3>4. \A i, j \in DOMAIN Tail(cpu.todo) :
            Tail(cpu.todo)[i].v = Tail(cpu.todo)[j].v => i = j
      BY <2>4, <3>1
    <3>5. cpu'.p \notin alive'
      BY <2>2, <2>4, <2>5
    <3>6. \A i \in DOMAIN cpu'.todo : space'[cpu'.d][cpu'.todo[i].v] = NoPage
      BY <2>2, <3>2, <3>3
    <3>7. \A i, j \in DOMAIN cpu'.todo : cpu'.todo[i].v = cpu'.todo[j].v => i = j
      BY <2>2, <3>4
    <3> QED
      BY <3>5, <3>6, <3>7 DEF Forking
  <2> QED
    BY <1>1, <2>6, <2>7, <2>9, <2>10 DEF Whole
<1>3. CASE UNCHANGED <<cpu, space, used>>
  BY <1>1, <1>3, RecordWhole DEF CopyPage, procVars, SameOperation
<1> QED
  BY <1>2, <1>3 DEF CopyPage

(***************************************************************************)
(* Operations.                                                             *)
(***************************************************************************)

\* Between operations nothing is under way.
LEMMA IdleWhole ==
  ASSUME cpu' = Idle, space'[New] = Empty, \A p \in Proc \ alive' : space'[p] = Empty
  PROVE  Whose' /\ Forking' /\ Vacant'
BY DEF Idle, Whose, Forking, Vacant

LEMMA BeginsWhole ==
  ASSUME Whole, Typed', UNCHANGED <<used, space, alive>>,
         NEW op, NEW p, NEW d, NEW todo, NEW e, Begins(op, p, d, todo, e), op # "fork",
         \/ op = "boot" /\ d = New /\ alive = {}
         \/ op = "exec" /\ d = New /\ p \in alive
         \/ op \in {"fault", "brk"} /\ d = p /\ p \in alive
  PROVE  Whole'
<1>1. cpu'.op = op /\ cpu'.p = p /\ cpu'.d = d /\ cpu'.todo = todo
  BY DEF Begins, Idle
<1>2. space[New] = Empty /\ \A q \in Proc \ alive : space[q] = Empty
  BY DEF Begins, Idle, Whole, Vacant
<1>3. Whose' /\ Forking' /\ Vacant'
  BY <1>1, <1>2 DEF Whose, Forking, Vacant
<1>4. NothingLost'
  BY SameLosesNothing DEF Begins, memVars, Whole
<1> QED
  BY <1>3, <1>4 DEF Whole

LEMMA ForkWhole ==
  ASSUME Whole, NEW p \in Proc, NEW q \in Proc, kfork(p, q), Typed'
  PROVE  Whole'
<1>1. /\ cpu'.op = "fork" /\ cpu'.p = q /\ cpu'.d = q /\ cpu'.todo = PagesOf(p)
      /\ UNCHANGED <<used, heap, space, alive, lost>> /\ q \notin alive /\ cpu.op = "none"
  BY DEF kfork, Begins, Idle, memVars
<1>2. space[New] = Empty /\ \A r \in Proc \ alive : space[r] = Empty
  BY <1>1 DEF Whole, Vacant
<1>3. Whose' /\ Vacant'
  BY <1>1, <1>2 DEF Whose, Vacant
<1>4. Forking'
  <2>1. DOMAIN PagesOf(p) = 1..Len(PagesOf(p))
    BY PagesOfSound
  <2>2. \A i \in DOMAIN PagesOf(p) : PagesOf(p)[i].v \in Virtual
    BY <2>1, PagesOfSound DEF Held
  <2>3. \A i, j \in DOMAIN PagesOf(p) : PagesOf(p)[i].v = PagesOf(p)[j].v => i = j
    BY <2>1, PagesOfSound, Zenon
  <2>4. \A v \in Virtual : space[q][v] = NoPage
    BY <1>1, <1>2 DEF Empty
  <2> QED
    BY <1>1, <2>2, <2>3, <2>4 DEF Forking
<1>5. NothingLost'
  BY <1>1, SameLosesNothing DEF Whole
<1> QED
  BY <1>3, <1>4, <1>5 DEF Whole

\* New takes the place of a directory that was empty, or whose pages are freed.
LEMMA ReplacedWhole ==
  ASSUME Whole, cpu.p \in Proc, UNCHANGED <<heap, lost>>, cpu' = Idle, Typed',
         cpu.op \in {"boot", "exec"}, used' \subseteq used,
         used' \cap Mapped(cpu.p) = {} \/ space[cpu.p] = Empty,
         space' = [space EXCEPT ![cpu.p] = space[New], ![New] = Empty],
         alive' = alive \cup {cpu.p}
  PROVE  Whole'
<1>1. /\ New \in Directory /\ cpu.p \in Directory /\ cpu.p # New
      /\ \A p \in Proc : p \in Directory /\ p # New
  BY NewAssumption DEF Directory
<1>2. \A d \in Directory :
        space'[d] = IF d = New THEN Empty ELSE IF d = cpu.p THEN space[New] ELSE space[d]
  BY <1>1 DEF Whole, Typed, SpaceTyped
<1>3. Whose' /\ Forking' /\ Vacant'
  <2>1. \A p \in Proc \ alive' : space'[p] = Empty
    BY <1>1, <1>2 DEF Whole, Vacant
  <2> QED
    BY <1>1, <1>2, <2>1, IdleWhole
<1>4. space'[cpu.p] = space[New]
  BY <1>1, <1>2, Zenon
<1>5. \A d \in Directory : d # New /\ d # cpu.p => space'[d] = space[d]
  BY <1>2
<1>6. \A d \in Directory : space'[d] = space[New] => Mapped(d)' = Mapped(New)
  BY DEF Mapped
<1>7. \A d \in Directory : space'[d] = space[d] => Mapped(d)' = Mapped(d)
  BY DEF Mapped
<1>8. used' \cap Mapped(cpu.p) = {}
  BY DEF Mapped, Empty
<1>9. \A f \in used', d \in Directory : f \in Mapped(d) => \E e \in Directory : f \in Mapped(e)'
  <2>1. SUFFICES ASSUME NEW f \in used', NEW d \in Directory, f \in Mapped(d)
                 PROVE  \E e \in Directory : f \in Mapped(e)'
    OBVIOUS
  <2>2. CASE d = New
    BY <1>1, <1>4, <1>6, <2>1, <2>2
  <2>3. CASE d # New
    <3>1. d # cpu.p
      BY <1>8, <2>1
    <3> QED
      BY <1>5, <1>7, <2>1, <2>3, <3>1
  <2> QED
    BY <2>2, <2>3
<1>10. NothingLost'
  BY <1>9 DEF Whole, NothingLost
<1> QED
  BY <1>3, <1>10 DEF Whole

\* A directory is emptied: its pages are free, or lost.
LEMMA EmptiedWhole ==
  ASSUME Whole, cpu' = Idle, Typed', UNCHANGED heap, NEW p \in Directory,
         used' \subseteq used, lost \subseteq lost',
         used' \cap Mapped(p) \subseteq lost',
         space' = [space EXCEPT ![p] = Empty],
         space'[New] = Empty, \A r \in Proc \ alive' : space'[r] = Empty
  PROVE  Whole'
<1>1. \A d \in Directory : space'[d] = IF d = p THEN Empty ELSE space[d]
  BY DEF Whole, Typed, SpaceTyped
<1>2. \A d \in Directory : d # p => Mapped(d)' = Mapped(d)
  BY <1>1 DEF Mapped
<1>3. \A f \in used', d \in Directory :
        f \in Mapped(d) => f \in lost' \/ \E e \in Directory : f \in Mapped(e)'
  BY <1>2
<1>4. NothingLost'
  BY <1>3 DEF Whole, NothingLost
<1>5. Whose' /\ Forking' /\ Vacant'
  BY IdleWhole
<1> QED
  BY <1>4, <1>5 DEF Whole

LEMMA EndWhole ==
  ASSUME Whole,
         \/ BootEnds \/ ForkEnds \/ ExecEnds \/ ExecFails \/ Returns \/ WriteFaults
         \/ \E p \in Proc : Exit(p)
  PROVE  Whole'
<1>1. Typed'
  BY EndTyped DEF Whole
<1>2. New \in Directory /\ \A p \in Proc : p \in Directory /\ p # New
  BY NewAssumption DEF Directory
<1>3. CASE BootEnds
  <2>1. cpu.op = "boot" /\ cpu.p \in Proc /\ alive = {}
    BY <1>3 DEF BootEnds, Ends, Whole, Typed, CpuTyped, Actors
  <2>2. space[cpu.p] = Empty
    BY <2>1 DEF Whole, Vacant
  <2> QED
    BY <1>1, <1>3, <2>1, <2>2, ReplacedWhole DEF BootEnds
<1>4. CASE ExecEnds
  <2>1. cpu.op = "exec" /\ cpu.p \in Proc /\ cpu.p \in alive
    BY <1>4 DEF ExecEnds, Ends, Whole, Typed, CpuTyped, Actors
  <2>2. used' \subseteq used /\ used' \cap Mapped(cpu.p) = {}
    BY <1>4 DEF ExecEnds, Freed
  <2> QED
    BY <1>1, <1>4, <2>1, <2>2, ReplacedWhole DEF ExecEnds
<1>5. CASE ForkEnds \/ Returns
  <2>1. cpu' = Idle /\ UNCHANGED <<used, heap, space, lost>> /\ cpu.op \in {"fork", "fault", "brk"}
    BY <1>5 DEF ForkEnds, Returns, Ends, memVars
  <2>2. space[New] = Empty
    BY <2>1 DEF Whole, Vacant
  <2>3. \A p \in Proc \ alive' : space[p] = Empty
    BY <1>5 DEF ForkEnds, Returns, Ends, procVars, Whole, Vacant
  <2>4. Whose' /\ Forking' /\ Vacant'
    BY <2>1, <2>2, <2>3, IdleWhole
  <2> QED
    BY <1>1, <2>1, <2>4, SameLosesNothing DEF Whole
<1>6. CASE ExecFails \/ WriteFaults
  <2>1. /\ space' = [space EXCEPT ![New] = Empty] /\ cpu' = Idle
        /\ UNCHANGED <<heap, alive>> /\ cpu.op = "exec"
    BY <1>6 DEF ExecFails, WriteFaults, Ends, procVars
  <2>2. used' \subseteq used /\ lost \subseteq lost' /\ used' \cap Mapped(New) \subseteq lost'
    BY <1>6 DEF ExecFails, WriteFaults, Freed
  <2>3. \A d \in Directory : space'[d] = IF d = New THEN Empty ELSE space[d]
    BY <2>1 DEF Whole, Typed, SpaceTyped
  <2>4. space'[New] = Empty /\ \A r \in Proc \ alive' : space'[r] = Empty
    BY <1>2, <2>1, <2>3 DEF Whole, Vacant
  <2> QED
    BY <1>1, <1>2, <2>1, <2>2, <2>4, EmptiedWhole
<1>7. ASSUME NEW p \in Proc, Exit(p) PROVE Whole'
  <2>1. /\ space' = [space EXCEPT ![p] = Empty] /\ used' = Freed(p) /\ cpu = Idle
        /\ cpu' = Idle /\ UNCHANGED <<heap, lost>> /\ alive' = alive \ {p}
    BY <1>7 DEF Exit
  <2>2. used' \subseteq used /\ lost \subseteq lost' /\ used' \cap Mapped(p) \subseteq lost'
    BY <2>1 DEF Freed
  <2>3. \A d \in Directory : space'[d] = IF d = p THEN Empty ELSE space[d]
    BY <2>1 DEF Whole, Typed, SpaceTyped
  <2>4. space'[New] = Empty /\ \A r \in Proc \ alive' : space'[r] = Empty
    BY <1>2, <2>1, <2>3 DEF Whole, Vacant, Idle
  <2> QED
    BY <1>1, <1>2, <2>1, <2>2, <2>4, EmptiedWhole
<1> QED
  BY <1>3, <1>4, <1>5, <1>6, <1>7

LEMMA BeginWhole ==
  ASSUME Whole, NEW p \in Proc,
         \/ Boot(p)
         \/ \E q \in Proc : kfork(p, q)
         \/ \E e \in Program : kexecv(p, e)
         \/ \E a \in Address : page_fault_error(p, a)
         \/ \E location \in Break : kbrk(p, location)
  PROVE  Whole'
<1>1. Typed'
  BY BeginTyped DEF Whole
<1>2. CASE Boot(p)
  BY <1>1, <1>2, BeginsWhole DEF Boot, Begins, memVars, procVars
<1>3. ASSUME NEW q \in Proc, kfork(p, q) PROVE Whole'
  BY <1>1, <1>3, ForkWhole
<1>4. ASSUME NEW e \in Program, kexecv(p, e) PROVE Whole'
  BY <1>1, <1>4, BeginsWhole DEF kexecv, Begins, memVars, procVars, Runs
<1>5. ASSUME NEW a, page_fault_error(p, a) PROVE Whole'
  BY <1>1, <1>5, BeginsWhole DEF page_fault_error, Begins, memVars, procVars, Runs
<1>6. ASSUME NEW location, kbrk(p, location) PROVE Whole'
  <2>1. PICK todo : Begins("brk", p, p, todo, InitProgram)
    BY <1>6, Zenon DEF kbrk
  <2>2. UNCHANGED alive /\ p \in alive
    BY <1>6, Zenon DEF kbrk, Runs
  <2>3. UNCHANGED <<used, space>>
    BY <2>1 DEF Begins, memVars
  <2> QED
    BY <1>1, <2>1, <2>2, <2>3, BeginsWhole
<1> QED
  BY <1>2, <1>3, <1>4, <1>5, <1>6

LEMMA NextWhole == Whole /\ [Next]_vars => Whole'
<1>1. CASE Whole /\ UNCHANGED vars
  <2>1. Typed'
    BY <1>1, NextTyped DEF Whole
  <2> QED
    BY <1>1, <2>1 DEF vars, memVars, procVars, Whole, Whose, Forking, Vacant, NothingLost, Mapped
<1> QED
  BY <1>1, ChooseWhole, EnterWhole, CopyPageWhole, GrowStartsWhole, HeapExpandWhole,
     WriteWhole, EndWhole, BeginWhole DEF Next

(***************************************************************************)
(* Every page that is marked has a user, or was New's when an exec faulted *)
(* (memory.c:613-650, process.c:730): whatever memory, programs and calls  *)
(* there are, those that map pages in the kernel half too.                 *)
(***************************************************************************)
THEOREM PagesNotLost == Spec => []NothingLost
<1>1. Init => Whole
  BY InitWhole
<1>2. Whole /\ [Next]_vars => Whole'
  BY NextWhole
<1>3. Whole => NothingLost
  BY DEF Whole
<1> QED
  BY <1>1, <1>2, <1>3, PTL DEF Spec

=============================================================================

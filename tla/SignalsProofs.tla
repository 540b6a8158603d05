--------------------------- MODULE SignalsProofs ---------------------------
(***************************************************************************)
(* The handlers of a process nest, for any signals and any number of them. *)
(* A new signal goes in front, so the list is in the order in which the    *)
(* signals came, and so are the handlers, the youngest innermost; and of   *)
(* the handled signals those whose handlers have been abandoned by exec    *)
(* are older than all whose handlers run.                                  *)
(***************************************************************************)
EXTENDS Signals, SequenceTheorems, TLAPS

(***************************************************************************)
(* Lists.                                                                  *)
(***************************************************************************)
LEMMA PushList ==
  ASSUME NEW S, NEW s \in Seq(S), NEW x \in S, NEW new, new = <<x>> \o s
  PROVE  /\ new \in Seq(S) /\ new # <<>> /\ Len(new) = Len(s) + 1 /\ new[1] = x
         /\ Len(s) \in Nat
         /\ \A i \in 1..Len(new) : i = 1 \/ (i - 1 \in 1..Len(s) /\ new[i] = s[i - 1])
         /\ \A i \in 1..Len(s) : i + 1 \in 1..Len(new) /\ new[i + 1] = s[i]
<1>1. Len(s) \in Nat /\ Len(<<x>>) = 1 /\ <<x>>[1] = x /\ <<x>> \in Seq(S)
  BY LenProperties
<1>2. /\ new \in Seq(S) /\ Len(new) = Len(s) + 1
      /\ \A i \in 1..Len(new) : new[i] = IF i <= 1 THEN <<x>>[i] ELSE s[i - 1]
  BY <1>1, ConcatProperties
<1>3. new # <<>>
  BY <1>1, <1>2
<1> QED
  BY <1>1, <1>2, <1>3

LEMMA TailList ==
  ASSUME NEW S, NEW s \in Seq(S), s # <<>>, NEW t, t = Tail(s)
  PROVE  /\ t \in Seq(S) /\ Len(s) \in Nat /\ Len(s) >= 1 /\ Len(t) = Len(s) - 1
         /\ Head(s) = s[1] /\ s[1] \in S /\ Len(t) \in Nat
         /\ \A i \in 1..Len(t) : i + 1 \in 1..Len(s) /\ t[i] = s[i + 1]
         /\ \A i \in 1..Len(s) : i = 1 \/ (i - 1 \in 1..Len(t) /\ t[i - 1] = s[i])
<1>1. /\ t \in Seq(S) /\ Len(t) = Len(s) - 1 /\ Head(s) \in S
      /\ \A i \in 1..Len(t) : t[i] = s[i + 1]
  BY HeadTailProperties
<1>2. Len(s) \in Nat /\ Len(s) >= 1 /\ Head(s) = s[1]
  BY LenProperties, EmptySeq
<1> QED
  BY <1>1, <1>2

(***************************************************************************)
(* The signals of list and the handlers of act, innermost first, when n    *)
(* signals have been sent.                                                 *)
(***************************************************************************)
Decreasing(s) == \A i, j \in 1..Len(s) : i < j => s[j] < s[i]

NestAt(list, act, n) ==
  /\ \A i, j \in 1..Len(list) : i < j => list[j].id < list[i].id
  /\ \A i \in 1..Len(list) : list[i].id < n
  /\ Decreasing(act)
  /\ \A k \in 1..Len(act) : \E i \in 1..Len(list) : list[i].handled /\ list[i].id = act[k]
  /\ \A i \in 1..Len(list), k \in 1..Len(act) :
       list[i].handled /\ act[k] <= list[i].id => \E j \in 1..Len(act) : act[j] = list[i].id

\* A signal comes.
LEMMA SentNest ==
  ASSUME NEW list \in Seq(Queued), NEW act \in Seq(Nat), NEW n \in Nat, NestAt(list, act, n),
         NEW x \in Queued, x.id = n, ~x.handled, NEW new, new = <<x>> \o list
  PROVE  new \in Seq(Queued) /\ NestAt(new, act, n + 1)
<1>1. /\ new \in Seq(Queued) /\ Len(new) = Len(list) + 1 /\ new[1] = x
      /\ Len(list) \in Nat
      /\ \A i \in 1..Len(new) : i = 1 \/ (i - 1 \in 1..Len(list) /\ new[i] = list[i - 1])
      /\ \A i \in 1..Len(list) : i + 1 \in 1..Len(new) /\ new[i + 1] = list[i]
  BY PushList
<1>2. \A i \in 1..Len(list) : list[i].id \in Nat /\ list[i].id < n
  <2>1. \A i \in 1..Len(list) : list[i] \in Queued
    BY ElementOfSeq
  <2> QED
    BY <2>1 DEF NestAt, Queued
<1>3. ASSUME NEW i \in 1..Len(new), NEW j \in 1..Len(new), i < j
      PROVE  new[j].id < new[i].id
  <2>1. j # 1 /\ j - 1 \in 1..Len(list) /\ new[j] = list[j - 1]
    BY <1>1, <1>3
  <2>2. CASE i = 1
    BY <1>1, <1>2, <2>1, <2>2
  <2>3. CASE i # 1
    <3>1. i - 1 \in 1..Len(list) /\ new[i] = list[i - 1] /\ i - 1 < j - 1
      BY <1>1, <1>3, <2>1, <2>3
    <3> QED
      BY <2>1, <3>1 DEF NestAt
  <2> QED
    BY <2>2, <2>3
<1>4. ASSUME NEW i \in 1..Len(new)
      PROVE  new[i].id < n + 1
  <2>1. CASE i = 1
    BY <1>1, <2>1
  <2>2. CASE i # 1
    <3>1. i - 1 \in 1..Len(list) /\ new[i] = list[i - 1]
      BY <1>1, <2>2
    <3> QED
      BY <1>2, <3>1
  <2> QED
    BY <2>1, <2>2
<1>5. ASSUME NEW k \in 1..Len(act)
      PROVE  \E i \in 1..Len(new) : new[i].handled /\ new[i].id = act[k]
  <2>1. PICK i \in 1..Len(list) : list[i].handled /\ list[i].id = act[k]
    BY DEF NestAt
  <2>2. i + 1 \in 1..Len(new) /\ new[i + 1] = list[i]
    BY <1>1
  <2> QED
    BY <2>1, <2>2
<1>6. ASSUME NEW i \in 1..Len(new), NEW k \in 1..Len(act),
             new[i].handled, act[k] <= new[i].id
      PROVE  \E j \in 1..Len(act) : act[j] = new[i].id
  <2>1. i # 1
    BY <1>1, <1>6
  <2>2. PICK y \in 1..Len(list) : new[i] = list[y]
    BY <1>1, <2>1
  <2>3. list[y].handled /\ act[k] <= list[y].id
    BY <1>6, <2>2
  <2>4. \E j \in 1..Len(act) : act[j] = list[y].id
    BY <2>3, Zenon DEF NestAt
  <2> QED
    BY <2>2, <2>4, Zenon
<1>7. Decreasing(act)
  BY DEF NestAt
<1> QED
  BY <1>1, <1>3, <1>4, <1>5, <1>6, <1>7 DEF NestAt

\* A new signal is taken off the head.
LEMMA DropNest ==
  ASSUME NEW list \in Seq(Queued), NEW act \in Seq(Nat), NEW n \in Nat, NestAt(list, act, n),
         list # <<>>, ~Head(list).handled, NEW new, new = Tail(list)
  PROVE  new \in Seq(Queued) /\ NestAt(new, act, n)
<1>1. /\ new \in Seq(Queued) /\ Head(list) = list[1] /\ Len(new) \in Nat
      /\ \A i \in 1..Len(new) : i + 1 \in 1..Len(list) /\ new[i] = list[i + 1]
      /\ \A i \in 1..Len(list) : i = 1 \/ (i - 1 \in 1..Len(new) /\ new[i - 1] = list[i])
  BY TailList
<1>2. ASSUME NEW i \in 1..Len(new), NEW j \in 1..Len(new), i < j
      PROVE  new[j].id < new[i].id
  <2>1. i + 1 \in 1..Len(list) /\ j + 1 \in 1..Len(list) /\ i + 1 < j + 1
    BY <1>1, <1>2
  <2> QED
    BY <1>1, <2>1 DEF NestAt
<1>3. \A i \in 1..Len(new) : new[i].id < n
  BY <1>1 DEF NestAt
<1>4. ASSUME NEW k \in 1..Len(act)
      PROVE  \E i \in 1..Len(new) : new[i].handled /\ new[i].id = act[k]
  <2>1. PICK i \in 1..Len(list) : list[i].handled /\ list[i].id = act[k]
    BY DEF NestAt
  <2>2. i # 1
    BY <1>1, <2>1
  <2>3. i - 1 \in 1..Len(new) /\ new[i - 1] = list[i]
    BY <1>1, <2>2
  <2> QED
    BY <2>1, <2>3
<1>5. ASSUME NEW i \in 1..Len(new), NEW k \in 1..Len(act),
             new[i].handled, act[k] <= new[i].id
      PROVE  \E j \in 1..Len(act) : act[j] = new[i].id
  <2>1. i + 1 \in 1..Len(list) /\ new[i] = list[i + 1]
    BY <1>1
  <2> QED
    BY <1>5, <2>1 DEF NestAt
<1>6. Decreasing(act)
  BY DEF NestAt
<1> QED
  BY <1>1, <1>2, <1>3, <1>4, <1>5, <1>6 DEF NestAt

\* The handler of a new signal at the head starts.
LEMMA MarkNest ==
  ASSUME NEW list \in Seq(Queued), NEW act \in Seq(Nat), NEW n \in Nat, NestAt(list, act, n),
         list # <<>>, ~Head(list).handled,
         NEW isIn \in BOOLEAN, NEW hasMoved \in BOOLEAN,
         NEW m, m = Marked(Head(list), isIn, hasMoved),
         NEW new, new = <<m>> \o Tail(list),
         NEW ran, ran = <<Head(list).id>> \o act
  PROVE  new \in Seq(Queued) /\ ran \in Seq(Nat) /\ NestAt(new, ran, n)
<1> DEFINE h == Head(list)
           t == Tail(list)
<1>1. /\ t \in Seq(Queued) /\ h = list[1] /\ Len(list) \in Nat /\ Len(list) >= 1
      /\ Len(t) = Len(list) - 1 /\ h \in Queued
      /\ \A i \in 1..Len(t) : i + 1 \in 1..Len(list) /\ t[i] = list[i + 1]
  BY TailList
<1>2. m \in Queued /\ m.id = h.id /\ m.handled /\ h.id \in Nat
  <2> HIDE DEF h
  <2>1. m = [h EXCEPT !.handled = TRUE, !.saved = [was_in_syscall |-> isIn, moved |-> hasMoved]]
    BY DEF Marked, h
  <2>2. [was_in_syscall |-> isIn, moved |-> hasMoved] \in Saved
    BY DEF Saved
  <2> QED
    BY <1>1, <2>1, <2>2 DEF Queued
<1> HIDE DEF h, t
<1>3. new = <<m>> \o t /\ ran = <<h.id>> \o act
  BY DEF h, t
<1>4. /\ new \in Seq(Queued) /\ Len(new) = Len(t) + 1 /\ new[1] = m
      /\ \A i \in 1..Len(new) : i = 1 \/ (i - 1 \in 1..Len(t) /\ new[i] = t[i - 1])
  BY <1>1, <1>2, <1>3, PushList
<1>5. /\ ran \in Seq(Nat) /\ Len(ran) = Len(act) + 1 /\ ran[1] = h.id /\ Len(act) \in Nat
      /\ \A k \in 1..Len(ran) : k = 1 \/ (k - 1 \in 1..Len(act) /\ ran[k] = act[k - 1])
      /\ \A k \in 1..Len(act) : k + 1 \in 1..Len(ran) /\ ran[k + 1] = act[k]
  BY <1>2, <1>3, PushList
<1>6. Len(new) = Len(list)
  BY <1>1, <1>4
<1>7. ASSUME NEW i \in 1..Len(list)
      PROVE  /\ new[i].id = list[i].id
             /\ IF i = 1 THEN new[i].handled ELSE new[i].handled = list[i].handled
  <2>1. CASE i = 1
    BY <1>1, <1>2, <1>4, <2>1
  <2>2. CASE i # 1
    <3>1. i - 1 \in 1..Len(t) /\ new[i] = t[i - 1]
      BY <1>4, <1>6, <2>2
    <3>2. t[i - 1] = list[(i - 1) + 1]
      BY <1>1, <3>1
    <3>3. (i - 1) + 1 = i
      BY <2>2
    <3> QED
      BY <2>2, <3>1, <3>2, <3>3
  <2> QED
    BY <2>1, <2>2
<1>8. \A i, j \in 1..Len(list) : i < j => list[j].id < list[i].id
  BY DEF NestAt
<1>9. 1 \in 1..Len(list)
  BY <1>1
<1>10. ASSUME NEW k \in 1..Len(act)
       PROVE  act[k] < h.id /\ \E i \in 1..Len(list) : i # 1 /\ list[i].handled /\ list[i].id = act[k]
  <2>1. PICK i \in 1..Len(list) : list[i].handled /\ list[i].id = act[k]
    BY DEF NestAt
  <2>2. i # 1
    BY <1>1, <2>1 DEF h
  <2>3. 1 < i
    BY <2>2
  <2> QED
    BY <1>1, <1>8, <1>9, <2>1, <2>2, <2>3
<1>11. Decreasing(ran)
  <2>1. SUFFICES ASSUME NEW j \in 1..Len(ran), NEW k \in 1..Len(ran), j < k
                 PROVE  ran[k] < ran[j]
    BY DEF Decreasing
  <2>2. k # 1 /\ k - 1 \in 1..Len(act) /\ ran[k] = act[k - 1]
    BY <1>5, <2>1
  <2>3. CASE j = 1
    BY <1>5, <1>10, <2>2, <2>3
  <2>4. CASE j # 1
    <3>1. j - 1 \in 1..Len(act) /\ ran[j] = act[j - 1] /\ j - 1 < k - 1
      BY <1>5, <2>1, <2>4
    <3> QED
      BY <2>2, <3>1 DEF NestAt, Decreasing
  <2> QED
    BY <2>3, <2>4
<1>12. ASSUME NEW k \in 1..Len(ran)
       PROVE  \E i \in 1..Len(new) : new[i].handled /\ new[i].id = ran[k]
  <2>1. CASE k = 1
    BY <1>1, <1>5, <1>6, <1>7, <1>9, <2>1
  <2>2. CASE k # 1
    <3>1. k - 1 \in 1..Len(act) /\ ran[k] = act[k - 1]
      BY <1>5, <2>2
    <3>2. PICK i \in 1..Len(list) : i # 1 /\ list[i].handled /\ list[i].id = act[k - 1]
      BY <1>10, <3>1
    <3> QED
      BY <1>6, <1>7, <3>1, <3>2
  <2> QED
    BY <2>1, <2>2
<1>13. ASSUME NEW i \in 1..Len(new), NEW k \in 1..Len(ran),
              new[i].handled, ran[k] <= new[i].id
       PROVE  \E j \in 1..Len(ran) : ran[j] = new[i].id
  <2>1. CASE i = 1
    <3>1. 1 \in 1..Len(ran)
      BY <1>5
    <3> QED
      BY <1>2, <1>4, <1>5, <2>1, <3>1
  <2>2. CASE i # 1
    <3>1. /\ i \in 1..Len(list) /\ list[i].handled /\ new[i].id = list[i].id
      BY <1>6, <1>7, <1>13, <2>2
    <3>2. list[i].id < h.id /\ list[i].id \in Nat
      <4>1. 1 < i
        BY <2>2
      <4>2. list[i] \in Queued
        BY <3>1, ElementOfSeq
      <4> QED
        BY <1>1, <1>8, <1>9, <3>1, <4>1, <4>2 DEF Queued
    <3>3. k # 1
      BY <1>2, <1>5, <1>13, <3>1, <3>2
    <3>4. k - 1 \in 1..Len(act) /\ ran[k] = act[k - 1]
      BY <1>5, <3>3
    <3>5. PICK j \in 1..Len(act) : act[j] = list[i].id
      BY <1>13, <3>1, <3>4 DEF NestAt
    <3>6. j + 1 \in 1..Len(ran) /\ ran[j + 1] = new[i].id
      BY <1>5, <3>1, <3>5
    <3> QED
      BY <3>6
  <2> QED
    BY <2>1, <2>2
<1>14. /\ \A i, j \in 1..Len(new) : i < j => new[j].id < new[i].id
       /\ \A i \in 1..Len(new) : new[i].id < n
  <2>1. \A i \in 1..Len(list) : list[i].id < n
    BY DEF NestAt
  <2>2. \A i \in 1..Len(new) : i \in 1..Len(list) /\ new[i].id = list[i].id
    BY <1>6, <1>7
  <2> QED
    BY <1>8, <2>1, <2>2
<1> QED
  BY <1>4, <1>5, <1>11, <1>12, <1>13, <1>14 DEF NestAt

\* The head, if it is handled, is the signal of the innermost handler.
LEMMA HeadIsInnermost ==
  ASSUME NEW list \in Seq(Queued), NEW act \in Seq(Nat), NEW n \in Nat, NestAt(list, act, n),
         act # <<>>, list # <<>>, Head(list).handled
  PROVE  Head(list) = list[1] /\ list[1].id = act[1]
<1>1. /\ Head(list) = list[1] /\ 1 \in 1..Len(list) /\ Len(list) \in Nat
  BY LenProperties, EmptySeq
<1>2. 1 \in 1..Len(act) /\ Len(act) \in Nat
  BY LenProperties, EmptySeq
<1>3. /\ \A i \in 1..Len(list) : list[i].id \in Nat
      /\ \A k \in 1..Len(act) : act[k] \in Nat
  <2>1. \A i \in 1..Len(list) : list[i] \in Queued
    BY ElementOfSeq
  <2> QED
    BY <2>1, ElementOfSeq DEF Queued
<1>4. PICK i \in 1..Len(list) : list[i].id = act[1]
  BY <1>2 DEF NestAt
<1>5. act[1] <= list[1].id
  <2>1. 1 < i => list[i].id < list[1].id
    BY <1>1 DEF NestAt
  <2>2. i = 1 \/ 1 < i
    BY <1>1
  <2> QED
    BY <1>1, <1>2, <1>3, <1>4, <2>1, <2>2
<1>6. PICK j \in 1..Len(act) : act[j] = list[1].id
  BY <1>1, <1>2, <1>5 DEF NestAt
<1>7. j = 1
  <2>1. 1 < j => act[j] < act[1]
    BY <1>2 DEF NestAt, Decreasing
  <2> QED
    BY <1>1, <1>2, <1>3, <1>5, <1>6, <2>1
<1> QED
  BY <1>1, <1>6, <1>7

\* The innermost handler ends.
LEMMA PopNest ==
  ASSUME NEW list \in Seq(Queued), NEW act \in Seq(Nat), NEW n \in Nat, NestAt(list, act, n),
         act # <<>>, list # <<>>, Head(list).handled,
         NEW new, new = Tail(list), NEW left, left = Tail(act)
  PROVE  new \in Seq(Queued) /\ left \in Seq(Nat) /\ NestAt(new, left, n)
<1>1. list[1].id = act[1]
  BY HeadIsInnermost
<1>2. /\ new \in Seq(Queued) /\ Len(new) \in Nat /\ Len(list) \in Nat /\ Len(list) >= 1
      /\ \A i \in 1..Len(new) : i + 1 \in 1..Len(list) /\ new[i] = list[i + 1]
      /\ \A i \in 1..Len(list) : i = 1 \/ (i - 1 \in 1..Len(new) /\ new[i - 1] = list[i])
  BY TailList
<1>3. /\ left \in Seq(Nat) /\ Len(left) \in Nat /\ Len(act) \in Nat /\ Len(act) >= 1
      /\ \A k \in 1..Len(left) : k + 1 \in 1..Len(act) /\ left[k] = act[k + 1]
      /\ \A k \in 1..Len(act) : k = 1 \/ (k - 1 \in 1..Len(left) /\ left[k - 1] = act[k])
  BY TailList
<1>4. /\ \A i \in 1..Len(list) : list[i].id \in Nat
      /\ \A k \in 1..Len(act) : act[k] \in Nat
  <2>1. \A i \in 1..Len(list) : list[i] \in Queued
    BY ElementOfSeq
  <2> QED
    BY <2>1, ElementOfSeq DEF Queued
<1>5. /\ \A i \in 1..Len(list) : i # 1 => list[i].id < list[1].id
      /\ \A k \in 1..Len(act) : k # 1 => act[k] < act[1]
  <2>1. 1 \in 1..Len(list) /\ 1 \in 1..Len(act)
    BY <1>2, <1>3
  <2>2. \A i \in 1..Len(list) : i # 1 => 1 < i
    OBVIOUS
  <2>3. \A k \in 1..Len(act) : k # 1 => 1 < k
    OBVIOUS
  <2> QED
    BY <2>1, <2>2, <2>3 DEF NestAt, Decreasing
<1>6. ASSUME NEW i \in 1..Len(new), NEW j \in 1..Len(new), i < j
      PROVE  new[j].id < new[i].id
  <2>1. i + 1 \in 1..Len(list) /\ j + 1 \in 1..Len(list) /\ i + 1 < j + 1
    BY <1>2, <1>6
  <2> QED
    BY <1>2, <2>1 DEF NestAt
<1>7. \A i \in 1..Len(new) : new[i].id < n
  BY <1>2 DEF NestAt
<1>8. Decreasing(left)
  <2>1. SUFFICES ASSUME NEW j \in 1..Len(left), NEW k \in 1..Len(left), j < k
                 PROVE  left[k] < left[j]
    BY DEF Decreasing
  <2>2. j + 1 \in 1..Len(act) /\ k + 1 \in 1..Len(act) /\ j + 1 < k + 1
    BY <1>3, <2>1
  <2> QED
    BY <1>3, <2>2 DEF NestAt, Decreasing
<1>9. ASSUME NEW k \in 1..Len(left)
      PROVE  \E i \in 1..Len(new) : new[i].handled /\ new[i].id = left[k]
  <2>1. k + 1 \in 1..Len(act) /\ left[k] = act[k + 1] /\ k + 1 # 1
    BY <1>3
  <2>2. PICK i \in 1..Len(list) : list[i].handled /\ list[i].id = act[k + 1]
    BY <2>1 DEF NestAt
  <2>3. act[k + 1] < act[1] /\ act[1] \in Nat
    <3>1. 1 \in 1..Len(act)
      BY <1>3
    <3> QED
      BY <1>4, <1>5, <2>1, <3>1
  <2>4. i # 1
    BY <1>1, <2>2, <2>3
  <2>5. i - 1 \in 1..Len(new) /\ new[i - 1] = list[i]
    BY <1>2, <2>4
  <2> QED
    BY <2>1, <2>2, <2>5
<1>10. ASSUME NEW i \in 1..Len(new), NEW k \in 1..Len(left),
              new[i].handled, left[k] <= new[i].id
       PROVE  \E j \in 1..Len(left) : left[j] = new[i].id
  <2>1. i + 1 \in 1..Len(list) /\ new[i] = list[i + 1] /\ i + 1 # 1
    BY <1>2
  <2>2. k + 1 \in 1..Len(act) /\ left[k] = act[k + 1]
    BY <1>3
  <2>3. PICK j \in 1..Len(act) : act[j] = list[i + 1].id
    BY <1>10, <2>1, <2>2 DEF NestAt
  <2>4. list[i + 1].id < list[1].id /\ list[1].id \in Nat
    <3>1. 1 \in 1..Len(list)
      BY <1>2
    <3> QED
      BY <1>4, <1>5, <2>1, <3>1
  <2>5. j # 1
    BY <1>1, <2>3, <2>4
  <2>6. j - 1 \in 1..Len(left) /\ left[j - 1] = new[i].id
    BY <1>3, <2>1, <2>3, <2>5
  <2> QED
    BY <2>6
<1> QED
  BY <1>2, <1>3, <1>6, <1>7, <1>8, <1>9, <1>10 DEF NestAt

(***************************************************************************)
(* The steps.                                                              *)
(***************************************************************************)
SignalsInv ==
  /\ TypeOK
  /\ doing # "ended" => NestAt(queued_signals, active, sent)

LEMMA CheckNest ==
  ASSUME TypeOK, NEW n \in Nat, NEW list \in Seq(Queued), NestAt(list, active, n),
         NEW handlers, NEW isIn \in BOOLEAN, NEW hasMoved \in BOOLEAN, NEW goesOn \in Doing,
         check_signals(list, handlers, isIn, hasMoved, goesOn)
  PROVE  /\ queued_signals' \in Seq(Queued) /\ active' \in Seq(Nat)
         /\ in_syscall' \in BOOLEAN /\ moved' \in BOOLEAN /\ doing' \in Doing
         /\ doing' # "ended" => NestAt(queued_signals', active', n)
<1>1. /\ active \in Seq(Nat) /\ in_syscall \in BOOLEAN /\ moved \in BOOLEAN
  BY DEF TypeOK
<1>2. CASE Ends(list, handlers)
  <2>1. End
    BY <1>2 DEF check_signals
  <2>2. <<>> \in Seq(Queued)
    OBVIOUS
  <2> QED
    BY <1>1, <2>1, <2>2 DEF End, Doing
<1>3. CASE ~Ends(list, handlers) /\ Starts(list, handlers)
  <2>1. /\ queued_signals' = <<Marked(Head(list), isIn, hasMoved)>> \o Tail(list)
        /\ active' = <<Head(list).id>> \o active
        /\ doing' = "user" /\ moved' = FALSE /\ in_syscall' = isIn
    BY <1>3 DEF check_signals
  <2>2. list # <<>> /\ ~Head(list).handled
    BY <1>3 DEF Starts, IsNew
  <2>3. /\ queued_signals' \in Seq(Queued) /\ active' \in Seq(Nat)
        /\ NestAt(queued_signals', active', n)
    <3> DEFINE m   == Marked(Head(list), isIn, hasMoved)
               new == <<m>> \o Tail(list)
               ran == <<Head(list).id>> \o active
    <3>1. m = Marked(Head(list), isIn, hasMoved)
      OBVIOUS
    <3> HIDE DEF m
    <3>2. new = <<m>> \o Tail(list) /\ ran = <<Head(list).id>> \o active
      OBVIOUS
    <3>3. queued_signals' = new /\ active' = ran
      BY <2>1 DEF m
    <3> HIDE DEF new, ran
    <3>4. new \in Seq(Queued) /\ ran \in Seq(Nat) /\ NestAt(new, ran, n)
      BY <1>1, <2>2, <3>1, <3>2, MarkNest
    <3> QED
      BY <3>3, <3>4
  <2> QED
    BY <2>1, <2>3 DEF Doing
<1>4. CASE ~Ends(list, handlers) /\ ~Starts(list, handlers)
  <2>1. /\ queued_signals' = IF IsNew(list) THEN Tail(list) ELSE list
        /\ UNCHANGED active
        /\ doing' = goesOn /\ moved' = hasMoved /\ in_syscall' = isIn
    BY <1>4 DEF check_signals
  <2>2. CASE IsNew(list)
    <3>1. list # <<>> /\ ~Head(list).handled /\ queued_signals' = Tail(list)
      BY <2>1, <2>2 DEF IsNew
    <3>2. queued_signals' \in Seq(Queued) /\ NestAt(queued_signals', active, n)
      BY <1>1, <3>1, DropNest
    <3> QED
      BY <1>1, <2>1, <3>2
  <2>3. CASE ~IsNew(list)
    BY <1>1, <2>1, <2>3
  <2> QED
    BY <2>2, <2>3
<1> QED
  BY <1>2, <1>3, <1>4

\* What a signal that is sent does to the list.
LEMMA SendNest ==
  ASSUME SignalsInv, doing # "ended", NEW sig \in Signal
  PROVE  /\ Sent(queued_signals, sig) \in Seq(Queued)
         /\ NestAt(Sent(queued_signals, sig), active, sent + 1)
         /\ sent + 1 \in Nat
<1> DEFINE x == [id |-> sent, signal_number |-> sig, handled |-> FALSE, saved |-> NotSaved]
<1>1. /\ queued_signals \in Seq(Queued) /\ active \in Seq(Nat) /\ sent \in Nat
      /\ NestAt(queued_signals, active, sent)
  BY DEF SignalsInv, TypeOK
<1>2. NotSaved \in Saved
  BY DEF NotSaved, Saved
<1>3. x \in Queued /\ x.id = sent /\ ~x.handled
  BY <1>1, <1>2 DEF Queued
<1>4. Sent(queued_signals, sig) = <<x>> \o queued_signals
  BY DEF Sent
<1> HIDE DEF x
<1>5. /\ Sent(queued_signals, sig) \in Seq(Queued)
      /\ NestAt(Sent(queued_signals, sig), active, sent + 1)
  BY <1>1, <1>3, <1>4, SentNest, Zenon
<1> QED
  BY <1>1, <1>5

LEMMA SignalsStep ==
  ASSUME SignalsInv, [Next]_vars
  PROVE  SignalsInv'
<1>0. /\ signal_handlers \in [Signal -> Handler] /\ queued_signals \in Seq(Queued)
      /\ active \in Seq(Nat) /\ in_syscall \in BOOLEAN /\ moved \in BOOLEAN
      /\ doing \in Doing /\ sent \in Nat /\ TypeOK
      /\ doing # "ended" => NestAt(queued_signals, active, sent)
  BY DEF SignalsInv, TypeOK
\* A look at the signals, of which the newest may just have come.
<1>1. ASSUME NEW n \in Nat, NEW list \in Seq(Queued), NestAt(list, active, n),
             NEW handlers, NEW isIn \in BOOLEAN, NEW hasMoved \in BOOLEAN, NEW goesOn \in Doing,
             check_signals(list, handlers, isIn, hasMoved, goesOn),
             signal_handlers' \in [Signal -> Handler], sent' = n
      PROVE  SignalsInv'
  <2>1. /\ queued_signals' \in Seq(Queued) /\ active' \in Seq(Nat)
        /\ in_syscall' \in BOOLEAN /\ moved' \in BOOLEAN /\ doing' \in Doing
        /\ doing' # "ended" => NestAt(queued_signals', active', n)
    BY <1>0, <1>1, CheckNest
  <2> QED
    BY <1>1, <2>1 DEF SignalsInv, TypeOK
<1>2. ASSUME NEW handlers, NEW isIn \in BOOLEAN, NEW hasMoved \in BOOLEAN, NEW goesOn \in Doing,
             check_signals(queued_signals, handlers, isIn, hasMoved, goesOn),
             signal_handlers' \in [Signal -> Handler], sent' = sent, doing # "ended"
      PROVE  SignalsInv'
  BY <1>0, <1>1, <1>2
<1>3. CASE process_kill
  <2>1. doing # "ended" /\ sent' = sent + 1
        /\ UNCHANGED <<signal_handlers, in_syscall, active, doing, moved>>
    BY <1>3 DEF process_kill
  <2>2. PICK sig \in Signal : queued_signals' = Sent(queued_signals, sig)
    BY <1>3 DEF process_kill
  <2> QED
    BY <1>0, <2>1, <2>2, SendNest DEF SignalsInv, TypeOK
<1>4. CASE ksigprocmask
  BY <1>0, <1>2, <1>4 DEF ksigprocmask, Call, Doing
<1>5. CASE kill_itself
  <2>1. doing # "ended" /\ sent' = sent + 1 /\ UNCHANGED signal_handlers
    BY <1>5 DEF kill_itself
  <2>2. PICK sig \in Signal :
          check_signals(Sent(queued_signals, sig), signal_handlers, FALSE, FALSE, "user")
    BY <1>5 DEF kill_itself
  <2>3. "user" \in Doing
    BY DEF Doing
  <2> QED
    BY <1>0, <1>1, <2>1, <2>2, <2>3, SendNest
<1>6. CASE krt_sigaction
  <2>1. doing # "ended" /\ sent' = sent /\ "user" \in Doing
        /\ check_signals(queued_signals, signal_handlers', FALSE, FALSE, "user")
    BY <1>6 DEF krt_sigaction, Doing
  <2>2. signal_handlers' \in [Signal -> Handler]
    BY <1>0, <1>6 DEF krt_sigaction
  <2> QED
    BY <1>2, <2>1, <2>2
<1>7. CASE Blocks
  BY <1>0, <1>7 DEF Blocks, SignalsInv, TypeOK, Doing
<1>8. CASE Scheduled
  BY <1>0, <1>2, <1>8 DEF Scheduled, Doing
<1>9. CASE CallEnds
  BY <1>0, <1>2, <1>9 DEF CallEnds, Doing
<1>10. CASE Runs
  BY <1>0, <1>10 DEF Runs, SignalsInv, TypeOK
<1>11. CASE Stopped
  BY <1>0, <1>11 DEF Stopped, SignalsInv, TypeOK, Doing
<1>12. CASE Resumed
  BY <1>0, <1>2, <1>12 DEF Resumed, Doing
<1>13. CASE krt_sigret
  <2>1. doing = "user" /\ active # <<>> /\ UNCHANGED <<signal_handlers, sent>>
    BY <1>13 DEF krt_sigret
  <2>2. CASE IsNew(queued_signals)
    <3>1. End
      BY <1>13, <2>2 DEF krt_sigret
    <3>2. <<>> \in Seq(Queued)
      OBVIOUS
    <3> QED
      BY <1>0, <2>1, <3>1, <3>2 DEF End, SignalsInv, TypeOK, Doing
  <2>3. CASE ~IsNew(queued_signals)
    <3>1. /\ queued_signals' = Tail(queued_signals) /\ active' = Tail(active)
          /\ in_syscall' = TRUE /\ moved' = FALSE /\ doing' \in {"user", "sigret"}
      BY <1>13, <2>3 DEF krt_sigret
    <3>2. NestAt(queued_signals, active, sent)
      BY <1>0, <2>1
    <3>3. queued_signals # <<>>
      <4>1. 1 \in 1..Len(active)
        BY <1>0, <2>1, LenProperties, EmptySeq
      <4>2. PICK i \in 1..Len(queued_signals) : queued_signals[i].handled
        BY <3>2, <4>1 DEF NestAt
      <4> QED
        BY <4>2
    <3>4. Head(queued_signals).handled
      BY <2>3, <3>3 DEF IsNew
    <3>5. /\ queued_signals' \in Seq(Queued) /\ active' \in Seq(Nat)
          /\ NestAt(queued_signals', active', sent)
      BY <1>0, <2>1, <3>1, <3>2, <3>3, <3>4, PopNest
    <3> QED
      BY <1>0, <2>1, <3>1, <3>5 DEF SignalsInv, TypeOK, Doing
  <2> QED
    BY <2>2, <2>3
<1>14. CASE SigretScheduled
  BY <1>0, <1>2, <1>14 DEF SigretScheduled, Doing
<1>15. CASE SigretEnds
  <2>1. CASE check_signals(queued_signals, signal_handlers, FALSE, FALSE, "user")
    BY <1>0, <1>2, <1>15, <2>1 DEF SigretEnds, Doing
  <2>2. CASE End
    <3>1. <<>> \in Seq(Queued)
      OBVIOUS
    <3> QED
      BY <1>0, <1>15, <2>2, <3>1 DEF SigretEnds, End, SignalsInv, TypeOK, Doing
  <2> QED
    BY <1>15, <2>1, <2>2 DEF SigretEnds
<1>16. CASE kexecv
  <2>1. /\ doing = "user" /\ active' = <<>> /\ in_syscall' = TRUE /\ moved' = FALSE
        /\ signal_handlers' = [sig \in Signal |-> "NULL"]
        /\ UNCHANGED <<queued_signals, doing, sent>>
    BY <1>16 DEF kexecv
  <2>2. active' \in Seq(Nat) /\ Len(active') = 0
    BY <2>1
  <2>3. \A k \in 1..Len(active') : FALSE
    BY <2>2
  <2>4. NestAt(queued_signals, active', sent)
    BY <1>0, <2>1, <2>3 DEF NestAt, Decreasing
  <2> QED
    BY <1>0, <2>1, <2>2, <2>4 DEF SignalsInv, TypeOK, Handler
<1>17. CASE UNCHANGED vars
  BY <1>17 DEF vars, SignalsInv, TypeOK
<1> QED
  BY <1>3, <1>4, <1>5, <1>6, <1>7, <1>8, <1>9, <1>10, <1>11, <1>12, <1>13, <1>14, <1>15,
     <1>16, <1>17 DEF Next

LEMMA SignalsInvariant == Spec => []SignalsInv
<1>1. Init => SignalsInv
  <2>1. SUFFICES ASSUME Init PROVE SignalsInv
    OBVIOUS
  <2>2. queued_signals = <<>> /\ active = <<>> /\ Len(queued_signals) = 0 /\ Len(active) = 0
    BY <2>1 DEF Init
  <2>3. (\A i \in 1..Len(queued_signals) : FALSE) /\ (\A i \in 1..Len(active) : FALSE)
    BY <2>2
  <2>4. NestAt(queued_signals, active, sent)
    BY <2>3 DEF NestAt, Decreasing
  <2>5. queued_signals \in Seq(Queued) /\ active \in Seq(Nat)
    BY <2>2
  <2> QED
    BY <2>1, <2>4, <2>5 DEF Init, SignalsInv, TypeOK, Handler, Doing
<1> QED
  BY <1>1, SignalsStep, PTL DEF Spec

(***************************************************************************)
(* HandlersNest: the handlers that run are those of the first handled      *)
(* signals of the list, in its order (process.c:241-301, 405-439).         *)
(***************************************************************************)
THEOREM HandlersAlwaysNest == Spec => []HandlersNest
<1>1. SignalsInv => HandlersNest
  <2>1. SUFFICES ASSUME SignalsInv, doing # "ended"
                 PROVE  \E at \in [1..Len(active) -> Handled] :
                          /\ \A k \in 1..Len(active) : queued_signals[at[k]].id = active[k]
                          /\ \A j, k \in 1..Len(active) : j < k => at[j] < at[k]
                          /\ \A i \in Handled, k \in 1..Len(active) :
                               i <= at[k] => \E j \in 1..Len(active) : i = at[j]
    BY DEF HandlersNest
  <2>2. /\ NestAt(queued_signals, active, sent)
        /\ queued_signals \in Seq(Queued) /\ active \in Seq(Nat)
    BY <2>1 DEF SignalsInv, TypeOK
  <2>3. /\ \A i \in 1..Len(queued_signals) : queued_signals[i].id \in Nat
        /\ \A k \in 1..Len(active) : active[k] \in Nat
    <3>1. \A i \in 1..Len(queued_signals) : queued_signals[i] \in Queued
      BY <2>2, ElementOfSeq
    <3> QED
      BY <2>2, <3>1, ElementOfSeq DEF Queued
  <2> DEFINE place(k) == CHOOSE i \in Handled : queued_signals[i].id = active[k]
             at == [k \in 1..Len(active) |-> place(k)]
  <2>4. ASSUME NEW k \in 1..Len(active)
        PROVE  place(k) \in Handled /\ queued_signals[place(k)].id = active[k]
    <3>1. PICK i \in 1..Len(queued_signals) :
            queued_signals[i].handled /\ queued_signals[i].id = active[k]
      BY <2>2 DEF NestAt
    <3>2. i \in Handled
      BY <3>1 DEF Handled
    <3> QED
      BY <3>1, <3>2
  <2> HIDE DEF place
  <2>5. /\ at \in [1..Len(active) -> Handled]
        /\ \A k \in 1..Len(active) : queued_signals[at[k]].id = active[k]
    BY <2>4
  <2> HIDE DEF at
  <2>6. \A i \in Handled : i \in 1..Len(queued_signals) /\ queued_signals[i].handled /\ i \in Nat
    BY DEF Handled
  <2>7. \A i, j \in 1..Len(queued_signals) :
          i < j => queued_signals[j].id < queued_signals[i].id
    BY <2>2 DEF NestAt
  \* An order of numbers is one of places.
  <2>8. ASSUME NEW i \in Handled, NEW j \in Handled
        PROVE  /\ queued_signals[j].id < queued_signals[i].id => i < j
               /\ i <= j => queued_signals[j].id <= queued_signals[i].id
               /\ queued_signals[i].id = queued_signals[j].id => i = j
    <3>1. i < j => queued_signals[j].id < queued_signals[i].id
      BY <2>6, <2>7
    <3>2. j < i => queued_signals[i].id < queued_signals[j].id
      BY <2>6, <2>7
    <3>3. /\ i \in Nat /\ j \in Nat
          /\ queued_signals[i].id \in Nat /\ queued_signals[j].id \in Nat
      BY <2>3, <2>6
    <3> QED
      BY <3>1, <3>2, <3>3
  <2>9. ASSUME NEW j \in 1..Len(active), NEW k \in 1..Len(active), j < k
        PROVE  at[j] < at[k]
    <3>1. active[k] < active[j]
      BY <2>2, <2>9 DEF NestAt, Decreasing
    <3>2. at[j] \in Handled /\ at[k] \in Handled
      BY <2>5
    <3> QED
      BY <2>5, <2>8, <3>1, <3>2
  <2>10. ASSUME NEW i \in Handled, NEW k \in 1..Len(active), i <= at[k]
         PROVE  \E j \in 1..Len(active) : i = at[j]
    <3>1. at[k] \in Handled /\ queued_signals[at[k]].id = active[k]
      BY <2>5
    <3>2. active[k] <= queued_signals[i].id
      BY <2>8, <2>10, <3>1
    <3>3. PICK j \in 1..Len(active) : active[j] = queued_signals[i].id
      BY <2>2, <2>6, <3>2 DEF NestAt
    <3>4. at[j] \in Handled /\ queued_signals[at[j]].id = queued_signals[i].id
      BY <2>5, <3>3
    <3>5. i = at[j]
      BY <2>8, <3>4
    <3> QED
      BY <3>5
  <2> QED
    BY <2>5, <2>9, <2>10
<1> QED
  BY <1>1, SignalsInvariant, PTL
=============================================================================

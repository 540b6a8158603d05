---------------------------- MODULE PathsProofs ----------------------------
(***************************************************************************)
(* What abs_path_cleanup hands on is clean and names what the path named,  *)
(* and so the working directory is clean and fits PATH_MAX, whatever the   *)
(* paths and their lengths.  Strlen and Named are recursive over a path:   *)
(* both are shown to be a Fold, which exists, is unique, and takes one     *)
(* step for every part that is appended.  Induction is over a set, closed  *)
(* under appending a part, instead of over a formula.                      *)
(***************************************************************************)
EXTENDS Paths, SequenceTheorems, WellFoundedInduction, TLAPS

Type ==
  /\ pwd \in Seq(Part)
  /\ before \in Seq(Part)
  /\ after \in Seq(Part)
  /\ call \in {"none", "kfopen", "kfsetpwd"}

\* The parts that have been passed are names; a slash may be the last.
Passed(b, a) ==
  \A i \in 1..Len(b) : b[i] \in Name \/ (b[i] = "/" /\ i = Len(b) /\ a = <<>>)

\* The path ends with a slash.
EndsWithSlash(b, a) ==
  \/ a # <<>> /\ a[Len(a)] = "/"
  \/ a = <<>> /\ b # <<>> /\ b[Len(b)] = "/"

Inv ==
  /\ Type
  /\ PwdClean
  /\ pc \in {"slash", "check"} => before = <<>> /\ after # <<>>
  /\ pc = "check" => after[Len(after)] = "/"
  /\ pc = "scan" => Passed(before, after)
  /\ pc = "scan" /\ call = "kfsetpwd" => EndsWithSlash(before, after)
  /\ pc \in {"slash", "check"} => call = "kfsetpwd"

-----------------------------------------------------------------------------
(* Starting a call.                                                        *)

LEMMA Empty ==
  ASSUME NEW s \in Seq(Part)
  PROVE  s = <<>> <=> Len(s) = 0
BY EmptySeq

LEMMA ResolvedType ==
  ASSUME Type, NEW p \in Path
  PROVE  Resolved(p) \in Seq(Part) /\ Resolved(p) # <<>>
<1>1. p.absolute \in BOOLEAN /\ p.parts \in Seq(Part) /\ p.parts # <<>>
  BY PathsAssumption
<1>2. CASE p.absolute
  BY <1>1, <1>2 DEF Resolved
<1>3. CASE ~p.absolute
  <2>1. Len(p.parts) \in Nat \ {0} /\ Len(pwd) \in Nat
    BY <1>1 DEF Type
  <2>2. /\ pwd \o p.parts \in Seq(Part)
        /\ Len(pwd \o p.parts) = Len(pwd) + Len(p.parts)
    BY <1>1, ConcatProperties DEF Type
  <2>3. pwd \o p.parts # <<>>
    BY <2>1, <2>2, Empty
  <2> QED
    BY <1>3, <2>2, <2>3 DEF Resolved
<1> QED
  BY <1>1, <1>2, <1>3

LEMMA StartStep ==
  ASSUME Inv, NEW p \in Path, kfopen(p) \/ kfsetpwd(p)
  PROVE  Inv'
<1>1. \/ pc' = "panic" /\ before' = before /\ after' = after
      \/ before' = <<>> /\ after' = Resolved(p) /\ pc' \in {"scan", "slash"}
  BY DEF kfopen, kfsetpwd, resolve_path
<1>2. /\ pwd' = pwd
      /\ \/ call' = "kfsetpwd" /\ pc' \in {"slash", "panic"}
         \/ call' = "kfopen" /\ pc' \in {"scan", "panic"}
  BY DEF kfopen, kfsetpwd, resolve_path
<1>3. Resolved(p) \in Seq(Part) /\ Resolved(p) # <<>>
  BY ResolvedType DEF Inv
<1>4. <<>> \in Seq(Part) /\ Passed(<<>>, Resolved(p))
  BY DEF Passed
<1>5. PwdClean'
  BY <1>2 DEF Inv, PwdClean
<1> QED
  BY <1>1, <1>2, <1>3, <1>4, <1>5 DEF Inv, Type

LEMMA SlashStep ==
  ASSUME Inv, AddSlash
  PROVE  Inv'
<1>1. /\ pc = "slash" /\ pc' = "check"
      /\ pwd' = pwd /\ call' = call /\ before' = before
      /\ after' = IF after[Len(after)] = "/" THEN after ELSE Append(after, "/")
  BY DEF AddSlash, SlashAdded
<1>2. PwdClean'
  BY <1>1 DEF Inv, PwdClean
<1>3. after \in Seq(Part) /\ after # <<>> /\ "/" \in Part
  BY <1>1 DEF Inv, Type, Part, Special
<1>4. /\ Append(after, "/") \in Seq(Part)
      /\ Len(Append(after, "/")) = Len(after) + 1
      /\ Append(after, "/")[Len(after) + 1] = "/"
  BY <1>3
<1>5. after' \in Seq(Part) /\ after'[Len(after')] = "/"
  BY <1>1, <1>3, <1>4
<1>6. after' # <<>>
  BY <1>1, <1>3, <1>4
<1> QED
  BY <1>1, <1>2, <1>5, <1>6 DEF Inv, Type

LEMMA CheckStep ==
  ASSUME Inv, CheckLength
  PROVE  Inv'
<1>1. /\ pc = "check"
      /\ pwd' = pwd /\ before' = before /\ after' = after
      /\ \/ pc' = "user" /\ call' = "none"
         \/ pc' = "scan" /\ call' = call
  BY DEF CheckLength
<1>2. PwdClean'
  BY <1>1 DEF Inv, PwdClean
<1>3. Passed(before, after)' /\ EndsWithSlash(before, after)'
  BY <1>1 DEF Inv, Passed, EndsWithSlash
<1> QED
  BY <1>1, <1>2, <1>3 DEF Inv, Type

-----------------------------------------------------------------------------
(* The loop.                                                               *)

\* The two ways a part disappears, and the one in which it is passed.
LEMMA Removal ==
  ASSUME NEW b \in Seq(Part), NEW a \in Seq(Part), a # <<>>,
         Passed(b, a), NEW c \in Seq(Part), Len(c) <= Len(b),
         \A i \in 1..Len(c) : c[i] = b[i]
  PROVE  /\ Tail(a) \in Seq(Part)
         /\ Passed(c, Tail(a))
         /\ EndsWithSlash(b, a) /\ (Len(a) > 1 \/ a[1] # "/")
              => EndsWithSlash(c, Tail(a))
<1>1. Len(a) \in Nat \ {0} /\ Len(b) \in Nat /\ Len(c) \in Nat
  BY EmptySeq
<1>2. /\ Tail(a) \in Seq(Part) /\ Len(Tail(a)) = Len(a) - 1
      /\ \A i \in 1..(Len(a) - 1) : Tail(a)[i] = a[i + 1]
  BY <1>1
<1>3. \A i \in 1..Len(b) : b[i] \in Name
  BY DEF Passed
<1>4. Passed(c, Tail(a))
  BY <1>1, <1>3 DEF Passed
<1>5. ASSUME EndsWithSlash(b, a), Len(a) > 1 \/ a[1] # "/"
      PROVE  EndsWithSlash(c, Tail(a))
  <2>1. a[Len(a)] = "/" /\ Len(a) > 1
    BY <1>1, <1>5 DEF EndsWithSlash
  <2>2. Tail(a)[Len(a) - 1] = a[Len(a)]
    BY <1>1, <1>2, <2>1
  <2>3. Tail(a) # <<>>
    <3>1. Tail(a) = <<>> <=> Len(Tail(a)) = 0
      BY <1>2, Empty, Zenon
    <3>2. Len(Tail(a)) # 0
      BY <1>1, <1>2, <2>1
    <3> QED
      BY <3>1, <3>2, Zenon
  <2> QED
    BY <1>2, <2>1, <2>2, <2>3 DEF EndsWithSlash
<1> QED
  BY <1>2, <1>4, <1>5

LEMMA Passing ==
  ASSUME NEW b \in Seq(Part), NEW a \in Seq(Part), a # <<>>,
         Passed(b, a), Head(a) \in Name \/ a = <<"/">>
  PROVE  /\ Append(b, Head(a)) \in Seq(Part) /\ Tail(a) \in Seq(Part)
         /\ Passed(Append(b, Head(a)), Tail(a))
         /\ EndsWithSlash(b, a) => EndsWithSlash(Append(b, Head(a)), Tail(a))
<1> DEFINE c == Append(b, Head(a))
<1>1. Len(a) \in Nat \ {0} /\ Len(b) \in Nat /\ Head(a) = a[1]
  BY EmptySeq
<1>2. /\ Tail(a) \in Seq(Part) /\ Len(Tail(a)) = Len(a) - 1
      /\ \A i \in 1..(Len(a) - 1) : Tail(a)[i] = a[i + 1]
  BY <1>1
<1>3. /\ c \in Seq(Part) /\ Len(c) = Len(b) + 1 /\ c[Len(b) + 1] = a[1]
      /\ \A i \in 1..Len(b) : c[i] = b[i]
  BY <1>1
<1>4. \A i \in 1..Len(b) : b[i] \in Name
  BY DEF Passed
<1>5. a[1] \in Name \/ (a[1] = "/" /\ Len(a) = 1)
  BY <1>1
<1>6. Len(a) = 1 <=> Tail(a) = <<>>
  <2>1. Tail(a) = <<>> <=> Len(Tail(a)) = 0
    BY <1>2, Empty, Zenon
  <2> QED
    BY <1>1, <1>2, <2>1
<1> HIDE DEF c
<1>7. Passed(c, Tail(a))
  BY <1>1, <1>3, <1>4, <1>5, <1>6 DEF Passed
<1>8. ASSUME EndsWithSlash(b, a)
      PROVE  EndsWithSlash(c, Tail(a))
  <2>1. a[Len(a)] = "/"
    BY <1>8 DEF EndsWithSlash
  <2>2. CASE Len(a) = 1
    <3>1. c # <<>> /\ c[Len(c)] = "/"
      BY <1>1, <1>3, <2>1, <2>2, Empty
    <3> QED
      BY <1>6, <2>2, <3>1 DEF EndsWithSlash
  <2>3. CASE Len(a) # 1
    <3>1. Tail(a)[Len(a) - 1] = a[Len(a)]
      BY <1>1, <1>2, <2>3
    <3>2. Tail(a) # <<>>
      BY <1>6, <2>3
    <3> QED
      BY <1>2, <2>1, <3>1, <3>2 DEF EndsWithSlash
  <2> QED
    BY <2>2, <2>3
<1> QED
  BY <1>2, <1>3, <1>7, <1>8 DEF c

LEMMA ScanStep ==
  ASSUME Inv, Scan
  PROVE  Inv'
<1>1. /\ pc = "scan" /\ pc' = "scan" /\ call' = call /\ pwd' = pwd
      /\ after # <<>> /\ before \in Seq(Part) /\ after \in Seq(Part)
      /\ Passed(before, after)
      /\ call = "kfsetpwd" => EndsWithSlash(before, after)
  BY DEF Scan, Inv, Type
<1>2. PwdClean'
  BY <1>1 DEF Inv, PwdClean
<1>3. SUFFICES /\ before' \in Seq(Part) /\ after' \in Seq(Part)
               /\ Passed(before', after')
               /\ EndsWithSlash(before, after) => EndsWithSlash(before', after')
  BY <1>1, <1>2, <1>3 DEF Inv, Type
<1>4. Len(before) \in Nat /\ Len(after) \in Nat \ {0} /\ Head(after) = after[1]
  BY <1>1, EmptySeq
<1>5. CASE RemoveNext /\ (Len(after) > 1 \/ after[1] # "/")
  <2>1. before' = before /\ after' = Tail(after)
    BY <1>5 DEF RemoveNext
  <2>2. /\ Tail(after) \in Seq(Part)
        /\ Passed(before, Tail(after))
        /\ EndsWithSlash(before, after) => EndsWithSlash(before, Tail(after))
    BY <1>1, <1>4, <1>5, Removal
  <2> QED
    BY <1>1, <2>1, <2>2
<1>6. CASE Head(after) = ".." /\ Len(before) > 1
           /\ before' = SubSeq(before, 1, Len(before) - 1)
           /\ after' = Tail(after)
  <2> DEFINE c == SubSeq(before, 1, Len(before) - 1)
  <2>1. /\ c \in Seq(Part) /\ Len(c) = Len(before) - 1
        /\ \A i \in 1..Len(c) : c[i] = before[i]
    BY <1>1, <1>4, <1>6
  <2> HIDE DEF c
  <2>2. Len(c) <= Len(before) /\ after[1] # "/"
    BY <1>4, <1>6, <2>1
  <2>3. /\ Tail(after) \in Seq(Part)
        /\ Passed(c, Tail(after))
        /\ EndsWithSlash(before, after) => EndsWithSlash(c, Tail(after))
    BY <1>1, <2>1, <2>2, Removal
  <2> QED
    BY <1>6, <2>1, <2>3 DEF c
<1>7. CASE (Head(after) \in Name \/ after = <<"/">>) /\ Pass
  <2>1. before' = Append(before, Head(after)) /\ after' = Tail(after)
    BY <1>7 DEF Pass
  <2> QED
    BY <1>1, <1>7, <2>1, Passing
<1> QED
  BY <1>4, <1>5, <1>6, <1>7 DEF Scan, DotDot

LEMMA DoneStep ==
  ASSUME Inv, Done
  PROVE  Inv'
<1>1. /\ pc = "scan" /\ after = <<>> /\ pc' = "user" /\ call' = "none"
      /\ pwd' = IF call = "kfsetpwd" THEN before ELSE pwd
      /\ before' = before /\ after' = after
  BY DEF Done
<1>2. CASE call = "kfsetpwd"
  <2>1. Passed(before, after) /\ before # <<>> /\ before[Len(before)] = "/"
    BY <1>1, <1>2 DEF Inv, EndsWithSlash
  <2>2. before \in Seq(Part) /\ Len(before) \in Nat
    BY DEF Inv, Type
  <2>3. \A i \in 1..(Len(before) - 1) : before[i] \in Name
    BY <2>1, <2>2 DEF Passed
  <2>4. pwd' = before
    BY <1>1, <1>2
  <2>5. PwdClean'
    BY <2>1, <2>3, <2>4 DEF PwdClean
  <2> QED
    BY <1>1, <2>2, <2>4, <2>5 DEF Inv, Type
<1>3. CASE call # "kfsetpwd"
  <2>1. PwdClean'
    BY <1>1, <1>3 DEF Inv, PwdClean
  <2> QED
    BY <1>1, <1>3, <2>1 DEF Inv, Type
<1> QED
  BY <1>2, <1>3

LEMMA Start ==
  ASSUME Init
  PROVE  Inv
<1>1. <<"/">> \in Seq(Part) /\ Len(<<"/">>) = 1 /\ <<"/">>[1] = "/"
  BY DEF Part, Special
<1>2. <<>> \in Seq(Part)
  OBVIOUS
<1> QED
  BY <1>1, <1>2 DEF Init, Inv, Type, PwdClean

LEMMA Step ==
  ASSUME Inv, [Next]_vars
  PROVE  Inv'
<1>1. CASE UNCHANGED vars
  BY <1>1 DEF vars, Inv, Type, PwdClean, Passed, EndsWithSlash
<1> QED
  BY <1>1, StartStep, SlashStep, CheckStep, ScanStep, DoneStep DEF Next

-----------------------------------------------------------------------------
(***************************************************************************)
(* The working directory is always absolute and clean                      *)
(* (filesystem.c:643-664), and abs_path_cleanup leaves no "//", "/." or    *)
(* "/.." (filesystem.c:145-175).                                           *)
(***************************************************************************)
THEOREM PathsAlwaysClean == Spec => []PathsClean
<1>1. Inv => PwdClean
  BY DEF Inv
<1>2. Inv => OutcomeClean
  BY DEF Inv, OutcomeClean, Passed
<1>3. Inv => PathsClean
  BY <1>1, <1>2 DEF PathsClean
<1> QED
  BY <1>3, Start, Step, PTL DEF Spec

-----------------------------------------------------------------------------
(* Recursion over a path, part by part: F[x] is what part x makes of the   *)
(* value so far.                                                           *)

IsFold(F, s0, p, g) ==
  /\ DOMAIN g = 0..Len(p)
  /\ g[0] = s0
  /\ \A i \in 1..Len(p) : g[i] = F[p[i]][g[i - 1]]

Fold(F, S, s0, p) == (CHOOSE g \in [0..Len(p) -> S] : IsFold(F, s0, p, g))[Len(p)]

LEMMA LeastOf ==
  ASSUME NEW S, S \subseteq Nat, S # {}
  PROVE  \E k \in S : \A j \in S : k <= j
<1>1. \E k \in S : \A j \in S : ~(<<j, k>> \in OpToRel(<, Nat))
  BY NatLessThanWellFounded, WFMin
<1>2. OpToRel(<, Nat) = {ss \in Nat \X Nat : ss[1] < ss[2]}
  BY Zenon DEF OpToRel
<1>3. \A j, k \in Nat : <<j, k>> \in {ss \in Nat \X Nat : ss[1] < ss[2]} <=> j < k
  OBVIOUS
<1>4. \E k \in S : \A j \in S : ~(j < k)
  BY <1>1, <1>2, <1>3, Zenon
<1> QED
  BY <1>4

\* Induction up to n, over a set instead of a formula.
LEMMA Upwards ==
  ASSUME NEW n \in Nat, NEW T, 0 \in T,
         \A i \in 1..n : i - 1 \in T => i \in T
  PROVE  0..n \subseteq T
<1> DEFINE missing == {i \in 0..n : i \notin T}
<1>1. SUFFICES ASSUME missing # {} PROVE FALSE
  BY DEF missing
<1>2. missing \subseteq Nat
  BY DEF missing
<1> HIDE DEF missing
<1>3. PICK k \in missing : \A j \in missing : k <= j
  BY <1>1, <1>2, LeastOf
<1>4. k \in 0..n /\ k \notin T
  BY <1>3 DEF missing
<1>5. k \in 1..n
  BY <1>4
<1>6. k - 1 \notin missing
  BY <1>3, <1>5
<1>7. k - 1 \in T
  BY <1>5, <1>6 DEF missing
<1> QED
  BY <1>4, <1>5, <1>7

\* The same over paths, from one to those with a part more.
LEMMA PartByPart ==
  ASSUME NEW T, <<>> \in T,
         \A p \in Seq(Part), x \in Part : p \in T => Append(p, x) \in T
  PROVE  Seq(Part) \subseteq T
<1> SUFFICES ASSUME NEW p \in Seq(Part) PROVE p \in T
  OBVIOUS
<1> DEFINE ok == {i \in 0..Len(p) : SubSeq(p, 1, i) \in T}
<1>1. Len(p) \in Nat
  OBVIOUS
<1>2. 0 \in ok
  <2>1. SubSeq(p, 1, 0) \in Seq(Part) /\ Len(SubSeq(p, 1, 0)) = 0
    BY <1>1
  <2>2. SubSeq(p, 1, 0) = <<>>
    BY <2>1, EmptySeq, Zenon
  <2>3. 0 \in 0..Len(p)
    BY <1>1
  <2> QED
    BY <2>2, <2>3, Zenon
<1>3. ASSUME NEW i \in 1..Len(p), i - 1 \in ok
      PROVE  i \in ok
  <2>1. /\ SubSeq(p, 1, i - 1) \in Seq(Part) /\ SubSeq(p, 1, i - 1) \in T
        /\ p[i] \in Part
    BY <1>3
  <2>2. SubSeq(p, 1, i) = Append(SubSeq(p, 1, i - 1), p[i])
    BY <1>1
  <2>3. Append(SubSeq(p, 1, i - 1), p[i]) \in T
    BY <2>1
  <2>4. i \in 0..Len(p)
    BY <1>1
  <2> QED
    BY <2>2, <2>3, <2>4, Zenon
<1> HIDE DEF ok
<1>4. 0..Len(p) \subseteq ok
  BY <1>1, <1>2, <1>3, Upwards
<1>5. SubSeq(p, 1, Len(p)) \in T
  BY <1>1, <1>4 DEF ok
<1>6. SubSeq(p, 1, Len(p)) = p
  BY SubSeqFull
<1> QED
  BY <1>5, <1>6, Zenon

\* The value at i depends on the parts up to i only.
SameUpTo(n, p, q) == \A i \in 1..n : p[i] = q[i]
AgreeAt(n, g, h) == g[n] = h[n]

LEMMA FoldUnique ==
  ASSUME NEW F, NEW s0, NEW p \in Seq(Part), NEW q \in Seq(Part), NEW g, NEW h,
         IsFold(F, s0, p, g), IsFold(F, s0, q, h),
         NEW n \in Nat, n <= Len(p), n <= Len(q), SameUpTo(n, p, q)
  PROVE  AgreeAt(n, g, h)
<1> DEFINE same == {i \in 0..n : g[i] = h[i]}
<1>1. n \in Nat /\ Len(p) \in Nat /\ Len(q) \in Nat
  OBVIOUS
<1>2. 0 \in same
  BY DEF IsFold
<1>3. ASSUME NEW i \in 1..n, i - 1 \in same
      PROVE  i \in same
  <2>1. g[i] = F[p[i]][g[i - 1]] /\ h[i] = F[q[i]][h[i - 1]]
    BY <1>1 DEF IsFold
  <2>2. g[i - 1] = h[i - 1] /\ p[i] = q[i]
    BY <1>3 DEF SameUpTo
  <2>3. g[i] = h[i]
    BY <2>1, <2>2
  <2> QED
    BY <2>3
<1> HIDE DEF same
<1>4. 0..n \subseteq same
  BY <1>1, <1>2, <1>3, Upwards
<1> QED
  BY <1>1, <1>4 DEF same, AgreeAt

LEMMA FoldExists ==
  ASSUME NEW S, NEW F \in [Part -> [S -> S]], NEW s0 \in S, NEW path \in Seq(Part)
  PROVE  \E g \in [0..Len(path) -> S] : IsFold(F, s0, path, g)
<1> DEFINE T == {p \in Seq(Part) : \E g \in [0..Len(p) -> S] : IsFold(F, s0, p, g)}
<1>1. <<>> \in T
  <2> DEFINE g == [i \in 0..0 |-> s0]
  <2>1. g \in [0..Len(<<>>) -> S] /\ IsFold(F, s0, <<>>, g)
    BY DEF IsFold
  <2> QED
    BY <2>1
<1>2. ASSUME NEW p \in Seq(Part), NEW x \in Part, p \in T
      PROVE  Append(p, x) \in T
  <2>1. PICK g \in [0..Len(p) -> S] : IsFold(F, s0, p, g)
    BY <1>2
  <2> DEFINE n == Len(p)
             q == Append(p, x)
             h == [i \in 0..Len(q) |-> IF i = n + 1 THEN F[x][g[n]] ELSE g[i]]
  <2>2. n \in Nat /\ q \in Seq(Part) /\ Len(q) = n + 1 /\ q[n + 1] = x
        /\ \A i \in 1..n : q[i] = p[i]
    OBVIOUS
  <2> HIDE DEF q
  <2>3. h \in [0..Len(q) -> S]
    BY <2>2
  <2>4. h[0] = s0
    BY <2>1, <2>2 DEF IsFold
  <2>5. ASSUME NEW i \in 1..Len(q)
        PROVE  h[i] = F[q[i]][h[i - 1]]
    <3>1. CASE i = n + 1
      <4>1. h[i] = F[x][g[n]] /\ h[i - 1] = g[n] /\ q[i] = x
        BY <2>2, <3>1
      <4> QED
        BY <4>1, Zenon
    <3>2. CASE i # n + 1
      <4>1. i \in 1..n
        BY <2>2, <3>2
      <4>2. h[i] = g[i] /\ h[i - 1] = g[i - 1] /\ q[i] = p[i]
        BY <2>2, <4>1
      <4>3. g[i] = F[p[i]][g[i - 1]]
        BY <2>1, <4>1 DEF IsFold
      <4> QED
        BY <4>2, <4>3, Zenon
    <3> QED
      BY <3>1, <3>2
  <2>6. IsFold(F, s0, q, h)
    BY <2>4, <2>5 DEF IsFold
  <2> QED
    BY <2>2, <2>3, <2>6 DEF q
<1> HIDE DEF T
<1>3. Seq(Part) \subseteq T
  BY <1>1, <1>2, PartByPart
<1> QED
  BY <1>3 DEF T

LEMMA FoldOf ==
  ASSUME NEW S, NEW F \in [Part -> [S -> S]], NEW s0 \in S, NEW p \in Seq(Part)
  PROVE  \E g \in [0..Len(p) -> S] : IsFold(F, s0, p, g) /\ Fold(F, S, s0, p) = g[Len(p)]
<1>1. \E g \in [0..Len(p) -> S] : IsFold(F, s0, p, g)
  BY FoldExists
<1> DEFINE c == CHOOSE g \in [0..Len(p) -> S] : IsFold(F, s0, p, g)
<1>2. c \in [0..Len(p) -> S] /\ IsFold(F, s0, p, c)
  BY <1>1, Zenon
<1>3. Fold(F, S, s0, p) = c[Len(p)]
  BY Zenon DEF Fold
<1> QED
  BY <1>2, <1>3, Zenon

\* What a path with a part more amounts to.
LEMMA FoldStep ==
  ASSUME NEW S, NEW F \in [Part -> [S -> S]], NEW s0 \in S,
         NEW p \in Seq(Part), NEW x \in Part
  PROVE  /\ Fold(F, S, s0, p) \in S
         /\ Fold(F, S, s0, Append(p, x)) = F[x][Fold(F, S, s0, p)]
<1> DEFINE n == Len(p)
           q == Append(p, x)
<1>1. n \in Nat /\ q \in Seq(Part) /\ Len(q) = n + 1 /\ q[n + 1] = x
      /\ \A i \in 1..n : q[i] = p[i]
  OBVIOUS
<1> HIDE DEF q
<1>2. PICK g \in [0..n -> S] : IsFold(F, s0, p, g) /\ Fold(F, S, s0, p) = g[n]
  BY FoldOf
<1>3. PICK h \in [0..Len(q) -> S] : IsFold(F, s0, q, h) /\ Fold(F, S, s0, q) = h[Len(q)]
  BY <1>1, FoldOf
<1>4. g[n] = h[n]
  <2>1. n <= Len(p) /\ n <= Len(q)
    BY <1>1
  <2>2. SameUpTo(n, p, q)
    BY <1>1, Zenon DEF SameUpTo
  <2>3. n \in Nat /\ q \in Seq(Part) /\ IsFold(F, s0, p, g) /\ IsFold(F, s0, q, h)
    BY <1>1, <1>2, <1>3, Zenon
  <2>4. AgreeAt(n, g, h)
    BY <2>1, <2>2, <2>3, FoldUnique, Zenon
  <2> QED
    BY <2>4 DEF AgreeAt
<1>5. h[n + 1] = F[q[n + 1]][h[n]]
  <2>1. \A i \in 1..Len(q) : h[i] = F[q[i]][h[i - 1]]
    BY <1>3 DEF IsFold
  <2>2. n + 1 \in 1..Len(q) /\ (n + 1) - 1 = n
    BY <1>1
  <2> QED
    BY <2>1, <2>2
<1>6. g[n] \in S
  BY <1>1, <1>2
<1>7. Fold(F, S, s0, q) = F[x][Fold(F, S, s0, p)]
  BY <1>1, <1>2, <1>3, <1>4, <1>5, Zenon
<1> QED
  BY <1>2, <1>6, <1>7 DEF q

LEMMA FoldEmpty ==
  ASSUME NEW S, NEW F \in [Part -> [S -> S]], NEW s0 \in S
  PROVE  Fold(F, S, s0, <<>>) = s0
<1>1. <<>> \in Seq(Part) /\ Len(<<>>) = 0
  OBVIOUS
<1>2. \E g \in [0..Len(<<>>) -> S] :
        IsFold(F, s0, <<>>, g) /\ Fold(F, S, s0, <<>>) = g[Len(<<>>)]
  BY <1>1, FoldOf, Zenon
<1>3. PICK g : IsFold(F, s0, <<>>, g) /\ Fold(F, S, s0, <<>>) = g[0]
  BY <1>1, <1>2, Zenon
<1> QED
  BY <1>3, Zenon DEF IsFold

-----------------------------------------------------------------------------
(* The length of a path, and what it names.                                *)

LenStep == [x \in Part |-> [v \in Nat |-> v + 1 + PartWidth(x)]]

LEMMA Widths ==
  ASSUME NEW x \in Part
  PROVE  PartWidth(x) \in Nat
<1>1. x \in Name => x # "/" /\ x # "." /\ x # ".."
  BY PathsAssumption DEF Special
<1>2. x \in Name => Width[x] \in Nat
  BY PathsAssumption
<1>3. CASE x \in Name
  BY <1>1, <1>2, <1>3 DEF PartWidth
<1>4. CASE x \notin Name
  BY <1>4 DEF PartWidth, Part, Special
<1> QED
  BY <1>3, <1>4

LEMMA LenSteps ==
  /\ LenStep \in [Part -> [Nat -> Nat]]
  /\ \A x \in Part, v \in Nat : LenStep[x][v] = v + 1 + PartWidth(x)
<1>1. \A x \in Part : PartWidth(x) \in Nat
  BY Widths
<1> QED
  BY <1>1 DEF LenStep

StrlenUpTo(p, f) ==
  f = [i \in 0..Len(p) |-> IF i = 0 THEN 0 ELSE f[i - 1] + 1 + PartWidth(p[i])]

LEMMA StrlenIsFold ==
  ASSUME NEW p \in Seq(Part)
  PROVE  Strlen(p) = Fold(LenStep, Nat, 0, p)
<1> DEFINE n == Len(p)
<1>1. n \in Nat /\ \A i \in 1..n : p[i] \in Part
  OBVIOUS
<1>2. PICK g \in [0..n -> Nat] :
        IsFold(LenStep, 0, p, g) /\ Fold(LenStep, Nat, 0, p) = g[n]
  <2> DEFINE N == Nat
             zero == 0
  <2>1. LenStep \in [Part -> [N -> N]] /\ zero \in N
    BY LenSteps
  <2> HIDE DEF N, zero
  <2>2. \E g \in [0..n -> N] :
          IsFold(LenStep, zero, p, g) /\ Fold(LenStep, N, zero, p) = g[n]
    BY <2>1, FoldOf
  <2> QED
    BY <2>2 DEF N, zero
<1>3. \A i \in 1..n : g[i] = g[i - 1] + 1 + PartWidth(p[i])
  <2>1. SUFFICES ASSUME NEW i \in 1..n
                 PROVE  g[i] = g[i - 1] + 1 + PartWidth(p[i])
    OBVIOUS
  <2>2. g[i] = LenStep[p[i]][g[i - 1]]
    BY <1>2 DEF IsFold
  <2>3. p[i] \in Part /\ g[i - 1] \in Nat
    BY <1>1, <1>2
  <2> QED
    BY <2>2, <2>3, LenSteps
<1>4. g[0] = 0
  BY <1>2 DEF IsFold
<1>5. StrlenUpTo(p, g)
  BY <1>1, <1>2, <1>3, <1>4 DEF StrlenUpTo
<1> DEFINE u == CHOOSE f : StrlenUpTo(p, f)
<1>6. StrlenUpTo(p, u)
  BY <1>5, Zenon
<1>7. Strlen(p) = u[n]
  BY Zenon DEF Strlen, StrlenUpTo
<1> HIDE DEF u
<1>8. u[0] = 0 /\ \A i \in 1..n : u[i] = u[i - 1] + 1 + PartWidth(p[i])
  BY <1>1, <1>6 DEF StrlenUpTo
<1> DEFINE same == {i \in 0..n : u[i] = g[i]}
<1>9. 0 \in same
  BY <1>1, <1>4, <1>8
<1>10. ASSUME NEW i \in 1..n, i - 1 \in same
       PROVE  i \in same
  BY <1>1, <1>3, <1>8, <1>10
<1> HIDE DEF same
<1>11. 0..n \subseteq same
  BY <1>1, <1>9, <1>10, Upwards
<1>12. u[n] = g[n]
  BY <1>1, <1>11 DEF same
<1> QED
  BY <1>2, <1>7, <1>12, Zenon

LEMMA StrlenAppend ==
  ASSUME NEW p \in Seq(Part), NEW x \in Part
  PROVE  /\ Strlen(p) \in Nat
         /\ Strlen(Append(p, x)) = Strlen(p) + 1 + PartWidth(x)
<1>1. Append(p, x) \in Seq(Part)
  OBVIOUS
<1>2. /\ Strlen(p) = Fold(LenStep, Nat, 0, p)
      /\ Strlen(Append(p, x)) = Fold(LenStep, Nat, 0, Append(p, x))
  BY <1>1, StrlenIsFold
<1>3. /\ Fold(LenStep, Nat, 0, p) \in Nat
      /\ Fold(LenStep, Nat, 0, Append(p, x)) = LenStep[x][Fold(LenStep, Nat, 0, p)]
  <2> DEFINE N == Nat
             zero == 0
  <2>1. LenStep \in [Part -> [N -> N]] /\ zero \in N
    BY LenSteps
  <2> HIDE DEF N, zero
  <2>2. /\ Fold(LenStep, N, zero, p) \in N
        /\ Fold(LenStep, N, zero, Append(p, x)) = LenStep[x][Fold(LenStep, N, zero, p)]
    BY <2>1, FoldStep
  <2> QED
    BY <2>2 DEF N, zero
<1> QED
  BY <1>2, <1>3, LenSteps

LEMMA StrlenEmpty == Strlen(<<>>) = 0
<1>1. <<>> \in Seq(Part)
  OBVIOUS
<1>2. Strlen(<<>>) = Fold(LenStep, Nat, 0, <<>>)
  BY <1>1, StrlenIsFold
<1>3. Fold(LenStep, Nat, 0, <<>>) = 0
  BY LenSteps, FoldEmpty
<1> QED
  BY <1>2, <1>3

LEMMA StrlenConcat ==
  ASSUME NEW p \in Seq(Part), NEW q \in Seq(Part)
  PROVE  Strlen(p \o q) = Strlen(p) + Strlen(q)
<1> DEFINE T == {t \in Seq(Part) : Strlen(p \o t) = Strlen(p) + Strlen(t)}
<1>1. <<>> \in T
  <2>1. p \o <<>> = p /\ <<>> \in Seq(Part)
    BY ConcatEmptySeq
  <2>2. Strlen(p) \in Nat
    BY StrlenAppend, "/" \in Part DEF Part, Special
  <2> QED
    BY <2>1, <2>2, StrlenEmpty
<1>2. ASSUME NEW t \in Seq(Part), NEW x \in Part, t \in T
      PROVE  Append(t, x) \in T
  <2>1. p \o Append(t, x) = Append(p \o t, x)
    OBVIOUS
  <2>2. p \o t \in Seq(Part) /\ Append(t, x) \in Seq(Part)
    OBVIOUS
  <2>3. /\ Strlen(p) \in Nat /\ Strlen(t) \in Nat /\ PartWidth(x) \in Nat
        /\ Strlen(Append(p \o t, x)) = Strlen(p \o t) + 1 + PartWidth(x)
        /\ Strlen(Append(t, x)) = Strlen(t) + 1 + PartWidth(x)
    BY <2>2, StrlenAppend, Widths
  <2>4. Strlen(p \o t) = Strlen(p) + Strlen(t)
    BY <1>2
  <2>5. Strlen(Append(p \o t, x)) = Strlen(p) + Strlen(Append(t, x))
    BY <2>3, <2>4
  <2> QED
    BY <2>1, <2>2, <2>5, Zenon
<1> HIDE DEF T
<1>3. Seq(Part) \subseteq T
  BY <1>1, <1>2, PartByPart
<1> QED
  BY <1>3 DEF T

-----------------------------------------------------------------------------
\* Where a part leads from directory d.
From(d, x) ==
  CASE x \in Name -> Append(d, x)
    [] x \in {"/", "."} -> d
    [] x = ".." -> IF d = <<>> THEN <<>> ELSE SubSeq(d, 1, Len(d) - 1)

NameStep == [x \in Part |-> [d \in Seq(Name) |-> From(d, x)]]

LEMMA Leads ==
  ASSUME NEW d \in Seq(Name)
  PROVE  /\ \A x \in Part : From(d, x) \in Seq(Name)
         /\ \A x \in Name : From(d, x) = Append(d, x)
         /\ From(d, "/") = d /\ From(d, ".") = d
         /\ \A x \in Name : From(Append(d, x), "..") = d
         /\ From(<<>>, "..") = <<>>
<1>1. \A x \in Name : x # "/" /\ x # "." /\ x # ".."
  BY PathsAssumption DEF Special
<1>2. \A x \in Name : From(d, x) = Append(d, x)
  BY <1>1 DEF From
<1>3. From(d, "/") = d /\ From(d, ".") = d
  BY <1>1 DEF From
<1>4. From(<<>>, "..") = <<>>
  BY <1>1 DEF From
<1>5. \A e \in Seq(Name) :
        From(e, "..") = IF e = <<>> THEN <<>> ELSE SubSeq(e, 1, Len(e) - 1)
  BY <1>1 DEF From
<1>6. ASSUME NEW x \in Name
      PROVE  From(Append(d, x), "..") = d
  <2>1. Append(d, x) \in Seq(Name) /\ Len(Append(d, x)) - 1 = Len(d)
    OBVIOUS
  <2>2. Append(d, x) # <<>>
    BY <2>1, EmptySeq
  <2>3. SubSeq(Append(d, x), 1, Len(d)) = d
    OBVIOUS
  <2> QED
    BY <1>5, <2>1, <2>2, <2>3
<1>7. From(d, "..") \in Seq(Name)
  <2>1. CASE d = <<>>
    BY <1>4, <2>1
  <2>2. CASE d # <<>>
    <3>1. SubSeq(d, 1, Len(d) - 1) \in Seq(Name)
      BY <2>2, EmptySeq
    <3> QED
      BY <1>5, <2>2, <3>1
  <2> QED
    BY <2>1, <2>2
<1>8. \A x \in Name : Append(d, x) \in Seq(Name)
  OBVIOUS
<1>9. ASSUME NEW x \in Part
      PROVE  From(d, x) \in Seq(Name)
  <2>1. x \in Name \/ x = "/" \/ x = "." \/ x = ".."
    BY DEF Part, Special
  <2> QED
    BY <1>2, <1>3, <1>7, <1>8, <2>1, Zenon
<1> QED
  BY <1>2, <1>3, <1>4, <1>6, <1>9

LEMMA NameSteps ==
  /\ NameStep \in [Part -> [Seq(Name) -> Seq(Name)]]
  /\ \A x \in Part, d \in Seq(Name) : NameStep[x][d] = From(d, x)
<1>1. \A x \in Part, d \in Seq(Name) : From(d, x) \in Seq(Name)
  BY Leads
<1> QED
  BY <1>1 DEF NameStep

NamedUpTo(p, f) ==
  f = [i \in 0..Len(p) |->
         IF i = 0 THEN <<>>
         ELSE CASE p[i] \in Name -> Append(f[i - 1], p[i])
                [] p[i] \in {"/", "."} -> f[i - 1]
                [] p[i] = ".." ->
                     IF f[i - 1] = <<>> THEN <<>>
                     ELSE SubSeq(f[i - 1], 1, Len(f[i - 1]) - 1)]

LEMMA NamedUpToIs ==
  ASSUME NEW p, NEW f
  PROVE  NamedUpTo(p, f) <=>
           f = [i \in 0..Len(p) |-> IF i = 0 THEN <<>> ELSE From(f[i - 1], p[i])]
BY Zenon DEF NamedUpTo, From

LEMMA NamedIsFold ==
  ASSUME NEW p \in Seq(Part)
  PROVE  Named(p) = Fold(NameStep, Seq(Name), <<>>, p)
<1> DEFINE n == Len(p)
           D == Seq(Name)
           root == <<>>
<1>1. n \in Nat /\ \A i \in 1..n : p[i] \in Part
  OBVIOUS
<1>2. NameStep \in [Part -> [D -> D]] /\ root \in D
  BY NameSteps
<1>3. \A x \in Part, d \in D : NameStep[x][d] = From(d, x)
  BY NameSteps
<1> HIDE DEF D, root
<1>4. PICK g \in [0..n -> D] :
        IsFold(NameStep, root, p, g) /\ Fold(NameStep, D, root, p) = g[n]
  BY <1>2, FoldOf
<1>5. \A i \in 1..n : g[i] = From(g[i - 1], p[i])
  <2>1. SUFFICES ASSUME NEW i \in 1..n
                 PROVE  g[i] = From(g[i - 1], p[i])
    OBVIOUS
  <2>2. g[i] = NameStep[p[i]][g[i - 1]]
    BY <1>4 DEF IsFold
  <2>3. p[i] \in Part /\ g[i - 1] \in D
    BY <1>1, <1>4
  <2> QED
    BY <1>3, <2>2, <2>3, Zenon
<1>6. g[0] = root
  BY <1>4 DEF IsFold
<1>7. NamedUpTo(p, g)
  <2>1. g = [i \in 0..n |-> IF i = 0 THEN root ELSE From(g[i - 1], p[i])]
    BY <1>1, <1>4, <1>5, <1>6
  <2> QED
    BY <2>1, NamedUpToIs, Zenon DEF root
<1> DEFINE u == CHOOSE f : NamedUpTo(p, f)
<1>8. NamedUpTo(p, u)
  BY <1>7, Zenon
<1>9. Named(p) = u[n]
  BY Zenon DEF Named, NamedUpTo
<1> HIDE DEF u
<1>10. u[0] = root /\ \A i \in 1..n : u[i] = From(u[i - 1], p[i])
  <2>1. u = [i \in 0..n |-> IF i = 0 THEN root ELSE From(u[i - 1], p[i])]
    BY <1>8, NamedUpToIs, Zenon DEF root
  <2> QED
    BY <1>1, <2>1
<1> DEFINE same == {i \in 0..n : u[i] = g[i]}
<1>11. 0 \in same
  BY <1>1, <1>6, <1>10
<1>12. ASSUME NEW i \in 1..n, i - 1 \in same
       PROVE  i \in same
  BY <1>1, <1>5, <1>10, <1>12
<1> HIDE DEF same
<1>13. 0..n \subseteq same
  BY <1>1, <1>11, <1>12, Upwards
<1>14. u[n] = g[n]
  BY <1>1, <1>13 DEF same
<1> QED
  BY <1>4, <1>9, <1>14, Zenon DEF D, root

LEMMA NamedAppend ==
  ASSUME NEW p \in Seq(Part), NEW x \in Part
  PROVE  Named(p) \in Seq(Name) /\ Named(Append(p, x)) = From(Named(p), x)
<1> DEFINE D == Seq(Name)
           root == <<>>
<1>1. Append(p, x) \in Seq(Part)
  OBVIOUS
<1>2. /\ Named(p) = Fold(NameStep, D, root, p)
      /\ Named(Append(p, x)) = Fold(NameStep, D, root, Append(p, x))
  BY <1>1, NamedIsFold
<1>3. /\ NameStep \in [Part -> [D -> D]] /\ root \in D
      /\ \A d \in D : NameStep[x][d] = From(d, x)
  BY NameSteps
<1> HIDE DEF D, root
<1>4. /\ Fold(NameStep, D, root, p) \in D
      /\ Fold(NameStep, D, root, Append(p, x)) = NameStep[x][Fold(NameStep, D, root, p)]
  BY <1>3, FoldStep
<1> QED
  BY <1>2, <1>3, <1>4, Zenon DEF D

LEMMA NamedEmpty == Named(<<>>) = <<>>
<1> DEFINE D == Seq(Name)
           root == <<>>
<1>1. <<>> \in Seq(Part)
  OBVIOUS
<1>2. Named(<<>>) = Fold(NameStep, D, root, <<>>)
  BY <1>1, NamedIsFold
<1>3. NameStep \in [Part -> [D -> D]] /\ root \in D
  BY NameSteps
<1> HIDE DEF D, root
<1>4. Fold(NameStep, D, root, <<>>) = root
  BY <1>3, FoldEmpty
<1> QED
  BY <1>2, <1>4, Zenon DEF root

\* From one directory the same path leads to one directory.
LEMMA NamedConcat ==
  ASSUME NEW b \in Seq(Part), NEW c \in Seq(Part), Named(b) = Named(c),
         NEW q \in Seq(Part)
  PROVE  Named(b \o q) = Named(c \o q)
<1> DEFINE T == {t \in Seq(Part) : Named(b \o t) = Named(c \o t)}
<1>1. <<>> \in T
  <2>1. b \o <<>> = b /\ c \o <<>> = c /\ <<>> \in Seq(Part)
    BY ConcatEmptySeq
  <2> QED
    BY <2>1
<1>2. ASSUME NEW t \in Seq(Part), NEW x \in Part, t \in T
      PROVE  Append(t, x) \in T
  <2>1. /\ b \o Append(t, x) = Append(b \o t, x)
        /\ c \o Append(t, x) = Append(c \o t, x)
    OBVIOUS
  <2>2. b \o t \in Seq(Part) /\ c \o t \in Seq(Part) /\ Append(t, x) \in Seq(Part)
    OBVIOUS
  <2>3. /\ Named(Append(b \o t, x)) = From(Named(b \o t), x)
        /\ Named(Append(c \o t, x)) = From(Named(c \o t), x)
    BY <2>2, NamedAppend
  <2>4. Named(b \o t) = Named(c \o t)
    BY <1>2
  <2>5. Named(b \o Append(t, x)) = Named(c \o Append(t, x))
    BY <2>1, <2>3, <2>4, Zenon
  <2> QED
    BY <2>2, <2>5, Zenon
<1> HIDE DEF T
<1>3. Seq(Part) \subseteq T
  BY <1>1, <1>2, PartByPart
<1> QED
  BY <1>3 DEF T

-----------------------------------------------------------------------------
(* The length of the working directory: kfsetpwd looks at it after it has  *)
(* added the slash, and the loop makes no path longer.                     *)

LengthInv ==
  /\ pc \in {"user", "slash", "check", "scan", "panic"}
  /\ Strlen(pwd) <= PATH_MAX
  /\ pc = "scan" /\ call = "kfsetpwd" => Strlen(before) + Strlen(after) <= PATH_MAX

\* The two ends of a path.
LEMMA Ends ==
  ASSUME NEW p \in Seq(Part), p # <<>>
  PROVE  /\ Head(p) \in Part /\ Tail(p) \in Seq(Part) /\ p = <<Head(p)>> \o Tail(p)
         /\ SubSeq(p, 1, Len(p) - 1) \in Seq(Part) /\ p[Len(p)] \in Part
         /\ p = Append(SubSeq(p, 1, Len(p) - 1), p[Len(p)])
<1>1. Len(p) \in Nat \ {0}
  BY EmptySeq
<1> QED
  BY <1>1

LEMMA OnePart ==
  ASSUME NEW x \in Part
  PROVE  <<x>> \in Seq(Part) /\ <<x>> = Append(<<>>, x)
OBVIOUS

LEMMA StrlenParts ==
  ASSUME NEW p \in Seq(Part), p # <<>>
  PROVE  /\ Strlen(p) = 1 + PartWidth(Head(p)) + Strlen(Tail(p))
         /\ Strlen(SubSeq(p, 1, Len(p) - 1)) <= Strlen(p)
<1> DEFINE h == Head(p)
           t == Tail(p)
           f == SubSeq(p, 1, Len(p) - 1)
           l == p[Len(p)]
<1>1. h \in Part /\ t \in Seq(Part) /\ f \in Seq(Part) /\ l \in Part
  BY Ends
<1>2. p = <<h>> \o t /\ p = Append(f, l)
  BY Ends
<1> HIDE DEF h, t, f, l
<1>3. PartWidth(h) \in Nat /\ PartWidth(l) \in Nat
  BY <1>1, Widths
<1>4. Strlen(<<h>>) = 1 + PartWidth(h)
  <2>1. <<>> \in Seq(Part)
    OBVIOUS
  <2>2. Strlen(Append(<<>>, h)) = Strlen(<<>>) + 1 + PartWidth(h)
    BY <1>1, <2>1, StrlenAppend
  <2>3. <<h>> = Append(<<>>, h)
    BY <1>1, OnePart
  <2>4. Strlen(<<h>>) = 0 + 1 + PartWidth(h)
    BY <2>2, <2>3, StrlenEmpty, Zenon
  <2> QED
    BY <1>3, <2>4
<1>5. Strlen(<<h>> \o t) = Strlen(<<h>>) + Strlen(t)
  <2>1. <<h>> \in Seq(Part)
    BY <1>1, OnePart
  <2> QED
    BY <1>1, <2>1, StrlenConcat
<1>6. Strlen(f) \in Nat /\ Strlen(Append(f, l)) = Strlen(f) + 1 + PartWidth(l)
  BY <1>1, StrlenAppend
<1>7. Strlen(p) = 1 + PartWidth(h) + Strlen(t)
  BY <1>2, <1>4, <1>5, Zenon
<1>8. Strlen(p) = Strlen(f) + 1 + PartWidth(l)
  BY <1>2, <1>6, Zenon
<1>9. Strlen(f) <= Strlen(p)
  BY <1>3, <1>6, <1>8
<1> QED
  BY <1>7, <1>9 DEF h, t, f

LEMMA StrlenNat ==
  ASSUME NEW p \in Seq(Part)
  PROVE  Strlen(p) \in Nat
<1>1. "/" \in Part
  BY DEF Part, Special
<1> QED
  BY <1>1, StrlenAppend

\* No round of the loop makes the path longer.
LEMMA ScanShortens ==
  ASSUME before \in Seq(Part), after \in Seq(Part), Scan
  PROVE  Strlen(before') + Strlen(after') <= Strlen(before) + Strlen(after)
<1>1. after # <<>>
  BY DEF Scan
<1> DEFINE h == Head(after)
           t == Tail(after)
           f == SubSeq(before, 1, Len(before) - 1)
<1>2. h \in Part /\ t \in Seq(Part) /\ PartWidth(h) \in Nat
  BY <1>1, Ends, Widths
<1>3. Strlen(after) = 1 + PartWidth(h) + Strlen(t)
  BY <1>1, StrlenParts
<1>4. Strlen(before) \in Nat /\ Strlen(t) \in Nat
  BY <1>2, StrlenNat
<1>5. Strlen(Append(before, h)) = Strlen(before) + 1 + PartWidth(h)
  BY <1>2, StrlenAppend
<1>6. Len(before) > 1 => Strlen(f) \in Nat /\ Strlen(f) <= Strlen(before)
  <2>1. SUFFICES ASSUME Len(before) > 1
                 PROVE  Strlen(f) \in Nat /\ Strlen(f) <= Strlen(before)
    OBVIOUS
  <2>2. before # <<>>
    BY <2>1, EmptySeq
  <2> QED
    BY <2>2, Ends, StrlenParts, StrlenNat
<1>7. /\ after' = t
      /\ \/ before' = before
         \/ before' = Append(before, h)
         \/ Len(before) > 1 /\ before' = f
  BY Zenon DEF Scan, RemoveNext, DotDot, Pass
<1> HIDE DEF h, t, f
<1> DEFINE w == PartWidth(h)
<1> HIDE DEF w
<1>8. Strlen(after) = 1 + w + Strlen(t) /\ w \in Nat
      /\ Strlen(Append(before, h)) = Strlen(before) + 1 + w
  BY <1>2, <1>3, <1>5 DEF w
<1>9. CASE before' = before
  <2>1. Strlen(before') = Strlen(before) /\ Strlen(after') = Strlen(t)
    BY <1>7, <1>9, Zenon
  <2> QED
    BY <1>4, <1>8, <2>1
<1>10. CASE before' = Append(before, h)
  <2>1. Strlen(before') = Strlen(Append(before, h)) /\ Strlen(after') = Strlen(t)
    BY <1>7, <1>10, Zenon
  <2> QED
    BY <1>4, <1>8, <2>1
<1>11. CASE Len(before) > 1 /\ before' = f
  <2>1. Strlen(before') = Strlen(f) /\ Strlen(after') = Strlen(t)
    BY <1>7, <1>11, Zenon
  <2> QED
    BY <1>4, <1>6, <1>8, <1>11, <2>1
<1> QED
  BY <1>7, <1>9, <1>10, <1>11

LEMMA LengthStart ==
  ASSUME Init
  PROVE  LengthInv
<1>1. "/" \in Part /\ PartWidth("/") = 0
  <2>1. "/" \notin Name
    BY PathsAssumption DEF Special
  <2> QED
    BY <2>1 DEF PartWidth, Part, Special
<1>2. <<>> \in Seq(Part) /\ <<"/">> = Append(<<>>, "/")
  OBVIOUS
<1>3. Strlen(Append(<<>>, "/")) = Strlen(<<>>) + 1 + PartWidth("/")
  BY <1>1, <1>2, StrlenAppend
<1>4. Strlen(<<"/">>) = 0 + 1 + 0
  BY <1>1, <1>2, <1>3, StrlenEmpty, Zenon
<1>5. Strlen(<<"/">>) <= PATH_MAX
  BY <1>4, PathsAssumption
<1> QED
  BY <1>5 DEF Init, LengthInv

LEMMA LengthStep ==
  ASSUME Inv, LengthInv, [Next]_vars
  PROVE  LengthInv'
<1>1. CASE UNCHANGED vars
  BY <1>1 DEF vars, LengthInv
<1>2. ASSUME NEW p \in Path, kfopen(p) \/ kfsetpwd(p)
      PROVE  LengthInv'
  <2>1. /\ pwd' = pwd
        /\ \/ call' = "kfsetpwd" /\ pc' \in {"slash", "panic"}
           \/ call' = "kfopen" /\ pc' \in {"scan", "panic"}
    BY <1>2 DEF kfopen, kfsetpwd, resolve_path
  <2> QED
    BY <2>1 DEF LengthInv
<1>3. CASE AddSlash
  BY <1>3 DEF AddSlash, LengthInv
<1>4. CASE CheckLength
  <2>1. /\ pwd' = pwd /\ before' = before /\ after' = after
        /\ \/ pc' = "user"
           \/ pc' = "scan" /\ ~(Strlen(after) > PATH_MAX)
    BY <1>4 DEF CheckLength, IsLonger
  <2>2. before = <<>> /\ after \in Seq(Part)
    BY <1>4 DEF CheckLength, Inv, Type
  <2>3. Strlen(before) = 0 /\ Strlen(after) \in Nat /\ PATH_MAX \in Nat
    BY <2>2, StrlenEmpty, StrlenNat, PathsAssumption
  <2>4. ~(Strlen(after) > PATH_MAX) => Strlen(before) + Strlen(after) <= PATH_MAX
    BY <2>3
  <2> QED
    BY <2>1, <2>4 DEF LengthInv
<1>5. CASE Scan
  <2>1. pc = "scan" /\ pc' = "scan" /\ call' = call /\ pwd' = pwd
    BY <1>5 DEF Scan
  <2>2. before \in Seq(Part) /\ after \in Seq(Part)
        /\ before' \in Seq(Part) /\ after' \in Seq(Part)
    BY <1>5, Step DEF Inv, Type
  <2>3. Strlen(before') + Strlen(after') <= Strlen(before) + Strlen(after)
    BY <1>5, <2>2, ScanShortens
  <2>4. /\ Strlen(before) \in Nat /\ Strlen(after) \in Nat /\ PATH_MAX \in Nat
        /\ Strlen(before') \in Nat /\ Strlen(after') \in Nat
    BY <2>2, StrlenNat, PathsAssumption
  <2>5. Strlen(before) + Strlen(after) <= PATH_MAX
          => Strlen(before') + Strlen(after') <= PATH_MAX
    BY <2>3, <2>4
  <2> QED
    BY <2>1, <2>5 DEF LengthInv
<1>6. CASE Done
  <2>1. /\ pc = "scan" /\ after = <<>> /\ pc' = "user"
        /\ pwd' = IF call = "kfsetpwd" THEN before ELSE pwd
    BY <1>6 DEF Done
  <2>2. Strlen(before) \in Nat /\ Strlen(after) = 0
    BY <2>1, StrlenNat, StrlenEmpty DEF Inv, Type
  <2>3. call = "kfsetpwd" => Strlen(before) <= PATH_MAX
    BY <2>1, <2>2 DEF LengthInv
  <2> QED
    BY <2>1, <2>3 DEF LengthInv
<1> QED
  BY <1>1, <1>2, <1>3, <1>4, <1>5, <1>6 DEF Next

(***************************************************************************)
(* The working directory always fits PATH_MAX, although kfsetpwd adds a    *)
(* slash to what it has measured (filesystem.c:643-664), and everything    *)
(* is of its type.                                                         *)
(***************************************************************************)
THEOREM PathsTyped == Spec => []TypeOK
<1>1. Inv /\ LengthInv => TypeOK
  BY DEF Inv, Type, LengthInv, TypeOK
<1>2. Init => Inv /\ LengthInv
  BY Start, LengthStart
<1>3. Inv /\ LengthInv /\ [Next]_vars => Inv' /\ LengthInv'
  BY Step, LengthStep
<1> QED
  BY <1>1, <1>2, <1>3, PTL DEF Spec

-----------------------------------------------------------------------------
\* A part goes that leads nowhere.
LEMMA RemovedKeepsMeaning ==
  ASSUME NEW b \in Seq(Part), NEW a \in Seq(Part), a # <<>>,
         Named(Append(b, Head(a))) = Named(b)
  PROVE  Named(b \o Tail(a)) = Named(b \o a)
<1>1. /\ Head(a) \in Part /\ Tail(a) \in Seq(Part) /\ Append(b, Head(a)) \in Seq(Part)
      /\ b \o a = Append(b, Head(a)) \o Tail(a)
  <2>1. Len(a) \in Nat \ {0}
    BY EmptySeq
  <2> QED
    BY <2>1
<1>2. Named(Append(b, Head(a)) \o Tail(a)) = Named(b \o Tail(a))
  BY <1>1, NamedConcat
<1> QED
  BY <1>1, <1>2, Zenon

LEMMA ScanKeepsMeaning ==
  ASSUME Inv, Scan
  PROVE  \/ Named(before' \o after') = Named(before \o after)
         \/ Len(before) = 1 /\ Head(after) = ".."
<1>1. /\ before \in Seq(Part) /\ after \in Seq(Part) /\ after # <<>>
      /\ Passed(before, after)
  BY DEF Scan, Inv, Type
<1>2. Len(before) \in Nat /\ Head(after) \in Part
  BY <1>1, Ends
<1> DEFINE d == Named(before)
<1>3. d \in Seq(Name) /\ Named(Append(before, Head(after))) = From(d, Head(after))
  BY <1>1, <1>2, NamedAppend
<1> HIDE DEF d
<1>4. CASE Head(after) \in {"/", "."} /\ RemoveNext
  <2>1. From(d, Head(after)) = d
    BY <1>3, <1>4, Leads
  <2>2. Named(Append(before, Head(after))) = Named(before)
    BY <1>3, <2>1, Zenon DEF d
  <2>3. Named(before \o Tail(after)) = Named(before \o after)
    BY <1>1, <2>2, RemovedKeepsMeaning
  <2> QED
    BY <1>4, <2>3, Zenon DEF RemoveNext
<1>5. CASE Head(after) = ".." /\ before = <<>> /\ RemoveNext
  <2>1. d = <<>>
    BY <1>5, NamedEmpty, Zenon DEF d
  <2>2. From(d, Head(after)) = d
    BY <1>3, <1>5, <2>1, Leads, Zenon
  <2>3. Named(Append(before, Head(after))) = Named(before)
    BY <1>3, <2>2, Zenon DEF d
  <2>4. Named(before \o Tail(after)) = Named(before \o after)
    BY <1>1, <2>3, RemovedKeepsMeaning
  <2> QED
    BY <1>5, <2>4, Zenon DEF RemoveNext
<1>6. CASE /\ Head(after) = ".." /\ Len(before) > 1
           /\ before' = SubSeq(before, 1, Len(before) - 1) /\ after' = Tail(after)
  <2> DEFINE f == SubSeq(before, 1, Len(before) - 1)
             l == before[Len(before)]
  <2>1. before # <<>>
    BY <1>6, EmptySeq
  <2>2. f \in Seq(Part) /\ l \in Part /\ before = Append(f, l)
    BY <1>1, <2>1, Ends
  <2>3. l \in Name
    BY <1>1, <1>2, <1>6 DEF Passed
  <2> HIDE DEF f, l
  <2>4. Named(f) \in Seq(Name) /\ Named(Append(f, l)) = From(Named(f), l)
    BY <2>2, NamedAppend
  <2>5. From(Named(f), l) = Append(Named(f), l)
        /\ From(Append(Named(f), l), "..") = Named(f)
    BY <2>3, <2>4, Leads
  <2>6. Named(Append(before, Head(after))) = Named(f)
    BY <1>3, <1>6, <2>2, <2>4, <2>5, Zenon DEF d
  <2>7. /\ Append(before, Head(after)) \in Seq(Part) /\ Tail(after) \in Seq(Part)
        /\ before \o after = Append(before, Head(after)) \o Tail(after)
    <3>1. Len(after) \in Nat \ {0}
      BY <1>1, EmptySeq
    <3> QED
      BY <1>1, <3>1
  <2>8. Named(Append(before, Head(after)) \o Tail(after)) = Named(f \o Tail(after))
    BY <2>2, <2>6, <2>7, NamedConcat
  <2>9. before' = f /\ after' = Tail(after)
    BY <1>6 DEF f
  <2> QED
    BY <2>7, <2>8, <2>9, Zenon
<1>7. CASE Pass
  <2>1. before' = Append(before, Head(after)) /\ after' = Tail(after)
    BY <1>7 DEF Pass
  <2>2. before \o after = Append(before, Head(after)) \o Tail(after)
    <3>1. Len(after) \in Nat \ {0}
      BY <1>1, EmptySeq
    <3> QED
      BY <1>1, <3>1
  <2> QED
    BY <2>1, <2>2, Zenon
<1>8. Len(before) <= 1 => before = <<>> \/ Len(before) = 1
  <2>1. before = <<>> <=> Len(before) = 0
    BY <1>1, Empty, Zenon
  <2>2. \A n \in Nat : n <= 1 => n = 0 \/ n = 1
    OBVIOUS
  <2> QED
    BY <1>2, <2>1, <2>2, Zenon
<1> QED
  BY <1>4, <1>5, <1>6, <1>7, <1>8, Zenon DEF Scan, DotDot

(***************************************************************************)
(* However the loop of abs_path_cleanup gets to its outcome, no round of   *)
(* it changes what the path names (filesystem.c:145-175), but for a dotdot *)
(* right behind a directory of the root.                                   *)
(***************************************************************************)
THEOREM MeaningKeptBelowRoot == Spec => CleaningKeepsMeaningBelowRoot
<1>1. ASSUME Inv, [Next]_vars, pc = "scan"
      PROVE  \/ Named(buffer') = Named(buffer)
             \/ Len(before) = 1 /\ Head(after) = ".."
  <2>1. \/ Scan
        \/ before' = before /\ after' = after
    BY <1>1 DEF Next, vars, kfopen, kfsetpwd, AddSlash, CheckLength, Done
  <2>2. CASE Scan
    BY <1>1, <2>2, ScanKeepsMeaning DEF buffer
  <2>3. CASE before' = before /\ after' = after
    BY <2>3 DEF buffer
  <2> QED
    BY <2>1, <2>2, <2>3
<1>2. Inv /\ [Next]_vars =>
        [pc = "scan" => \/ Named(buffer') = Named(buffer)
                        \/ Len(before) = 1 /\ Head(after) = ".."]_vars
  BY <1>1
<1> QED
  BY <1>2, Start, Step, PTL DEF Spec, CleaningKeepsMeaningBelowRoot
=============================================================================

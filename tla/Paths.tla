------------------------------- MODULE Paths -------------------------------
(***************************************************************************)
(* Path resolution (src/kernel/filesystem.c): resolve_path makes a path    *)
(* absolute in resolution_buffer, abs_path_cleanup takes "//", "/." and    *)
(* "/.." out of it in place, and kfsetpwd makes the outcome the working    *)
(* directory.                                                              *)
(*                                                                         *)
(* An absolute path is the sequence of what follows its slashes, with "/"  *)
(* for a slash that nothing follows: "/a//b/" is <<"a", "/", "b", "/">>,   *)
(* "/" is <<"/">>, and the empty string is <<>>.                           *)
(* The pointer of abs_path_cleanup stands at a slash, before and after are *)
(* what it has passed and what it has in front of it.  Interrupts are off, *)
(* so a call is not disturbed; its steps are those of the loop.            *)
(***************************************************************************)
EXTENDS Integers, Sequences

CONSTANTS
  Name,      \* file and directory names
  Width,     \* the length of each of them
  Path,      \* the paths programs pass: [absolute : BOOLEAN, parts : ...]
  PATH_MAX

Special == {"/", ".", ".."}
Part == Name \cup Special

ASSUME PathsAssumption ==
  /\ Name \cap Special = {}
  /\ Width \in [Name -> Nat]
  /\ PATH_MAX \in Nat \ {0}
  /\ Path \subseteq [absolute : BOOLEAN, parts : Seq(Part) \ {<<>>}]

VARIABLES
  pwd,      \* the working directory
  call,     \* the system call that is running
  pc,       \* where it is
  before,   \* resolution_buffer up to the pointer
  after     \* and from there on

vars == <<pwd, call, pc, before, after>>

buffer == before \o after

\* filesystem_init
Init ==
  /\ pwd = <<"/">>
  /\ call = "none"
  /\ pc = "user"
  /\ before = <<>>
  /\ after = <<>>

-----------------------------------------------------------------------------
PartWidth(s) ==
  CASE s \in Name -> Width[s] [] s = "/" -> 0 [] s = "." -> 1 [] s = ".." -> 2

\* strlen of an absolute path
Strlen(path) ==
  LET upTo[i \in 0..Len(path)] ==
        IF i = 0 THEN 0 ELSE upTo[i - 1] + 1 + PartWidth(path[i])
  IN upTo[Len(path)]

TypeOK ==
  /\ pwd \in Seq(Part) /\ Strlen(pwd) <= PATH_MAX
  /\ call \in {"none", "kfopen", "kfsetpwd"}
  /\ pc \in {"user", "slash", "check", "scan", "panic"}
  /\ before \in Seq(Part)
  /\ after \in Seq(Part)

\* strlen of what the program passed
Given(p) == IF p.absolute THEN Strlen(p.parts) ELSE Strlen(p.parts) - 1

\* The lengths resolve_path refuses.
TooLong(p) ==
  IF p.absolute THEN Given(p) > PATH_MAX
                ELSE Strlen(pwd) + Given(p) + 2 > PATH_MAX

Resolved(p) == IF p.absolute THEN p.parts ELSE pwd \o p.parts

\* resolve_path, and what is next when the path is not too long.
resolve_path(p, next) ==
  \/ /\ TooLong(p)
     /\ pc' = "panic"
     /\ UNCHANGED <<before, after>>
  \/ /\ ~TooLong(p)
     /\ pc' = next
     /\ before' = <<>>
     /\ after' = Resolved(p)

\* kfopen, and file_size_internal
kfopen(p) ==
  /\ pc = "user"
  /\ call' = "kfopen"
  /\ resolve_path(p, "scan")
  /\ UNCHANGED pwd

kfsetpwd(p) ==
  /\ pc = "user"
  /\ Given(p) <= PATH_MAX
  /\ call' = "kfsetpwd"
  /\ resolve_path(p, "slash")
  /\ UNCHANGED pwd

\* Mutant: the slash is not added.
NoSlashAdded == UNCHANGED after

SlashAdded ==
  after' = IF after[Len(after)] = "/" THEN after ELSE Append(after, "/")

\* kfsetpwd adds a slash at the end ...
AddSlash ==
  /\ pc = "slash"
  /\ SlashAdded
  /\ pc' = "check"
  /\ UNCHANGED <<pwd, call, before>>

\* Mutant: the length is not looked at again.
IsLongerNot(path) == FALSE

IsLonger(path) == Strlen(path) > PATH_MAX

\* ... and looks at the length afterwards.
CheckLength ==
  /\ pc = "check"
  /\ \/ IsLonger(after) /\ pc' = "user" /\ call' = "none"
     \/ ~IsLonger(after) /\ pc' = "scan" /\ UNCHANGED call
  /\ UNCHANGED <<pwd, before, after>>

-----------------------------------------------------------------------------
(* One round of the loop of abs_path_cleanup.                              *)

RemoveNext == after' = Tail(after) /\ UNCHANGED before

\* Mutant: the name in front of the dotdot stays.
DotDotForgets == RemoveNext

\* Mutant: a dotdot at the start is not removed, and the pointer stays.
DotDotStays ==
  \/ before = <<>> /\ UNCHANGED <<before, after>>
  \/ Len(before) = 1 /\ RemoveNext
  \/ /\ Len(before) > 1
     /\ before' = SubSeq(before, 1, Len(before) - 1)
     /\ after' = Tail(after)

\* Mutant: a dotdot at the start is passed.
DotDotPassed ==
  \/ before = <<>> /\ before' = <<"..">> /\ after' = Tail(after)
  \/ Len(before) = 1 /\ RemoveNext
  \/ /\ Len(before) > 1
     /\ before' = SubSeq(before, 1, Len(before) - 1)
     /\ after' = Tail(after)

\* "/.." goes, with what is in front of it unless that is the first name.
DotDot ==
  \/ Len(before) <= 1 /\ RemoveNext
  \/ /\ Len(before) > 1
     /\ before' = SubSeq(before, 1, Len(before) - 1)
     /\ after' = Tail(after)

Pass ==
  /\ before' = Append(before, Head(after))
  /\ after' = Tail(after)

Scan ==
  /\ pc = "scan"
  /\ after # <<>>
  /\ \/ Head(after) = "/" /\ Len(after) > 1 /\ RemoveNext
     \/ Head(after) = ".." /\ DotDot
     \/ Head(after) = "." /\ RemoveNext
     \/ (Head(after) \in Name \/ after = <<"/">>) /\ Pass
  /\ UNCHANGED <<pwd, call, pc>>

Done ==
  /\ pc = "scan"
  /\ after = <<>>
  /\ pc' = "user"
  /\ call' = "none"
  /\ pwd' = IF call = "kfsetpwd" THEN before ELSE pwd
  /\ UNCHANGED <<before, after>>

Next ==
  \/ \E p \in Path : kfopen(p) \/ kfsetpwd(p)
  \/ AddSlash
  \/ CheckLength
  \/ Scan
  \/ Done

Spec == Init /\ [][Next]_vars

\* A call that runs goes on to its end.
FairSpec == Spec /\ WF_vars(AddSlash \/ CheckLength \/ Scan \/ Done)

-----------------------------------------------------------------------------
(* Properties.                                                             *)

(***************************************************************************)
(* The working directory is absolute and clean, and ends with a slash      *)
(* (filesystem.c:643-664): every relative path is resolved against it.     *)
(***************************************************************************)
PwdClean ==
  /\ pwd # <<>>
  /\ pwd[Len(pwd)] = "/"
  /\ \A i \in 1..(Len(pwd) - 1) : pwd[i] \in Name

\* The directory a path names, from the root.
Named(path) ==
  LET upTo[i \in 0..Len(path)] ==
        IF i = 0 THEN <<>>
        ELSE CASE path[i] \in Name -> Append(upTo[i - 1], path[i])
               [] path[i] \in {"/", "."} -> upTo[i - 1]
               [] path[i] = ".." ->
                    IF upTo[i - 1] = <<>> THEN <<>>
                    ELSE SubSeq(upTo[i - 1], 1, Len(upTo[i - 1]) - 1)
  IN upTo[Len(path)]

(***************************************************************************)
(* abs_path_cleanup changes how a path is written and never what it names  *)
(* (filesystem.c:145-175): "if dotdot is found, remove the previous part". *)
(***************************************************************************)
CleaningKeepsMeaning ==
  [][pc = "scan" => Named(buffer') = Named(buffer)]_vars

(***************************************************************************)
(* The same for all paths that do not climb back from a directory of the   *)
(* root to the root itself.                                                *)
(***************************************************************************)
CleaningKeepsMeaningBelowRoot ==
  [][pc = "scan" => \/ Named(buffer') = Named(buffer)
                    \/ Len(before) = 1 /\ Head(after) = ".."]_vars

(***************************************************************************)
(* What kfopen and kfsetpwd hand on is clean: no "//", "/." or "/.." is    *)
(* left of any path (filesystem.c:145-175).                                *)
(***************************************************************************)
OutcomeClean ==
  pc = "scan" /\ after = <<>> =>
    \A i \in 1..Len(before) :
      before[i] \in Name \/ (before[i] = "/" /\ i = Len(before))

(***************************************************************************)
(* So every path that is looked up, and every one that a relative path is  *)
(* put behind, is clean.                                                   *)
(***************************************************************************)
PathsClean == PwdClean /\ OutcomeClean

(***************************************************************************)
(* The loop of abs_path_cleanup ends (filesystem.c:145-175).               *)
(***************************************************************************)
CleaningEnds == pc = "scan" ~> pc = "user"

(***************************************************************************)
(* What resolve_path and kfsetpwd write, with its terminator, fits         *)
(* resolution_buffer (filesystem.c:187-204, 643-664).                      *)
(***************************************************************************)
BufferFits == Strlen(buffer) + 1 <= PATH_MAX
=============================================================================

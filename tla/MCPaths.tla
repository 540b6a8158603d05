------------------------------ MODULE MCPaths ------------------------------
(* Paths of up to MaxParts parts, for TLC. *)
EXTENDS Paths

CONSTANTS MaxParts

MCWidth == [n \in Name |-> IF n = "a" THEN 1 ELSE 2]

\* A path that begins with a slash is absolute, so a relative one begins with
\* something else, or is the empty string.
MCPath ==
  LET parts == UNION {[1..n -> Part] : n \in 1..MaxParts}
  IN [absolute : {TRUE}, parts : parts]
       \cup {p \in [absolute : {FALSE}, parts : parts] :
               p.parts[1] # "/" \/ p.parts = <<"/">>}
=============================================================================

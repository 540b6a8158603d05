----------------------------- MODULE MCProcess -----------------------------
(* Process on small sets of blocks, for TLC. *)
EXTENDS Process, TLC

CONSTANTS b1, b2, b3, b4

MCBlock3 == {Idle, b1, b2}
MCBlock4 == {Idle, b1, b2, b3}
MCBlock5 == {Idle, b1, b2, b3, b4}

\* Blocks differ only in their addresses, and Idle is the static one.
MCSymmetry == Permutations({b1, b2, b3, b4})

\* wait4 takes -1 or a pid: Idle's, or one that came later and that maybe
\* nobody has at the moment.
MCPidArg == {-1, 0, 2, 3}
MCPidArgChild == {-1}
MCPidArgPids == {1, 2, 3}
MCPidArgLast == {3}
=============================================================================

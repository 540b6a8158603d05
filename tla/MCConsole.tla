----------------------------- MODULE MCConsole -----------------------------
(* Console on screens of two by two characters, for TLC. *)
EXTENDS Console

\* Of pixels: a pixel of each size, lines longer than their pixels, a line of
\* pixels below the last line of characters; and text mode.
Screens ==
  {[width |-> 4, height |-> 5, pitch |-> p, bytes |-> b, type |-> "rgb"] :
     <<p, b>> \in {<<16, 4>>, <<20, 4>>, <<14, 3>>, <<8, 2>>}}
    \cup {[width |-> 5, height |-> 4, pitch |-> 5, bytes |-> 1, type |-> "indexed"],
          [width |-> 2, height |-> 2, pitch |-> 4, bytes |-> 2, type |-> "ega"]}

Written_ == {s \in Screens : (s.bytes = 4 /\ s.pitch = 16) \/ s.type = "ega"}

Colour == {0, 85, 128, 170, 255}
Asked == Colour \X Colour \X Colour
Shades == <<Black, <<170, 0, 0>>, White, <<0, 200, 90>>, White>>
=============================================================================

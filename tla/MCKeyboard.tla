----------------------------- MODULE MCKeyboard -----------------------------
(* Keyboard with a letter, enter and backspace, for TLC. *)
EXTENDS Keyboard

CONSTANTS p1, p2

\* Programs leave line mode on, or change to raw mode and back (with which
\* KSpec has ten times as many states).
Lines == [icanon : {TRUE}, icrnl : {TRUE}]
LinesOrRaw == [icanon : BOOLEAN, icrnl : {TRUE}]
=============================================================================

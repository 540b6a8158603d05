------------------------------ MODULE Console ------------------------------
(***************************************************************************)
(* The screen as programs, the kernel and the echo of the keyboard write   *)
(* to it, character by character: video_putc (interface/video.c) with the  *)
(* escape sequences of interface/ansi.c.                                   *)
(*                                                                         *)
(* A sequence is collected in a block of the heap.  What is written may    *)
(* come from everyone, so a sequence may be continued by another writer.   *)
(***************************************************************************)
EXTENDS Video

CONSTANTS
  Screen,       \* of the framebuffers, those that are written to
  Glyph,        \* characters that are drawn
  Digit,        \* of "0" to "9", those that are written
  UINT32,       \* 2^32: the cursor's coordinates wrap
  SEQUENCE,     \* 64: the first size of the block, and what it grows by
  MaxLength     \* bound on the length of a sequence

ASSUME ConsoleAssumption ==
  /\ Screen \subseteq Format
  /\ \A f \in Format : f.width < UINT32 /\ f.height < UINT32
  /\ Digit \subseteq {"0", "1", "2", "3", "4", "5", "6", "7", "8", "9"}
  /\ UINT32 \in Nat \ {0} /\ SEQUENCE \in Nat \ {0} /\ MaxLength \in Nat

VARIABLES
  fb,                     \* the framebuffer
  display,                \* [x, y, ink, outside, fg, bg]
  in_escape_sequence,
  escape_sequence,
  sequence_buffer_size,
  block,                  \* what escape_sequence points to
  reentered               \* a sequence has been ended by an escape

sequenceVars == <<in_escape_sequence, escape_sequence, sequence_buffer_size, block>>
screenVars == <<fb, display, sequenceVars, reentered>>

Char == Glyph \cup Digit \cup {" ", ";", "[", "m", "J", "H", "nl", "cr", "tab", "bs", "esc"}

Black == <<0, 0, 0>>
Grey == <<170, 170, 170>>
White == <<255, 255, 255>>

ScreenTyped ==
  /\ fb \in Format
  /\ display.x \in 0..(UINT32 - 1) /\ display.y \in 0..(UINT32 - 1)
  /\ display.outside \in BOOLEAN
  /\ in_escape_sequence \in BOOLEAN
  /\ escape_sequence \in Seq(Char) /\ sequence_buffer_size \in Nat
  /\ block \in {"none", "allocated", "freed"}

\* The cell is on the screen.
Inside(f, x, y) == x < Columns(f) /\ y < Rows(f)

Empty(f) ==
  [x |-> 0, y |-> 0, ink |-> {}, outside |-> FALSE,
   fg |-> framebuffer_get_color(f, White), bg |-> framebuffer_get_color(f, Black)]

\* video_init; what it draws to show that it can is not kept.
ScreenInit ==
  /\ fb \in Format
  /\ display = Empty(fb)
  /\ in_escape_sequence = FALSE
  /\ escape_sequence = <<>>
  /\ sequence_buffer_size = 0
  /\ block = "none"
  /\ reentered = FALSE

-----------------------------------------------------------------------------
(* Characters that are not part of a sequence.                             *)

\* The glyph is drawn over what is there, with no background; in text mode
\* it replaces it.
Drawn(d, c) ==
  [d EXCEPT !.ink = IF ~Inside(fb, d.x, d.y) THEN @
                    ELSE IF c # " " THEN @ \cup {<<d.x, d.y>>}
                    ELSE IF fb.type = "ega" THEN @ \ {<<d.x, d.y>>}
                    ELSE @,
            !.outside = @ \/ ~Inside(fb, d.x, d.y),
            !.x = (@ + 1) % UINT32]

\* Mutant: the space is drawn where the cursor was.
BlankedBefore(d) == [d EXCEPT !.ink = @ \ {<<d.x + 1, d.y>>}]

\* The background is drawn where the cursor has gone.
Blanked(d) ==
  [d EXCEPT !.ink = @ \ {<<d.x, d.y>>},
            !.outside = @ \/ ~Inside(fb, d.x, d.y)]

Back(d) ==
  IF d.x = 0 THEN [d EXCEPT !.x = (Columns(fb) - 1) % UINT32, !.y = (@ - 1) % UINT32]
  ELSE [d EXCEPT !.x = @ - 1]

Written(d, c) ==
  CASE c = "nl" -> [d EXCEPT !.x = 0, !.y = (@ + 1) % UINT32]
    [] c = "cr" -> [d EXCEPT !.x = 0]
    [] c = "tab" /\ fb.type # "ega" -> [d EXCEPT !.x = (@ + 4) % UINT32]
    [] c = "bs" /\ fb.type # "ega" -> Blanked(Back(d))
    [] OTHER -> Drawn(d, c)

Wrapped(d) ==
  IF d.x >= Columns(fb) THEN [d EXCEPT !.x = 0, !.y = (@ + 1) % UINT32] ELSE d

\* Mutant: the cursor stays in the line it has left.
ScrolledOnly(d) ==
  IF d.y >= Rows(fb) THEN [d EXCEPT !.ink = {<<p[1], p[2] - 1>> : p \in {q \in @ : q[2] > 0}}]
  ELSE d

\* scroll: the lines go up by one.
Scrolled(d) ==
  IF d.y >= Rows(fb)
  THEN [d EXCEPT !.ink = {<<p[1], p[2] - 1>> : p \in {q \in @ : q[2] > 0}},
                 !.y = (@ - 1) % UINT32]
  ELSE d

Put(d, c) == Scrolled(Wrapped(Written(d, c)))

\* The characters of s, one after the other.
PutAll(d, s) ==
  LET upto[i \in 0..Len(s)] == IF i = 0 THEN d ELSE Put(upto[i - 1], s[i])
  IN upto[Len(s)]

-----------------------------------------------------------------------------
(* What a sequence says.                                                   *)

Value == [c \in Digit |->
  CASE c = "0" -> 0 [] c = "1" -> 1 [] c = "2" -> 2 [] c = "3" -> 3 [] c = "4" -> 4
    [] c = "5" -> 5 [] c = "6" -> 6 [] c = "7" -> 7 [] c = "8" -> 8 [] c = "9" -> 9]

\* The numbers of s, which `;' separates.
Numbers(s) ==
  LET upto[i \in 0..Len(s)] ==
        IF i = 0 THEN <<0>>
        ELSE IF s[i] = ";" THEN Append(upto[i - 1], 0)
        ELSE IF s[i] \in Digit
             THEN [upto[i - 1] EXCEPT ![Len(upto[i - 1])] = (10 * @ + Value[s[i]]) % UINT32]
        ELSE upto[i - 1]
  IN upto[Len(s)]

\* The number that all digits of s make.
Number(s) ==
  LET upto[i \in 0..Len(s)] ==
        IF i = 0 THEN 0
        ELSE IF s[i] \in Digit THEN (10 * upto[i - 1] + Value[s[i]]) % UINT32
        ELSE upto[i - 1]
  IN upto[Len(s)]

Dark == <<Black, <<170, 0, 0>>, <<0, 170, 0>>, <<170, 85, 0>>,
          <<0, 0, 170>>, <<170, 0, 170>>, <<0, 170, 170>>, Grey>>

Light(i) == [k \in 1..3 |-> IF i \div (2 ^ (k - 1)) % 2 = 1 THEN 255 ELSE 85]

low_rgb == <<Black, <<128, 0, 0>>, <<0, 128, 0>>, <<128, 128, 0>>,
             <<0, 0, 128>>, <<128, 0, 128>>, <<0, 128, 128>>, <<192, 192, 192>>,
             <<128, 128, 128>>, <<255, 0, 0>>, <<0, 255, 0>>, <<255, 255, 0>>,
             <<0, 0, 255>>, <<255, 0, 255>>, <<0, 255, 255>>, White>>

\* The 16 colours, a cube with six values a side, 24 greys.
ansi_216_to_rgb(ansi) ==
  LET side(v) == IF v = 0 THEN 0 ELSE 40 * v + 55
      n == ansi - 16
      grey == 10 * (ansi - 232) + 8
  IN IF ansi < 16 THEN low_rgb[ansi + 1]
     ELSE IF ansi > 231 THEN <<grey, grey, grey>>
     ELSE <<side(n \div 36), side((n \div 6) % 6), side(n % 6)>>

\* A number of an `m' sequence, in the state the ones before it have led to.
handle_escape_sequence_color(s, n) ==
  CASE s.state = "NONE" ->
         (CASE n = 0 -> [s EXCEPT !.fg = Grey, !.bg = Black]
            [] n \in 30..37 -> [s EXCEPT !.fg = Dark[n - 29]]
            [] n \in 40..47 -> [s EXCEPT !.bg = Dark[n - 39]]
            [] n \in 90..97 -> [s EXCEPT !.fg = Light(n - 90)]
            [] n \in 100..107 -> [s EXCEPT !.bg = Light(n - 100)]
            [] n = 38 -> [s EXCEPT !.state = "EXTENDED_FG"]
            [] n = 48 -> [s EXCEPT !.state = "EXTENDED_BG"]
            [] OTHER -> s)
    [] s.state = "EXTENDED_FG" ->
         [s EXCEPT !.state = IF n = 5 THEN "EXTENDED_FG_256" ELSE "NONE"]
    [] s.state = "EXTENDED_BG" ->
         [s EXCEPT !.state = IF n = 5 THEN "EXTENDED_BG_256" ELSE "NONE"]
    [] s.state = "EXTENDED_FG_256" ->
         [s EXCEPT !.fg = ansi_216_to_rgb(n % 256), !.state = "NONE"]
    [] s.state = "EXTENDED_BG_256" ->
         [s EXCEPT !.bg = ansi_216_to_rgb(n % 256), !.state = "NONE"]

Unset == <<>>

\* What the numbers set: `Unset' is a colour that stays as it is.
Colours(numbers) ==
  LET upto[i \in 0..Len(numbers)] ==
        IF i = 0 THEN [fg |-> Unset, bg |-> Unset, state |-> "NONE"]
        ELSE handle_escape_sequence_color(upto[i - 1], numbers[i])
  IN upto[Len(numbers)]

\* Where an `H' sequence puts the cursor, with no regard to the screen: the
\* row comes first in the sequence, and is passed on as the column (ansi.c:256).
\* Nothing counts as 0, and 0 wraps.
handleHome(s) ==
  LET semi == {i \in 1..Len(s) : s[i] = ";"}
      first == IF semi = {} THEN Len(s) ELSE CHOOSE i \in semi : \A j \in semi : i <= j
  IN IF Len(s) = 2 THEN [x |-> 0, y |-> 0]
     ELSE [x |-> (Number(SubSeq(s, 1, first)) - 1) % UINT32,
           y |-> (Number(SubSeq(s, first + 1, Len(s))) - 1) % UINT32]

\* What a `J' sequence leaves: nothing, what is behind the cursor, or what is
\* before it.
Left(s) ==
  {p \in display.ink :
     CASE s[2] = "2" -> FALSE
       [] s[2] = "1" -> p[2] > display.y \/ (p[2] = display.y /\ p[1] > display.x)
       [] OTHER -> p[2] < display.y \/ (p[2] = display.y /\ p[1] < display.x)}

-----------------------------------------------------------------------------
(* video_putc.                                                             *)

Active == fb \in Screen /\ ~display.outside

Plain(c) ==
  /\ Active /\ ~in_escape_sequence
  /\ c # "esc" \/ fb.type = "ega"
  /\ display' = Put(display, c)
  /\ UNCHANGED <<fb, sequenceVars, reentered>>

\* The echo of a backspace, of tty_push and of kbd_device_read
Erased(d) == PutAll(d, <<"bs", " ", "bs">>)

Erase ==
  /\ Active /\ ~in_escape_sequence
  /\ display' = Erased(display)
  /\ UNCHANGED <<fb, sequenceVars, reentered>>

\* An escape writes nothing, but the cursor may be past the edge.
begin_escape_sequence ==
  /\ Active /\ ~in_escape_sequence /\ fb.type # "ega"
  /\ in_escape_sequence' = TRUE
  /\ escape_sequence' = <<>>
  /\ sequence_buffer_size' = SEQUENCE
  /\ block' = "allocated"
  /\ display' = Scrolled(Wrapped(display))
  /\ UNCHANGED <<fb, reentered>>

\* Mutant: the block grows a character too late.
TooLongLate == Len(escape_sequence) > sequence_buffer_size

TooLong == Len(escape_sequence) >= sequence_buffer_size

\* c is added to the sequence, which goes on; the block has no room for the
\* zero behind it when it is full.
Collect(c) ==
  /\ Active /\ in_escape_sequence /\ Len(escape_sequence) < MaxLength
  /\ IF escape_sequence = <<>> THEN c = "[" ELSE c \in Digit \cup {";"}
  /\ escape_sequence' = Append(escape_sequence, c)
  /\ sequence_buffer_size' = sequence_buffer_size + (IF TooLong THEN SEQUENCE ELSE 0)
  /\ UNCHANGED <<fb, display, in_escape_sequence, block, reentered>>

\* c ends the sequence, and its block is freed.
Ends(c) ==
  /\ Active /\ in_escape_sequence /\ escape_sequence # <<>>
  /\ c \notin Digit \cup {";"}
  /\ in_escape_sequence' = FALSE
  /\ escape_sequence' = <<>>
  /\ sequence_buffer_size' = 0
  /\ block' = "none"
  /\ UNCHANGED <<fb, reentered>>

\* A character other than `[': the sequence is empty, and `[' is written.
NoSequence(c) ==
  /\ Active /\ in_escape_sequence /\ escape_sequence = <<>> /\ c # "["
  /\ in_escape_sequence' = FALSE
  /\ display' = Put(display, "[")
  /\ sequence_buffer_size' = 0
  /\ block' = "none"
  /\ UNCHANGED <<fb, escape_sequence, reentered>>

SetColours ==
  /\ Ends("m")
  /\ LET set == Colours(Numbers(escape_sequence))
         new(now, c) == IF c = Unset THEN now ELSE framebuffer_get_color(fb, c)
     IN display' = [display EXCEPT !.fg = new(@, set.fg), !.bg = new(@, set.bg)]

Clear ==
  LET s == Append(escape_sequence, "J")
  IN /\ Ends("J")
     /\ display' = [display EXCEPT !.ink = Left(s),
                      !.outside = s[2] # "2" /\ ~Inside(fb, display.x, display.y)]

Home ==
  LET to == handleHome(Append(escape_sequence, "H"))
  IN /\ Ends("H")
     /\ display' = [display EXCEPT !.x = to.x, !.y = to.y]

\* Anything else is written as it is.
Unknown(c) ==
  /\ Ends(c) /\ c \notin {"m", "J", "H", "esc"}
  /\ display' = PutAll(display, Append(escape_sequence, c))

\* Written as it is, an escape begins a sequence, whose block is freed as if
\* it were that of the one that ends.
Reenter ==
  /\ Active /\ in_escape_sequence /\ escape_sequence # <<>>
  /\ display' = Scrolled(Wrapped(PutAll(display, escape_sequence)))
  /\ escape_sequence' = <<>>
  /\ sequence_buffer_size' = SEQUENCE
  /\ block' = "freed"
  /\ reentered' = TRUE
  /\ UNCHANGED <<fb, in_escape_sequence>>

Next ==
  \/ \E c \in Char : Plain(c) \/ Collect(c) \/ NoSequence(c) \/ Unknown(c)
  \/ Erase \/ begin_escape_sequence \/ SetColours \/ Clear \/ Home \/ Reenter

Spec == ScreenInit /\ [][Next]_screenVars

-----------------------------------------------------------------------------
(* Properties.                                                             *)

OnScreen == Inside(fb, display.x, display.y)

(***************************************************************************)
(* A sequence is collected in a block of its own, which holds it but for   *)
(* the zero behind it, and is freed with it (ansi.c:24-32, 319-366,        *)
(* video.c:546-555), unless one has been ended by an escape.               *)
(***************************************************************************)
EscapeSound ==
  /\ ScreenTyped
  /\ in_escape_sequence => block = "allocated" \/ reentered
  /\ ~in_escape_sequence => block = "none"
  /\ Len(escape_sequence) <= sequence_buffer_size

(***************************************************************************)
(* The cursor stays on the screen, whatever is written (video.c:542-639,   *)
(* ansi.c:260-317): only a sequence that places it, or a backspace in the  *)
(* top left corner, takes it away.                                         *)
(***************************************************************************)
StaysOnScreen ==
  [][OnScreen /\ (display.x > 0 \/ display.y > 0) => OnScreen' \/ Home]_screenVars

(***************************************************************************)
(* The echo of a backspace takes one cell back and leaves it empty, also   *)
(* at the beginning of a line (tty.c:198-203 with video.c:570-607).        *)
(***************************************************************************)
EraseIsExact ==
  OnScreen /\ (display.x > 0 \/ display.y > 0) /\ fb.type # "ega" =>
    LET d == Back(display)
    IN Erased(display) = [d EXCEPT !.ink = @ \ {<<d.x, d.y>>}]

(***************************************************************************)
(* For every framebuffer whose lines are whole pixels: rectangles are      *)
(* that, clearing up and down is the whole screen, /dev/fb shows the       *)
(* screen line by line, and colours are the nearest there are              *)
(* (video.c:78-314, 336-416, 662-794).                                     *)
(***************************************************************************)
DrawsRight ==
  display = Empty(fb) /\ ~in_escape_sequence /\ ~reentered =>
    DrawnRight(fb) /\ NearestColours(fb)

(***************************************************************************)
(* A sequence always has its block.  One that is ended by an escape begins *)
(* the next in a block that is freed at once (ansi.c:308-315,              *)
(* video.c:549-553).                                                       *)
(***************************************************************************)
SequenceHasBlock == in_escape_sequence => block = "allocated"
=============================================================================

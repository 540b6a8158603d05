------------------------------- MODULE Video -------------------------------
(***************************************************************************)
(* Drawing (src/arch/x86_64/c/interface/video.c), as functions: which      *)
(* bytes of the framebuffer a call writes, which colour it uses, and what  *)
(* a read or a write of /dev/fb transfers.                                 *)
(*                                                                         *)
(* A framebuffer f is what the boot loader says of it: its size in pixels  *)
(* (in characters in text mode), the bytes of a line (pitch), those of a   *)
(* pixel, and its kind.  Bytes are numbered from its beginning.            *)
(***************************************************************************)
EXTENDS Integers, Sequences, FiniteSets

CONSTANTS
  Format,       \* [width, height, pitch, bytes : Nat, type : Type]
  FONT_WIDTH,
  fontheight,
  Palette,      \* the colours of an indexed framebuffer
  Desired,      \* the colours that are looked for
  Extent        \* bound on the offsets and lengths tried

Type == {"rgb", "indexed", "ega"}

ASSUME VideoAssumption ==
  /\ Format \subseteq [width : Nat, height : Nat, pitch : Nat, bytes : 1..4, type : Type]
  /\ FONT_WIDTH \in Nat \ {0} /\ fontheight \in Nat \ {0}

RGB == (0..255) \X (0..255) \X (0..255)

\* The pixels of a line are at most what the pitch says, and there is one.
ASSUME PictureAssumption ==
  /\ \A f \in Format : f.width > 0 /\ f.width * f.bytes <= f.pitch
  /\ Palette \in Seq(RGB) /\ Desired \subseteq RGB
  /\ Extent \in Nat

-----------------------------------------------------------------------------
(* Pixels.                                                                 *)

\* fb_putpixel; with 24 bits it also writes a fourth byte, as it was.
fb_putpixel(f, x, y) ==
  {f.pitch * y + f.bytes * x + k : k \in 0..(f.bytes - 1)}

\* Mutant: what is left of the line is counted from its beginning.
StepFromStart(f, w) == f.pitch + f.bytes * w

\* From a line of a rectangle to the next: the pointer is one to pixels, but
\* for 24 bits, and has moved by w of them.
Step(f, w) ==
  IF f.bytes = 3 THEN 3 * w + (f.pitch - 3 * w)
  ELSE f.bytes * (w + (f.pitch \div f.bytes - w))

fb_video_fillrect(f, x, y, w, h) ==
  {f.pitch * y + f.bytes * x + i * Step(f, w) + k
     : i \in 0..(h - 1), k \in 0..(f.bytes * w - 1)}

\* With 32 bits also what a line has beyond its pixels.
fb_video_clearto(f) ==
  IF f.bytes = 4 THEN 0..(f.pitch * f.height - 1)
  ELSE UNION {fb_putpixel(f, x, y) : x \in 0..(f.width - 1), y \in 0..(f.height - 1)}

\* ANSI 1J: to the cursor in its line, and the lines above.
fb_video_clear_up(f, cx, cy) ==
  fb_video_fillrect(f, 0, cy * fontheight, (cx + 1) * FONT_WIDTH, fontheight)
    \cup fb_video_fillrect(f, 0, 0, f.width, cy * fontheight)

\* ANSI 0J: from the cursor in its line, and the lines below.
fb_video_clear_down(f, cx, cy) ==
  fb_video_fillrect(f, cx * FONT_WIDTH, cy * fontheight,
                    f.width - cx * FONT_WIDTH, fontheight)
    \cup fb_video_fillrect(f, 0, (cy + 1) * fontheight, f.width,
                           f.height - (cy + 1) * fontheight)

-----------------------------------------------------------------------------
(* Colours, as <<red, green, blue>>.                                       *)

ega_color_defs ==
  << <<0, 0, 0>>, <<0, 0, 170>>, <<0, 170, 0>>, <<0, 170, 170>>,
     <<170, 0, 0>>, <<170, 0, 170>>, <<170, 85, 0>>, <<170, 170, 170>>,
     <<85, 85, 85>>, <<85, 85, 255>>, <<85, 255, 85>>, <<85, 255, 255>>,
     <<255, 85, 85>>, <<255, 85, 255>>, <<255, 255, 85>>, <<255, 255, 255>> >>

color_distance(c, d) ==
  (c[1] - d[1]) * (c[1] - d[1]) + (c[2] - d[2]) * (c[2] - d[2])
    + (c[3] - d[3]) * (c[3] - d[3])

Farther == 4 * 256 * 256

\* The first colour of the table that is nearer than all before it; in text
\* mode the same colour once more does not count.
Closest(table, desired) ==
  LET d(i) == color_distance(desired, table[i])
      nearer[i \in 0..Len(table)] ==
        IF i = 0 THEN [closest |-> 0, best |-> Farther]
        ELSE IF d(i) < nearer[i - 1].best THEN [closest |-> i - 1, best |-> d(i)]
        ELSE nearer[i - 1]
  IN nearer[Len(table)].closest

framebuffer_get_color(f, desired) ==
  CASE f.type = "rgb" -> desired
    [] f.type = "indexed" -> Closest(Palette, desired)
    [] f.type = "ega" -> Closest(ega_color_defs, desired)

-----------------------------------------------------------------------------
(* /dev/fb: its bytes are the lines, without what the pitch adds.          *)

user_pitch(f) == f.width * f.bytes
fb_file_size(f) == f.height * user_pitch(f)

\* What a read or a write at pos moves.
Moved(f, pos, n) ==
  IF pos + n > fb_file_size(f) THEN fb_file_size(f) - pos ELSE n

\* The byte of the framebuffer that the k-th byte moved comes from or goes to:
\* the rest of the first line, then line by line.
Place(f, pos, n, k) ==
  LET start_x == pos % user_pitch(f)
      start_y == pos \div user_pitch(f)
      line == user_pitch(f) - start_x
      first == IF start_x = 0 THEN 0
               ELSE IF line > Moved(f, pos, n) THEN Moved(f, pos, n) ELSE line
      below == IF start_x = 0 THEN start_y ELSE start_y + 1
  IN IF k < first THEN start_y * f.pitch + start_x + k
     ELSE (below + (k - first) \div user_pitch(f)) * f.pitch
            + ((k - first) % user_pitch(f))

\* From the bytes of the program to those of the framebuffer, and back.
fb_write(f, pos, n) == {<<k, Place(f, pos, n, k)>> : k \in 0..(Moved(f, pos, n) - 1)}
fb_read(f, pos, n) == {<<Place(f, pos, n, k), k>> : k \in 0..(Moved(f, pos, n) - 1)}

\* fb_lseek: pos is unsigned, so that what is before the beginning is past
\* the end.
fb_lseek(f, pos, offset, whence) ==
  LET to == CASE whence = "SEEK_SET" -> offset
              [] whence = "SEEK_CUR" -> pos + offset
              [] whence = "SEEK_END" -> fb_file_size(f) + offset
  IN IF to < 0 \/ to > fb_file_size(f) THEN fb_file_size(f) ELSE to

-----------------------------------------------------------------------------
(* What the functions should do.                                           *)

Columns(f) == IF f.type = "ega" THEN f.width ELSE f.width \div FONT_WIDTH
Rows(f) == IF f.type = "ega" THEN f.height ELSE f.height \div fontheight

Pixels(f, X, Y) == UNION {fb_putpixel(f, x, y) : x \in X, y \in Y}

CellPixels(f, cx, cy) ==
  Pixels(f, (cx * FONT_WIDTH)..((cx + 1) * FONT_WIDTH - 1),
            (cy * fontheight)..((cy + 1) * fontheight - 1))

WholeScreen(f) == Pixels(f, 0..(f.width - 1), 0..(f.height - 1))

\* The two clears cover the screen and share the cell of the cursor.
ClearsMeet(f) ==
  \A cx \in 0..(Columns(f) - 1), cy \in 0..(Rows(f) - 1) :
    LET up == fb_video_clear_up(f, cx, cy)
        down == fb_video_clear_down(f, cx, cy)
    IN up \cup down = WholeScreen(f) /\ up \cap down = CellPixels(f, cx, cy)

\* No colour of the table is nearer.
ClosestIsNearest(table) ==
  \A c \in Desired :
    LET i == Closest(table, c) + 1
    IN \A j \in 1..Len(table) :
         /\ color_distance(c, table[i]) <= color_distance(c, table[j])
         /\ color_distance(c, table[i]) = color_distance(c, table[j]) => i <= j

\* A transfer moves the bytes of the file from pos on, as many as there are,
\* between where they are in the framebuffer and the program.
InFramebuffer(f, b) == (b \div user_pitch(f)) * f.pitch + (b % user_pitch(f))

TransferIsFile(f) ==
  \A offset \in (-Extent)..Extent, n \in 0..Extent :
    LET pos == fb_lseek(f, 0, offset, "SEEK_END")
        count == Cardinality(fb_write(f, pos, n))
    IN /\ count = n \/ (count < n /\ pos + count = fb_file_size(f))
       /\ fb_write(f, pos, n) = {<<k, InFramebuffer(f, pos + k)>> : k \in 0..(count - 1)}
       /\ fb_read(f, pos, n) = {<<w[2], w[1]>> : w \in fb_write(f, pos, n)}

\* What f should show: a rectangle is one, clearing up and down is the whole
\* screen, and /dev/fb is the screen line by line.
DrawnRight(f) ==
  f.type # "ega" /\ f.pitch % f.bytes = 0 =>
    /\ ClearsMeet(f)
    /\ WholeScreen(f) \subseteq fb_video_clearto(f)
    /\ fb_video_clearto(f) \subseteq 0..(f.pitch * f.height - 1)
    /\ TransferIsFile(f)

NearestColours(f) ==
  /\ f.type = "indexed" => ClosestIsNearest(Palette)
  /\ f.type = "ega" => ClosestIsNearest(ega_color_defs)
=============================================================================

-------------------------------- MODULE Tty --------------------------------
(***************************************************************************)
(* The terminal (src/arch/x86_64/c/interface/tty.c): the keyboard          *)
(* interrupt pushes characters into a buffer, processes read lines from    *)
(* it, or, in raw mode, whatever there is.                                 *)
(*                                                                         *)
(* tty_read runs with interrupts off, but for the loop in which it waits   *)
(* for a newline: there the keyboard and, through the timer, every other   *)
(* process come in between any two of its tests, and between the last test *)
(* and the instruction that turns interrupts off again.  Module Keyboard   *)
(* puts the steps together with those of the keyboard.                     *)
(***************************************************************************)
EXTENDS Integers, Sequences

CONSTANTS
  Reader,            \* the processes that read
  Key,               \* what is typed; "nl", "cr" and "bs" are special
  Request,           \* the lengths programs ask for
  Termios,           \* the settings programs make: [icanon, icrnl : BOOLEAN]
  BASE_TTY_LENGTH,   \* the first size of the buffer
  UINT16,            \* 2^16: buffer_size and buffer_pos are uint16_t
  MaxPending         \* bound on the characters that wait

ASSUME TtyAssumption ==
  /\ Request \subseteq Nat
  /\ Termios \subseteq [icanon : BOOLEAN, icrnl : BOOLEAN]
  /\ UINT16 \in Nat \ {0} /\ MaxPending \in Nat
  /\ BASE_TTY_LENGTH \in 1..(UINT16 - 1)

VARIABLES
  buffer,        \* the block, its cells numbered from 0
  buffer_size,
  buffer_pos,
  termios,
  stray,         \* buffer_pos has left the block, or a character has
  at,            \* per process: in its program, testing, or done with that
  index,         \* the i of its loop
  want,          \* size * nmemb
  result         \* what the last read returned

ttyVars == <<buffer, buffer_size, buffer_pos, termios, stray>>
readVars == <<at, index, want>>
vars == <<ttyVars, readVars, result>>

Cell == Key \cup {"nl", "zero"}
Block == 0..(UINT16 - 1)

\* buffer_pos is in the block.  When it is not, the terminal reads and writes
\* what is not its own: it is stray, and the model ends there.
Sound == buffer_pos = 0 \/ buffer_pos - 1 \in DOMAIN buffer

\* What waits to be read.
Pending == [k \in 1..(IF Sound THEN buffer_pos ELSE 0) |-> buffer[k - 1]]

Line == INSTANCE TtyLine WITH pending <- Pending, Key <- Cell

\* The model ends when the terminal is stray, and when its buffer has no size, so
\* that the next character would be written outside of it.
Goes == ~stray /\ buffer_size > 0

TypeOK ==
  /\ buffer_size \in Block /\ buffer_pos \in Block
  /\ buffer_size # 0 => buffer \in [0..(buffer_size - 1) -> Cell]
  /\ termios \in [icanon : BOOLEAN, icrnl : BOOLEAN]
  /\ stray \in BOOLEAN
  /\ at \in [Reader -> {"user", "test", "found"}]
  /\ index \in [Reader -> Nat] /\ want \in [Reader -> Nat]
  /\ \A p \in Reader : index[p] <= buffer_size
  /\ \A p \in Reader : at[p] # "user" => want[p] \in Request
  /\ result.count \in Nat /\ result.count <= buffer_size

\* create_tty
Init ==
  /\ buffer = [k \in 0..(BASE_TTY_LENGTH - 1) |-> "zero"]
  /\ buffer_size = BASE_TTY_LENGTH
  /\ buffer_pos = 0
  /\ termios = [icanon |-> TRUE, icrnl |-> TRUE]
  /\ stray = FALSE
  /\ at = [p \in Reader |-> "user"]
  /\ index = [p \in Reader |-> 0]
  /\ want = [p \in Reader |-> 0]
  /\ result = Line!Got("none", 0, <<>>, 0)

-----------------------------------------------------------------------------
(* The keyboard interrupt.                                                 *)

Translated(c) == IF c = "cr" /\ termios.icrnl THEN "nl" ELSE c

Erases(c) == c = "bs" /\ termios.icanon

\* Mutant: the buffer grows a character too late.
FullLate == buffer_pos > buffer_size

Full == buffer_pos >= buffer_size

\* Mutant: the new block does not replace the old one.
GrownNot == {buffer}

\* Blocks twice as long; their second half holds what was there before.
Grown ==
  LET second == buffer_size..(2 * buffer_size - 1)
  IN {[k \in 0..(2 * buffer_size - 1) |-> IF k \in second THEN rest[k] ELSE buffer[k]]
        : rest \in [second -> Cell]}

\* Twice the size is none that a uint16_t can have.
NoSize == 2 * buffer_size >= UINT16

Store(new, c) ==
  \/ /\ buffer_pos \in DOMAIN new
     /\ buffer' = [new EXCEPT ![buffer_pos] = c]
     /\ buffer_pos' = (buffer_pos + 1) % UINT16
     /\ UNCHANGED stray
  \/ /\ buffer_pos \notin DOMAIN new
     /\ stray' = TRUE
     /\ UNCHANGED <<buffer, buffer_pos>>

tty_push(key) ==
  LET c == Translated(key)
  IN /\ Goes
     /\ \/ /\ Erases(c)
           /\ buffer_pos' = IF buffer_pos > 0 THEN buffer_pos - 1 ELSE 0
           /\ UNCHANGED <<buffer, buffer_size, stray>>
        \/ /\ ~Erases(c)
           /\ buffer_pos < MaxPending
           /\ \/ ~Full /\ Store(buffer, c) /\ UNCHANGED buffer_size
              \/ /\ Full /\ ~NoSize /\ (\E new \in Grown : Store(new, c))
                 /\ buffer_size' = 2 * buffer_size
              \/ /\ Full /\ NoSize
                 /\ buffer_size' = (2 * buffer_size) % UINT16
                 /\ UNCHANGED <<buffer, buffer_pos, stray>>
     /\ UNCHANGED <<termios, readVars, result>>

-----------------------------------------------------------------------------
(* Programs.                                                               *)

\* TCSETS
tty_ioctl(t) ==
  /\ Goes
  /\ termios' = t
  /\ UNCHANGED <<buffer, buffer_size, buffer_pos, stray, readVars, result>>

HasLine == \E k \in 1..Len(Pending) : Pending[k] = "nl"

\* As many characters as are asked for, or as there are.
UpTo(n) == IF n < buffer_pos THEN n ELSE buffer_pos

\* Where the loop that copies a line stops.
Stops(n, i) ==
  /\ i < buffer_pos /\ i < n => buffer[i] = "nl"
  /\ \A k \in 0..(i - 1) : buffer[k] # "nl"

\* The newline is copied if it is there; what is there at buffer_pos may be
\* older, or outside the block.
NewlineAt(i) ==
  i \in DOMAIN buffer => buffer[i] = "nl"

MayEndWithout(i) ==
  i \in DOMAIN buffer => buffer[i] # "nl"

\* Mutant: what follows the line is not moved to the front.
ShiftedNot(i) == buffer

\* The characters behind the first i move to the front.
Shifted(i) ==
  [k \in DOMAIN buffer |-> IF k + i < buffer_pos THEN buffer[k + i] ELSE buffer[k]]

\* i characters leave the buffer as the line that was read.
TakeLine(n, i) ==
  /\ buffer' = Shifted(i)
  /\ buffer_pos' = (buffer_pos - i) % UINT16
  /\ result' = Line!Got("line", n,
                 [k \in 1..i |-> IF k - 1 < buffer_pos THEN buffer[k - 1] ELSE "nl"], i)
  /\ stray' = (i > buffer_pos)
  /\ UNCHANGED <<buffer_size, termios>>

CopyLine(n) ==
  \E i \in 0..UpTo(n) :
    /\ Stops(n, i)
    /\ \/ i < n /\ NewlineAt(i) /\ TakeLine(n, i + 1)
       \/ i < n /\ MayEndWithout(i) /\ TakeLine(n, i)
       \/ i = n /\ TakeLine(n, i)

CopyRaw(n) ==
  /\ result' = Line!Got("raw", n, SubSeq(Pending, 1, UpTo(n)), buffer_pos)
  /\ buffer_pos' = 0
  /\ UNCHANGED <<buffer, buffer_size, termios, stray>>

tty_read(p, n) ==
  /\ at[p] = "user" /\ Goes
  /\ \/ /\ termios.icanon /\ HasLine
        /\ CopyLine(n)
        /\ UNCHANGED readVars
     \/ /\ termios.icanon /\ ~HasLine
        /\ at' = [at EXCEPT ![p] = "test"]
        /\ index' = [index EXCEPT ![p] = 0]
        /\ want' = [want EXCEPT ![p] = n]
        /\ UNCHANGED <<ttyVars, result>>
     \/ /\ ~termios.icanon
        /\ CopyRaw(n)
        /\ UNCHANGED readVars

\* Mutant: the last character is not tested.
InReachShort(p) == index[p] + 1 < buffer_pos

InReach(p) == index[p] < buffer_pos

\* One test of the loop; when it has found nothing, schedule() and again.
Test(p) ==
  /\ at[p] = "test" /\ Goes
  /\ \/ /\ InReach(p) /\ buffer[index[p]] = "nl"
        /\ at' = [at EXCEPT ![p] = "found"]
        /\ UNCHANGED index
     \/ /\ InReach(p) /\ buffer[index[p]] # "nl"
        /\ index' = [index EXCEPT ![p] = @ + 1]
        /\ UNCHANGED at
     \/ /\ ~InReach(p)
        /\ index' = [index EXCEPT ![p] = 0]
        /\ UNCHANGED at
  /\ UNCHANGED <<ttyVars, want, result>>

\* Interrupts are off again.
Copy(p) ==
  /\ at[p] = "found" /\ Goes
  /\ CopyLine(want[p])
  /\ at' = [at EXCEPT ![p] = "user"]
  /\ index' = [index EXCEPT ![p] = 0]
  /\ UNCHANGED want

\* The line has been found, and is gone: erased, or read by somebody else.
CopyGone == ~HasLine /\ \E p \in Reader : Copy(p)

\* The block has become twice as long, and its size is none.
SizeWraps == NoSize /\ buffer_size' # buffer_size

-----------------------------------------------------------------------------
(* Properties.                                                             *)

(***************************************************************************)
(* "Copy the newline, if we're there" (tty.c:163): a read takes no more    *)
(* than there is, and leaves the rest.  With two readers of which one has  *)
(* taken the line before the other copies it, it does not                  *)
(* (KeyboardTwo.cfg).                                                      *)
(***************************************************************************)
TakesWhatIsThere == [][buffer_pos' <= buffer_pos + 1]_vars
=============================================================================

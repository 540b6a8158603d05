------------------------------ MODULE Keyboard ------------------------------
(***************************************************************************)
(* The keyboard (src/arch/x86_64/c/drivers/keyboard.c) in front of the     *)
(* terminal: its interrupt turns scancodes into characters, puts them into *)
(* a buffer of its own, from which /dev/kb reads, and hands each to the    *)
(* terminal.                                                               *)
(*                                                                         *)
(* Its buffer is counted by a uint8_t, so that it never gets as long as    *)
(* the 256 bytes it has: the branches that make it longer or shorter       *)
(* (143-147, 214-219) are never taken.  kbd_device_read polls with         *)
(* interrupts off: when the buffer does not hold what it waits for, the    *)
(* machine stands still.                                                   *)
(***************************************************************************)
EXTENDS Tty

CONSTANTS
  Scancode,    \* keys pressed, other than the modifiers
  ShiftKey,    \* of the scancodes 0x2A and 0x36, those the keyboard has
  UINT8,       \* 2^8: keypress_buffer_size is a uint8_t
  KbdRequest   \* the lengths programs ask /dev/kb for

ASSUME KeyboardAssumption ==
  /\ Scancode \subseteq 1..127
  /\ UINT8 \in Nat \ {0} /\ KbdRequest \subseteq Nat

VARIABLES
  shift, caps,
  held,         \* the shift keys that are down
  keypress_buffer,
  typing,       \* the characters of a key that are still to be added
  stuck         \* a read of /dev/kb does not return

keyVars == <<shift, caps, held>>
kbVars == <<keyVars, keypress_buffer, typing, stuck>>
kVars == <<vars, kbVars>>

KInit ==
  /\ Init
  /\ shift = FALSE /\ caps = FALSE /\ held = {}
  /\ keypress_buffer = <<>>
  /\ typing = <<>>
  /\ stuck = FALSE

\* No interrupt handler and no endless loop has the CPU.
Free == typing = <<>> /\ ~stuck

-----------------------------------------------------------------------------
(* The keyboard interrupt.                                                 *)

\* shift once a shift key is released, whether or not the other is down.
ShiftedAfter(k) == FALSE

Press(k) ==
  /\ Free /\ k \in ShiftKey \ held
  /\ held' = held \cup {k}
  /\ shift' = TRUE
  /\ UNCHANGED <<vars, caps, keypress_buffer, typing, stuck>>

Release(k) ==
  /\ Free /\ k \in held
  /\ held' = held \ {k}
  /\ shift' = ShiftedAfter(k)
  /\ UNCHANGED <<vars, caps, keypress_buffer, typing, stuck>>

CapsLock ==
  /\ Free
  /\ caps' = ~caps
  /\ UNCHANGED <<vars, shift, held, keypress_buffer, typing, stuck>>

\* The tables, for one key of each kind: backspace, enter, a digit, a letter.
\* The others of a kind differ in the character only; the rest have none.
kbdcodes == [s \in 1..127 |->
  CASE s = 2 -> "1" [] s = 14 -> "bs" [] s = 28 -> "nl" [] s = 30 -> "a"
    [] OTHER -> "none"]

kbdcodes_shifted == [s \in 1..127 |->
  CASE s = 2 -> "!" [] s = 30 -> "A" [] OTHER -> kbdcodes[s]]

Letter == {30}

\* caps turns the meaning of shift round, for letters.
scancode_to_char(s) ==
  IF shift # (caps /\ s \in Letter) THEN kbdcodes_shifted[s] ELSE kbdcodes[s]

\* The keys without a character; but for the arrows they are unhandled.
Special(s) ==
  CASE s = 72 -> <<"esc", "[", "A">> [] s = 80 -> <<"esc", "[", "B">>
    [] s = 75 -> <<"esc", "[", "D">> [] s = 77 -> <<"esc", "[", "C">>
    [] OTHER -> <<>>

Typed(s) == IF scancode_to_char(s) # "none" THEN <<scancode_to_char(s)>> ELSE Special(s)

\* Key has the characters of the keys that are pressed.
ASSUME CharacterAssumption ==
  \A s \in Scancode :
    /\ {kbdcodes[s], kbdcodes_shifted[s]} \subseteq Key \cup {"none"}
    /\ Special(s) \in Seq(Key)

\* An arrow is three characters.
keyboard_addcode(s) ==
  /\ Free
  /\ buffer_pos + Len(Typed(s)) <= MaxPending
  /\ typing' = Typed(s)
  /\ UNCHANGED <<vars, keyVars, keypress_buffer, stuck>>

\* The size is a uint8_t: the character that makes the buffer full empties it.
Added(c) ==
  IF Len(keypress_buffer) + 1 = UINT8 THEN <<>> ELSE Append(keypress_buffer, c)

\* keyboard_addchar, with tty_addchar_internal
keyboard_addchar ==
  /\ typing # <<>> /\ ~stuck
  /\ tty_push(Head(typing))
  /\ keypress_buffer' = Added(Head(typing))
  /\ typing' = Tail(typing)
  /\ UNCHANGED <<keyVars, stuck>>

-----------------------------------------------------------------------------
(* /dev/kb                                                                 *)

\* What has been read when the first i characters have been popped: a
\* backspace takes the last one back, or is read when there is none.
Read(i) ==
  LET upto[j \in 0..i] ==
        IF j = 0 THEN <<>>
        ELSE LET c == keypress_buffer[j]
                 data == upto[j - 1]
             IN IF c = "bs" /\ data # <<>> THEN SubSeq(data, 1, Len(data) - 1)
                ELSE Append(data, c)
  IN upto[i]

\* The read returns with this character.
Returns(n, i) ==
  LET c == keypress_buffer[i] IN c # "bs" /\ (Len(Read(i)) >= n \/ c = "nl")

kbd_device_read(n) ==
  LET ends == {i \in 1..Len(keypress_buffer) : Returns(n, i)}
  IN /\ Free /\ \E p \in Reader : at[p] = "user"
     /\ \/ /\ ends # {}
           /\ LET i == CHOOSE j \in ends : \A k \in ends : j <= k
              IN keypress_buffer' = SubSeq(keypress_buffer, i + 1, Len(keypress_buffer))
           /\ UNCHANGED stuck
        \/ /\ ends = {}
           /\ stuck' = TRUE
           /\ UNCHANGED keypress_buffer
     /\ UNCHANGED <<vars, keyVars, typing>>

-----------------------------------------------------------------------------
TtyStep ==
  /\ Free
  /\ \/ \E t \in Termios : tty_ioctl(t)
     \/ \E p \in Reader : \E n \in Request : tty_read(p, n)
  /\ UNCHANGED kbVars

KTest(p) == Free /\ Test(p) /\ UNCHANGED kbVars
KCopy(p) == Free /\ Copy(p) /\ UNCHANGED kbVars

KNext ==
  /\ Goes
  /\ \/ \E k \in ShiftKey : Press(k) \/ Release(k)
     \/ CapsLock
     \/ \E s \in Scancode : keyboard_addcode(s)
     \/ keyboard_addchar
     \/ \E n \in KbdRequest : kbd_device_read(n)
     \/ TtyStep
     \/ \E p \in Reader : KTest(p) \/ KCopy(p)

KSpec == KInit /\ [][KNext]_kVars

\* Interrupts are served to their end, and every process gets the CPU again
\* and again between them.
KFairSpec ==
  /\ KSpec
  /\ WF_kVars(keyboard_addchar)
  /\ \A p \in Reader : SF_kVars(KTest(p)) /\ SF_kVars(KCopy(p))

-----------------------------------------------------------------------------
(* Properties.                                                             *)

\* Every buffer holds what its size says, and buffer_pos is in the terminal's.
BuffersSound ==
  /\ TypeOK /\ Sound /\ Goes
  /\ shift \in BOOLEAN /\ caps \in BOOLEAN /\ held \subseteq ShiftKey
  /\ keypress_buffer \in Seq(Key) /\ Len(keypress_buffer) < UINT8
  /\ typing \in Seq(Key)
  /\ stuck \in BOOLEAN

(***************************************************************************)
(* Whatever keys are pressed and whoever reads, the buffers stay sound,    *)
(* and no character is written outside the terminal's (tty.c:178-241,      *)
(* keyboard.c:135-152), but for two steps: a read that has found a line    *)
(* and copies when it is gone (tty.c:153-171), and a buffer that doubles   *)
(* when its size has no room for that (tty.c:224).                         *)
(***************************************************************************)
BuffersKept ==
  /\ BuffersSound
  /\ [][BuffersSound /\ ~BuffersSound' => CopyGone \/ SizeWraps]_kVars

(***************************************************************************)
(* As long as the buffers are sound and but for these two steps, the       *)
(* terminal does what TtyLine says, for keys and a backspace at any time,  *)
(* several readers and changes of the settings while they wait: reads get  *)
(* the lines that were typed, in order and complete (tty.c:122-241).       *)
(***************************************************************************)
IsTtyLine ==
  /\ Line!LineInit
  /\ [][BuffersSound /\ ~CopyGone /\ ~SizeWraps
          => [Line!LineNext]_<<Pending, result>>]_kVars

(***************************************************************************)
(* A read of the terminal that waits returns once there is a newline,      *)
(* unless the newline goes again, a read of /dev/kb has stopped            *)
(* everything, or the terminal has left its buffer (tty.c:139-153).        *)
(***************************************************************************)
LineIsReadOrStuck ==
  \A p \in Reader :
    (at[p] = "test" /\ HasLine) ~> (at[p] = "user" \/ ~HasLine \/ stuck \/ ~Goes)

(***************************************************************************)
(* Nothing is lost from the keyboard's buffer but what is read.  The code  *)
(* loses it all with every 256th character (keyboard.c:150).               *)
(***************************************************************************)
OnlyReadsTake == [][Len(keypress_buffer') < Len(keypress_buffer) => typing' = typing]_kVars
=============================================================================

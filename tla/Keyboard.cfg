\* Two readers of lines; a letter, enter and backspace.  The terminal's buffer
\* grows from one cell to two, and then to a size that is none; the keyboard's
\* wraps with the second character.
CONSTANTS
  p1 = p1
  p2 = p2
  Reader = {p1, p2}
  Key = {"a", "A", "nl", "bs"}
  Request = {1}
  Termios <- Lines
  BASE_TTY_LENGTH = 1
  UINT16 = 4
  MaxPending = 3
  Scancode = {30, 28, 14}
  ShiftKey = {"left"}
  UINT8 = 2
  KbdRequest = {1}
SPECIFICATION KFairSpec
\* A read of /dev/kb may stop everything.
CHECK_DEADLOCK FALSE
PROPERTIES
  BuffersKept
  IsTtyLine
  LineIsReadOrStuck

\* Two readers, of which one takes the line that the other has seen.
CONSTANTS
  p1 = p1
  p2 = p2
  Reader = {p1, p2}
  Key = {"a", "A", "nl", "esc", "["}
  Request = {2}
  Termios <- Lines
  BASE_TTY_LENGTH = 2
  UINT16 = 16
  MaxPending = 3
  Scancode = {30, 28}
  ShiftKey = {"left", "right"}
  UINT8 = 3
  KbdRequest = {2}
SPECIFICATION KSpec
CHECK_DEADLOCK FALSE
PROPERTIES
  TakesWhatIsThere

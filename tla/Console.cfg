\* Sequences of up to five characters in a block of three, six framebuffers, a
\* screen of two lines of two characters.
CONSTANTS
  Format <- Screens
  Screen <- Written_
  FONT_WIDTH = 2
  fontheight = 2
  Palette <- Shades
  Desired <- Asked
  Extent = 25
  Glyph = {"x"}
  Digit = {"1", "2", "3"}
  UINT32 = 8
  SEQUENCE = 3
  MaxLength = 5
\* What happens once something has been drawn outside is not modelled.
CHECK_DEADLOCK FALSE
SPECIFICATION Spec
INVARIANTS
  EscapeSound
  EraseIsExact
  DrawsRight
PROPERTIES
  StaysOnScreen

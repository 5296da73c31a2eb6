CONSTANTS
  Keys = {"rctrl", "lctrl", "alt", "altgr", "a", "space", "up", "pause"}
  Modes = {"ansi", "keycode", "scancode"}
  MaxPresses <- MCMaxPresses
  MaxPort = 1
  Chars <- MCChars
  NUL <- MCNul
  SIZE = 4
SPECIFICATION FairSpec
INVARIANT ModifiersAreHeld
INVARIANT ReadInOrder
PROPERTY KeysRead
CHECK_DEADLOCK FALSE

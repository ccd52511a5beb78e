CONSTANTS
  one = one  two = two  wayland = wayland  x11 = x11
  NoText = NoText
  Texts <- Commands
  Steps <- CommandSteps
  Sources <- KnownBackends
  CopySets <- Apart
  CopyTexts = {one, two}
  QuickTexts = {}
  MaxEvents = 0
  MaxCopies = 1
  Cap = 2
SPECIFICATION SafeSpec
INVARIANT NeverTwice
CHECK_DEADLOCK FALSE

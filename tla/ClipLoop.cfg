CONSTANTS
  one = one  two = two  wayland = wayland  x11 = x11
  NoText = NoText
  Texts <- Commands
  Steps <- CommandSteps
  Sources <- MCSources
  CopySets <- Apart
  CopyTexts = {two}
  QuickTexts = {one}
  MaxEvents = 1
  MaxCopies = 2
  Cap = 1
SPECIFICATION Spec
INVARIANTS TypeOK OneBatch PipelineTellsTheTruth OnlyOldOutputPasses AtMostOncePerCopy
PROPERTIES CopyAtRestRuns LoopSettles
CHECK_DEADLOCK FALSE

CONSTANTS
  here = here  new = new  env = env  out = out
  noDir = noDir  absent = absent  unset = unset  bad = bad
  t0 = t0  t1 = t1  t2 = t2
  Files = {here, new, env}
  Outside = out
  Settings = {env}
  Commands <- MCCommands
  FirstTree <- MCTree
  NoDir = noDir  Absent = absent
  Unset = unset  Bad = bad
  Foreign = t2
  MaxTimeout = 1
  HasPython = TRUE
  MaxStarts = 2  MaxTouches = 2  MaxExits = 1
SPECIFICATION Spec
INVARIANTS TypeOK WrittenIsThere RefusedLeavesNoTrace ProgramToldTruly
PROPERTIES CreateSparesOld TimedCommandsEnd
CHECK_DEADLOCK FALSE

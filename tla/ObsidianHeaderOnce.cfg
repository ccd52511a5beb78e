CONSTANTS
  w1 = w1  w2 = w2  p1 = p1  f1 = f1  f2 = f2
  vault = vault  log = log  notes = notes
  Unset = Unset
  Writers = {w1, w2}
  Publishers = {p1}
  Forms = {f1, f2}
  FormOf <- MCForms
  Config <- MCConfig
  Vaults = {vault}
  Files = {log, notes}
  MaxSecs = 2
SPECIFICATION SafeSpec
INVARIANT HeaderOnce
CHECK_DEADLOCK FALSE

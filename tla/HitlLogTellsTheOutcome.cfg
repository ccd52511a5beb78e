CONSTANTS
  w1 = w1  w2 = w2  dry = dry  bad = bad
  h1 = h1  h2 = h2
  i1 = i1  i2 = i2
  NoCmd = NoCmd
  Cmds <- Writes
  OpOf <- WritesOps
  IdOf <- WritesUnique
  Ids = {i1, i2}
  DryRun = {}
  OpNames <- MCOpNames
  AllowedOps <- MCAllowed
  RequireApproval <- MCRequire
  AutoRejects = {TRUE}
  Timeout = 30
  Posts <- TwoPosts
SPECIFICATION SafeSpec
INVARIANT LogTellsTheOutcome
CHECK_DEADLOCK FALSE

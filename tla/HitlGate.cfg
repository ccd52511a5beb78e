CONSTANTS
  w1 = w1  w2 = w2  dry = dry  bad = bad
  h1 = h1  h2 = h2
  i1 = i1  i2 = i2
  NoCmd = NoCmd
  Cmds <- MCCmds
  OpOf <- MCOps
  IdOf <- MCUnique
  Ids = {i1, i2}
  DryRun <- MCDry
  OpNames <- MCOpNames
  AllowedOps <- MCAllowed
  RequireApproval <- MCRequire
  AutoRejects = {TRUE, FALSE}
  Timeout = 30
  Posts <- TwoPosts
SPECIFICATION Spec
INVARIANTS TypeOK CauseUnderItsId MapHoldsTheWaiting
PROPERTIES GateResolves ClickSettles RefinesGate
CHECK_DEADLOCK FALSE

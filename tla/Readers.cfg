CONSTANTS
  Chars <- MCChars
  Json <- MCJson
  Parts <- MCParts
  Meaning <- MCMeaning
  Requests <- MCRequests
  Order <- MCOrder
  Extension <- MCExtension
  MaxOutput = 5
  MaxView = 3
SPECIFICATION Spec
INVARIANTS CommandsFound NothingInvented ResolveExact ReadShowsRange GrepShowsNeighbours WalkIsComplete TreeIsComplete BrowserOpens
CHECK_DEADLOCK FALSE

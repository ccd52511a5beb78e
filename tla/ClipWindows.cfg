CONSTANTS
  t1 = t1  t2 = t2  short = short  long = long
  w1 = w1  w2 = w2
  Copies = {t1, t2}
  Writers = {w1, w2}
  Answer <- MCAnswer
  Size <- MCSize
  Limit = 3
  Empty = Empty  Nobody = Nobody  Reader = Reader  Other = Other
  ChannelSize = 1
  MaxCopies = 2  MaxOpens = 1
SPECIFICATION Spec
INVARIANTS TypeOK LatestArrives
PROPERTIES WritesDoNotCollide ClipboardComesBack WatchEnds
CHECK_DEADLOCK FALSE

CONSTANTS
  c1 = c1  c2 = c2  b1 = b1  b2 = b2
  Clients <- TwoClients
  Broadcasters <- TwoBroadcasters
  MaxEvents = 2
  Cap = 2
  Nobody = Nobody
SPECIFICATION Spec
INVARIANTS TypeOK NoSendOnClosed InOrder
PROPERTY NobodyHangs
CHECK_DEADLOCK FALSE

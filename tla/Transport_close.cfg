SPECIFICATION TransportFairSpec
CONSTANTS
  r1 = r1
  r2 = r2
  ep0 = ep0
  gpio = gpio
  RequestCalls = {r1, r2}
  Addr = {ep0, gpio}
  EP0 = ep0
  CounterMod = 4
  MaxTxn = 3
  MaxRoutes = 2
INVARIANTS
  NoSendOnClosedChannel
  AnswerIsMine
  PendingInFlight
PROPERTIES
  NobodyWaitsForever
CHECK_DEADLOCK FALSE

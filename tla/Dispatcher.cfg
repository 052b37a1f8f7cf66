SPECIFICATION MCSpec
CONSTANTS
  x1 = x1
  x2 = x2
  gpio = gpio
  q1 = q1
  Stream = {x1, x2}
  Source = {gpio}
  SeqId = {q1}
  Txn = {1, 2}
  Requests <- AllRequests
  Admitted = {x1, x2}
  MaxTicket = 3
  MaxNow = 1
  MaxEvents = 1
  MaxSeq = 2
INVARIANTS
  TypeOK
  OrderMatchesTickets
  PriorityHeld
  EndpointCallsMatchOutcome
PROPERTIES
  OutcomeIsFinal
  SafetyOnlyWhenOpened
  PumpReturns

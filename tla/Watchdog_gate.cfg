SPECIFICATION WatchdogSpec
CONSTANTS
  Stream = {x1}
  Admitted = {x1}
  MaxSeqNum = 0
  Configs = {}
  defCfg <- MCdefCfg
  MaxClock = 2
  Source = {7}
  SeqId = {1}
  Txn = {1}
  Requests <- MCRequests
  MaxNow = 0
  MaxEvents = 0
  MaxSeq = 1
  MaxTicket = 2
PROPERTY SafetyExecutesInSafeState

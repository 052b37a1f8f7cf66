SPECIFICATION MCSpec
CONSTANTS
  x1 = x1
  x2 = x2
  StreamID = {x1, x2}
  Pin = {10}
  Addr = {0, 1, 3}
  ByteRange = 2
  LenRange = 2
  PinEntries = 1
  EpType = {"GPIO"}
  SignalCount <- MCSignalCount
  SignalIndex = {0, 1}
  Limits = {0, 1}
  Queues <- MCQueues
  Blocks <- MCBlocks
  Patches <- MCPatches
  Offsets = {0, 1}
  EP0Writes <- MCEP0Writes
  Timeouts = {0, 2}
  MaxTicks = 3
INVARIANTS
  LockedPinMapPlausible
  FullyConfiguredQueuesFlush
  ClaimExclusive
PROPERTIES
  StepsAreLegal
  LockedRegistersFrozen

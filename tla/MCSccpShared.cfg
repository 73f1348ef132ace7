\* After a reconnection two receive threads decode into one mSccpInfo.
SPECIFICATION Spec
CONSTANTS
  MaxPairs = 2
  Faults = {}
  DataLengths = {}
  OpCodes = {}
  TransIds = {}
INVARIANTS
  ForwardsItsOwn
CHECK_DEADLOCK FALSE

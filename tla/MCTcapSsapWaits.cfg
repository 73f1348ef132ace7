\* One instance whose connection blocks while the application sends.
SPECIFICATION SsapSpec
CONSTANTS
  NumInstances = 1
  MaxDlgSize = 1
  RestorationFlag = FALSE
  Faults = {}
  Busy = {0}
INVARIANT
  DeletedTransUnused
CHECK_DEADLOCK FALSE

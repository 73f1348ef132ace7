\* Two instances, supervised in turn, whose library calls may fail.
SPECIFICATION FairSsapSpec
CONSTANTS
  NumInstances = 2
  MaxDlgSize = 1
  RestorationFlag = FALSE
  Faults = {"create", "connect", "restore"}
  Busy = {0}
INVARIANTS
  TypeOK
  RxUsesLiveSsap
  TransmittersHaveSsap
  OnePairOfThreads
PROPERTIES
  ReconnectsInTheEnd
  TransmissionResumes
CHECK_DEADLOCK FALSE

\* Conversations, what may fail or be lost, and the cleaner's prearranged ends.
SPECIFICATION FairHandlerSpec
CONSTANTS
  t1 = t1
  t2 = t2
  t3 = t3
  rx1 = rx1
  MaxDlgSize = 2
  ShiftIndex = 0
  CountMod = 4
  Content <- MCContent
  NoRecord = NoRecord
  Trans = {t1}
  NoTrans = NoTrans
  Tx = {tx1}
  Rx = {rx1}
  RxOf <- OneRx
  AppQueries = {1}
  IdsRecur = TRUE
  AppKinds = {"QUERY", "CONV", "RESPONSE"}
  NetKinds = {"QUERY", "ABORT", "TIMEOUT"}
  SndTimeOutOnPreEnd = TRUE
  Faults = {"refuse", "build", "send", "ids", "fill", "tell"}
  Cleaner = TRUE
  QueueBound = 1
  InboundBound = 1
PROPERTIES
  OldRecordsGo
  QueriesEnd
CHECK_DEADLOCK FALSE

\* Are ids handed out only when no dialogue uses them?
SPECIFICATION HandlerSpec
CONSTANTS
  t1 = t1
  t2 = t2
  t3 = t3
  rx1 = rx1
  MaxDlgSize = 2
  ShiftIndex = 0
  CountMod = 4
  Content <- MCContent
  NoRecord = NoRecord
  Trans = {t1, t2}
  NoTrans = NoTrans
  Tx = {tx1}
  Rx = {rx1}
  RxOf <- OneRx
  AppQueries = {1}
  IdsRecur = FALSE
  AppKinds = {"CONV"}
  NetKinds = {"QUERY", "RESPONSE"}
  SndTimeOutOnPreEnd = FALSE
  Faults = {}
  Cleaner = FALSE
  QueueBound = 1
  InboundBound = 1
PROPERTIES
  HandsOutFreeIdsOnly
CHECK_DEADLOCK FALSE

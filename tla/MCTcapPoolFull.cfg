\* One id to hand out, more queries than ids, only the application ends, deaf at times.
SPECIFICATION HandlerSpec
CONSTANTS
  t1 = t1
  t2 = t2
  t3 = t3
  rx1 = rx1
  MaxDlgSize = 2
  ShiftIndex = 0
  CountMod = 4
  Content <- MCContent
  NoRecord = NoRecord
  Trans = {t1, t2, t3}
  NoTrans = NoTrans
  Tx = {tx1}
  Rx = {rx1}
  RxOf <- OneRx
  AppQueries = {1}
  IdsRecur = TRUE
  AppKinds = {"QUERY", "CONV", "RESPONSE"}
  NetKinds = {"QUERY", "CONV"}
  SndTimeOutOnPreEnd = FALSE
  Faults = {"tell"}
  Cleaner = FALSE
  QueueBound = 1
  InboundBound = 1
INVARIANTS
  NoOrphanTrans
PROPERTIES
  HandsOutFreeIdsOnly
CHECK_DEADLOCK FALSE

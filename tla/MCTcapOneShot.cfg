\* Dialogues of one query and one answer.
SPECIFICATION FairHandlerSpec
CONSTANTS
  t1 = t1
  t2 = t2
  t3 = t3
  rx1 = rx1
  MaxDlgSize = 4
  ShiftIndex = 0
  CountMod = 8
  Content <- MCContent
  NoRecord = NoRecord
  Trans = {t1, t2}
  NoTrans = NoTrans
  Tx = {tx1}
  Rx = {rx1}
  RxOf <- OneRx
  AppQueries = {1}
  IdsRecur = FALSE
  AppKinds = {"QUERY", "RESPONSE"}
  NetKinds = {"QUERY", "RESPONSE", "TIMEOUT"}
  SndTimeOutOnPreEnd = FALSE
  Faults = {"refuse"}
  Cleaner = FALSE
  QueueBound = 1
  InboundBound = 1
INVARIANTS
  HandlerTypeOK
  NoOrphanTrans
  RecordsHaveTheirTrans
  DeletedOnce
PROPERTIES
  Undisturbed
  EndedTransIsDeleted
CHECK_DEADLOCK FALSE

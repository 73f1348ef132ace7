\* Nine records (odd, so one id belongs to neither range) and a shift of one:
\* five application ids, three allocated ids.
SPECIFICATION Spec
CONSTANTS
  MaxDlgSize = 9
  ShiftIndex = 1
  CountMod = 16
  Content = {r1, r2}
  NoRecord = NoRecord
INVARIANTS
  TypeOK
  IdsInRingOrInUse
  RingShape
  RefusesOnlyWhenFull
  CountIsExact
PROPERTIES
  HandsOutFreeIdsOnly
  ImplementsQueue

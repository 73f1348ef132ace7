\* Two threads and two dialogues; the stack may refuse a component,
\* and processing may end before the message is built.
SPECIFICATION Spec
CONSTANTS
  d1 = d1
  d2 = d2
  tx1 = tx1
  tx2 = tx2
  Dlg = {d1, d2}
  Tx = {tx1, tx2}
  MaxComponents = 3
  MaxMessages = 2
  QueueBound = 2
  Faults = {"return", "add"}
SYMMETRY MCDlgs
INVARIANTS
  TypeOK
  SentWhole
  NothingLeftOver
  NothingSwallowed
CHECK_DEADLOCK FALSE

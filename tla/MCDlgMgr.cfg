\* Six records: three ids the application chooses, three in the ring; processes
\* end between any two writes and start again.
SPECIFICATION MgrSpec
CONSTANTS
  h1 = h1
  h2 = h2
  Process = {h1, h2}
  Thread = {h1, h2}
  ProcessOf <- MCProcessOf
  MaxDlgSize = 6
  CalledIds = {1, 4, 5, 6}
  ShiftIndex = 0
  CountMod = 7
  Content = {r1}
  NoRecord = NoRecord
SYMMETRY MCProcesses
INVARIANTS
  NoIdShared
PROPERTIES
  ImplementsPool

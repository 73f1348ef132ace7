\* Processes end at any moment and start again.
SPECIFICATION FairSpec
CONSTANTS
  h1 = h1
  h2 = h2
  main1 = main1
  tx1 = tx1
  rx1 = rx1
  tx2 = tx2
  rx2 = rx2
  Process = {h1, h2}
  Thread = {main1, tx1, rx1, tx2, rx2}
  ProcessOf <- MCProcessOf
INVARIANTS
  TypeOK
  MutualExclusion
  TakenHasHolder
PROPERTIES
  CallsReturn

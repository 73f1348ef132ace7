\* Two pairs of threads, a link that changes at will, and calls that fail.
SPECIFICATION FairSpec
CONSTANTS
  MaxPairs = 2
  Faults = {"create", "connect", "wild"}
  DataLengths <- MCDataLengths
  OpCodes <- MCOpCodes
  TransIds = {3, 770}
INVARIANTS
  TypeOK
  MarkedWhileReplaced
  ReadsWhatArrives
PROPERTIES
  QuietLinkStays
  BlockedLinkGoes
  MarkedIsReplaced
  HeldGoesOn
CHECK_DEADLOCK FALSE

SPECIFICATION FairSpec
CONSTANTS
  f1 = f1
  f2 = f2
  f3 = f3
  dirA = dirA
  dirB = dirB
  recR = recR
  recS = recS
  projA = projA
  projB = projB
  NoMinor = NoMinor
  Fetchers = {f1, f2, f3}
  Paths = {dirA, dirB, recR, recS}
  Destination <- MCDestination
  Receipt <- MCReceipt
  Misplaced = {}
  Locks <- MCLocks
  Target <- MCTarget
  Offered <- MCOffered
  FaultSets <- MCFaultSets
  MaxEdits = 1
  MaxForeign = 1
INVARIANTS TypeOK ReceiptVouches FailureIsClean LosesToAnother
PROPERTIES RemovesOwnOnly SomeoneFetches

SPECIFICATION Spec
CONSTANTS
  new = new  two = two  old = old  bad = bad  NoHeader = NoHeader
  Sets <- MCSets
  Threshold <- MCThreshold
  Shares <- MCShares
  Version <- MCVersion
  Damaged = {bad}
  LongestOfAny = 3  LongestOfFew = 3  LongestVerified = 3
  Redraws = 2
  Inputs <- FewList
  MaxRecoveryCombinations = 3
INVARIANTS DuplicatesReported

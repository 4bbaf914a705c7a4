SPECIFICATION Spec
CONSTANTS
  new = new  two = two  old = old  bad = bad  NoHeader = NoHeader
  Sets <- MCSets
  Threshold <- MCThreshold
  Shares <- MCShares
  Version <- MCVersion
  Damaged = {bad}
  LongestOfAny = 4  LongestOfFew = 5  LongestVerified = 3
  Redraws = 4
  Inputs <- MCInputs
  MaxRecoveryCombinations = 3
INVARIANTS TypeOK RecoversTheOnlySet BoundedWork ReportExact VerifiedRecovers
PROPERTY ImplementsOneAnswer

SPECIFICATION FairSpec
CONSTANTS
  b1 = b1  b2 = b2  reviewed = reviewed  stray = stray
  w1 = w1  w2 = w2  w3 = w3
  Garbage = Garbage  Bent = Bent  Nobody = Nobody  None = None
  Builders = {b1, b2}
  Sources = {reviewed, stray}
  Reviewed = reviewed
  Wheelhouses = {w1, w2, w3}
  Approves <- MCApproves
  Supplied = {w1}
  Variants = {1}
  MayFail = FALSE
  MaxFaults = 0
  MaxChanges = 2
  MaxCrashes = 1
INVARIANTS TypeOK BuiltByApprovedTools FailsOnlyBeaten
PROPERTIES NeverReplaces NotBlockedByCrash

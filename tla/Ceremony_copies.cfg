SPECIFICATION Spec
CONSTANTS
  b1 = b1  b2 = b2  reviewed = reviewed  stray = stray
  w1 = w1  w2 = w2  w3 = w3
  Garbage = Garbage  Bent = Bent  Nobody = Nobody  None = None
  Builders = {b1}
  Sources = {reviewed, stray}
  Reviewed = reviewed
  Wheelhouses = {w1, w2, w3}
  Approves <- MCApproves
  Supplied = {w1, w2, w3}
  Variants = {1, 2}
  MayFail = TRUE
  MaxFaults = 3
  MaxChanges = 0
  MaxCrashes = 0
INVARIANTS OneIntactCopySuffices ProvenanceTells

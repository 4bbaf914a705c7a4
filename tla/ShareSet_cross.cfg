SPECIFICATION Spec
CONSTANTS
  cmd = cmd  cmd2 = cmd2  twice = twice  word = word  wiz = wiz  prior = prior
  ann = ann  out = out  side = side  Empty = Empty  NoStem = NoStem
  Paths <- FourPaths
  Runs <- CrossRuns
  Threshold <- CrossK
  Shares <- CrossN
  GivenLabels <- CrossLabels
  ManifestAt <- CrossManifests
  Secret <- CrossSecret
  Wizards <- OnlyWiz
  Forced <- OnlyTwice
  Slip39 <- OnlyWord
  Earlier = {}
  Directories = {out, side}
  Directory <- MCDirectory
  InitOld <- OutOrNone
  SyncedDirs = {out}
  MaxRecoveryCombinations = 5
  MaxFaults = 2
  MaxMeddling = 0
  MaxCrashes = 1
INVARIANTS TypeOK AllOrNothing VouchedIsComplete

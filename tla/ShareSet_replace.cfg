SPECIFICATION Spec
CONSTANTS
  cmd = cmd  cmd2 = cmd2  twice = twice  word = word  wiz = wiz  prior = prior
  ann = ann  out = out  side = side  Empty = Empty  NoStem = NoStem
  Paths <- SixPaths
  Runs <- ReplaceRuns
  Threshold <- ReplaceK
  Shares <- ReplaceN
  GivenLabels <- ReplaceLabels
  ManifestAt <- ReplaceManifests
  Secret <- ReplaceSecret
  Wizards <- OnlyWiz
  Forced <- BothCmds
  Slip39 = {}
  Earlier <- OnlyPrior
  Directories = {out, side}
  Directory <- MCDirectory
  InitOld <- OnlyOut
  SyncedDirs = {side}
  MaxRecoveryCombinations = 5
  MaxFaults = 2
  MaxMeddling = 1
  MaxCrashes = 1
INVARIANTS ReplacementKeepsASet VerifiedUntouched

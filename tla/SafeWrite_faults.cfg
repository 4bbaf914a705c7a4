SPECIFICATION Spec
CONSTANTS
  w1 = w1  w2 = w2  f1 = f1
  Writers <- Calls
  Forced <- OnlyF1
  InitDirs <- AnyDir
  DirFsync = TRUE
  FaultSets <- AnyFault
  EnvMayRemove = TRUE
  MaxEnvMoves = 1
  MaxCrashes = 1
INVARIANTS TypeOK NeverTorn
PROPERTIES NoClobber ImplementsPublication
SYMMETRY Symmetry

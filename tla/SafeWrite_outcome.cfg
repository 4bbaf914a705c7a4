SPECIFICATION FairSpec
CONSTANTS
  w1 = w1  w2 = w2  f1 = f1
  Writers <- Calls
  Forced <- OnlyF1
  InitDirs <- AnyDir
  DirFsync = TRUE
  FaultSets <- NoneOrErrors
  EnvMayRemove = FALSE
  MaxEnvMoves = 1
  MaxCrashes = 1
INVARIANTS DurableWhenDone TempRemoved RefusedForAReason
PROPERTIES SomeoneWins

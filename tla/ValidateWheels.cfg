SPECIFICATION FairSpec
CONSTANTS
  p = p  a = a  b = b  x = x  y = y  NoExtra = NoExtra
  Names <- MCNames
  Extras <- MCExtras
  Inputs <- MCInputs
INVARIANTS TypeOK AcceptsExactly
PROPERTIES Terminates

CONSTANTS
  Values <- MCValues
  Code <- MCCode
  Servers = {p, q}
  ServerArgs <- MCServerArgs
  ClientArgs <- MCClientArgs
  Lines <- MCLines
  Levels <- MCLevels
  MaxEntered = 4
SYMMETRY MCSymmetry
SPECIFICATION Spec
INVARIANTS
  TypeOK
  FlagsAgree
  SomebodyIsReached
  PutNeverMisfiles
  
  
CHECK_DEADLOCK FALSE

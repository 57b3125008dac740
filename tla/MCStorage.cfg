CONSTANTS
  a = a
  b = b
  none = none
  runtime = runtime
  runtimes = runtimes
  x = x
  y = y
  Keys <- MCKeys
  Values <- MCValues
  EmptySegment = none
  RuntimePrefixed <- MCRuntimePrefixed
  Partial = Partial
  NoFile = NoFile
SPECIFICATION Spec
 
PROPERTY ImplementsEngine

CONSTANTS
  a = a
  b = b
  star = star
  bstar = bstar
  x = x
  y = y
  NoValue = NoValue
  Wildcard = star
  Starred <- MCStarred
  Segments <- MCSegments
  Keys <- MCKeys
  Values <- MCValues
SPECIFICATION Spec
INVARIANTS
  InsertAgrees
  RemoveAgrees
  NoDeadBranches
  GetAgrees
  CapturedAgrees

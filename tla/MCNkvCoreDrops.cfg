CONSTANTS
  a = a
  b = b
  star = star
  astar = astar
  newline = newline
  u = u
  v = v
  x = x
  empty = empty
  Wildcard = star
  Starred <- MCStarred
  Keys <- MCSubtreeKeys
  Malformed <- MCMalformed
  Uuids <- MCUuids
  Values <- MCOneValue
  Empty = empty
  Durable <- MCDataKeys
  Drops = TRUE
  IOErrors = FALSE
SYMMETRY ClientSymmetry
SPECIFICATION Spec
INVARIANTS
  CloseEndsSubscription
  AckedDeleteIsComplete

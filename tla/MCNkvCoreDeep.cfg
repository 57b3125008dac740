CONSTANTS
  a = a
  b = b
  star = star
  astar = astar
  newline = newline
  u = u
  v = v
  x = x
  empty = empty
  Wildcard = star
  Starred <- MCStarred
  Keys <- MCDeepKeys
  Malformed <- MCMalformed
  Uuids <- MCOneUuid
  Values <- MCOneValue
  Empty = empty
  Durable <- MCDeepDataKeys
  Drops = TRUE
  IOErrors = FALSE
SPECIFICATION Spec
INVARIANTS
  AckedDeleteIsComplete

CONSTANTS
  a = a
  b = b
  star = star
  astar = astar
  newline = newline
  u = u
  v = v
  x = x
  empty = empty
  Wildcard = star
  Starred <- MCStarred
  Keys <- MCKeys
  Malformed <- MCMalformed
  Uuids <- MCUuids
  Values <- MCValues
  Empty = empty
  Durable <- MCDataKeys
  Drops = FALSE
  IOErrors = TRUE
SYMMETRY ClientSymmetry
SPECIFICATION Spec
INVARIANTS
  TypeOK
  StorageIndexed
  NoSilentUnsubscribe
  SubscriberSeesLatest
  
PROPERTY
  ImplementsKVStore

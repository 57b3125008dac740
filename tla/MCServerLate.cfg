CONSTANTS
  a = a
  star = star
  u = u
  v = v
  x = x
  Wildcard = star
  Starred <- MCStarred
  Keys <- MCKeys
  Malformed = {}
  Uuids <- MCUuids
  Values <- MCValues
  Empty = x
  Durable <- MCDurable
  IOErrors = FALSE
  Requests <- MCSubscriptions
  MaxConns = 2
  Stalls = FALSE
  Breaks = FALSE
  Stops = FALSE
SPECIFICATION FairSpec
PROPERTIES
  SubscribersLearn
CHECK_DEADLOCK FALSE

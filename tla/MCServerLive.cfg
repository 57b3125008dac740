CONSTANTS
  a = a
  star = star
  u = u
  v = v
  x = x
  Wildcard = star
  Starred <- MCStarred
  Keys <- MCKeys
  Malformed = {}
  Uuids <- MCUuids
  Values <- MCValues
  Empty = x
  Durable <- MCDurable
  IOErrors = FALSE
  Requests <- MCSubscriptions
  MaxConns = 3
  Stalls = TRUE
  Breaks = FALSE
  Stops = TRUE
SPECIFICATION FairSpec
PROPERTIES
  ImplementsService
  EveryRequestEnds
  ReadersKeepUp
CHECK_DEADLOCK FALSE

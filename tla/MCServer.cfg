CONSTANTS
  a = a
  star = star
  u = u
  v = v
  x = x
  Wildcard = star
  Starred <- MCStarred
  Keys <- MCKeys
  Malformed = {}
  Uuids <- MCUuids
  Values <- MCValues
  Empty = x
  Durable <- MCDurable
  IOErrors = TRUE
  Requests <- MCAllRequests
  MaxConns = 3
  Stalls = TRUE
  Breaks = TRUE
  Stops = FALSE
SPECIFICATION Spec
INVARIANTS
  TypeOK
  EverySubscriptionIsRead
  ChannelIsCurrent
  
PROPERTIES
  ImplementsService
CHECK_DEADLOCK FALSE

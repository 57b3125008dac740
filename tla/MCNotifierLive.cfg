CONSTANTS
  u = u
  v = v
  Uuids <- MCUuids
  MaxMsgs = 2
  MaxStreams = 2
  Stalls = FALSE
SPECIFICATION FairCastSpec
PROPERTIES
  NewestIsBroadcast
  BroadcastsEnd

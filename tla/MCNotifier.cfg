CONSTANTS
  u = u
  v = v
  Uuids <- MCUuids
  MaxMsgs = 2
  MaxStreams = 3
  Stalls = TRUE
SYMMETRY ClientSymmetry
SPECIFICATION Spec
INVARIANTS
  TypeOK
  BufferIsLatestRegister
  AtMostOnce
  NothingAfterClose

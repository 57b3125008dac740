CONSTANTS
  k = k
  Keys <- MCKeys
  MaxNews = 4
  MaxFaults = 3
  MaxSubs = 2
  Unreadable <- MCUnreadable
SPECIFICATION FairSpec
INVARIANTS
  TypeOK
  NothingIsLost
PROPERTIES
  
  EverythingSettles
CHECK_DEADLOCK FALSE

SPECIFICATION Spec
CONSTANTS
  Mmsi = {m1}
  Ttl = 2
  Interval = 1
  WarmTimeout = 1
  Ring = 2
  MaxTime = 4
  MaxMessages = 3
  MaxRestarts = 1
INVARIANTS
  CatchesUp
  HeardVesselsStay
  NoGhosts
PROPERTIES
  LiveWins
CHECK_DEADLOCK FALSE

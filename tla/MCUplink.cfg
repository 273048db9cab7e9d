SPECIFICATION UplinkSpec
CONSTANTS
  MaxFragments = 3
  Ttl = 1
  MaxTime = 6
  SeqWrap = 5
  SeqBase = 2
  SweepPeriod = 2
  KeepFor = 3
  Regimes = {"reliable", "lossy", "udp", "single"}
  Frames <- MCFrames
  MaxMessages = 7
  MaxLossy = 3
  MaxFeedTime = 3
  MaxLink = 3
  MaxForeign = 1
INVARIANTS
  CountersAgree
  FragmentsWithinTtl
  GroupsAreWhole
  NothingLost
  FramesSurvive
CHECK_DEADLOCK FALSE

SPECIFICATION ServiceSpec
CONSTANTS
  User = {u1, u2}
  Key = {k1, k2}
  Link = {l1}
  Window = 2
  Throttle = 1
  LinkTtl = 1
  Concerns = {{"roles"}, {"links"}, {"keys"}}
  MaxTime = 3
  MaxRequests = 2
  Browser = {u1, u2}
  Flow = {"f", "g", "h"}
  Identity = {"g", "h", "o"}
  ProviderOf <- MCProviderOf
  Address = {"a@", "A@"}
  LowerCase <- MCLowerCase
  MaxCallbacks = 2
  Caller = {u1, u2}
  Imo = {k1, k2}
  PositiveTtl = 2
  NegativeTtl = 1
  Client = {u1, u2}
  Ttl = 2
  Width = 16
  MaxNow = 5
SYMMETRY Symmetry
INVARIANTS
  AdminsRemain
  LinksWorkOnce
  TierFollowsFeeding
  OneAccountPerAddress
  IdentitiesStay
  FlowsEndWhereTheyStart
  AnswersAreRecent
  CoverageIsRecent
PROPERTIES
  GridsNeverGoBack
CHECK_DEADLOCK FALSE

\* One phone and one product, so that leases and tokens are what varies.
SPECIFICATION FairSpec
CONSTANTS
  m1 = m1  m2 = m2  d1 = d1  d2 = d2  k1 = k1  s1 = s1  a1 = a1
  None = None
  Mid = {m1}
  Product = {m1}
  Store = {}
  StoreOf <- NoShop
  Device = {d1}
  Keyword = {}
  MaxTaskId = 3
  MaxToken = 2
  MaxAge = 3
  TaskTimeout = 1
  MinAge = 1
  Target <- TwoHits
  Legacy = {}
  Dedicated = {}
  Site = {}
  SitesOf <- NoSites
  GroupSites <- AllGroups
  StoreCooldown = 0
  QuarantineWindow = 0
  QuarantineFails = 5
  MaxHits = 1
INVARIANTS
  TypeOK
  NoOverdueBesideFresh
  TokenUseMatchesTasks
  MatureWhenUsed
PROPERTIES
  SettledIsNotReopened
  EveryTaskSettles

\* The row of the day is closed one hit early.
SPECIFICATION Spec
CONSTANTS
  m1 = m1  m2 = m2  d1 = d1  d2 = d2  k1 = k1  s1 = s1  a1 = a1
  None = None
  Mid = {m1}
  Product = {m1}
  Store = {}
  StoreOf <- NoShop
  Device = {d1}
  Keyword = {}
  MaxTaskId = 1
  MaxToken = 1
  MaxAge = 1
  TaskTimeout = 0
  MinAge = 1
  Target <- TwoHits
  Legacy = {}
  Dedicated = {}
  Site = {}
  SitesOf <- NoSites
  GroupSites <- AllGroups
  StoreCooldown = 0
  QuarantineWindow = 0
  QuarantineFails = 5
  MaxHits = 2
INVARIANTS
  CompletedMeansReached

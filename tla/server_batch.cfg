\* Two phones, two products of one shop and different sites: cooldown, quarantine after one failure, dropped keywords, a closed day and the older catalogue all happen.
SPECIFICATION Spec
CONSTANTS
  m1 = m1  m2 = m2  d1 = d1  d2 = d2  k1 = k1  s1 = s1  a1 = a1
  None = None
  Mid = {m1, m2}
  Product = {m1, m2}
  Store = {s1}
  StoreOf <- OneShop
  Device = {d1, d2}
  Keyword = {k1}
  MaxTaskId = 2
  MaxToken = 2
  MaxAge = 1
  TaskTimeout = 0
  MinAge = 1
  Target <- OneHit
  Legacy = {m1}
  Dedicated = {m1}
  Site = {a1}
  SitesOf <- SiteOfM2
  GroupSites <- GroupOfD1
  StoreCooldown = 0
  QuarantineWindow = 0
  QuarantineFails = 1
  MaxHits = 2
PROPERTIES
  NeverStarved
  BatchIsOneToOne
  GroupIsServedFirst

\* Both generations of the API on the same tables: one phone, one product.
SPECIFICATION BothSpec
CONSTANTS
  m1 = m1  m2 = m2  d1 = d1  d2 = d2  k1 = k1  s1 = s1  a1 = a1
  None = None
  Mid = {m1}
  Product = {m1}
  Store = {}
  StoreOf <- NoShop
  Device = {d1, d2}
  Keyword = {}
  MaxTaskId = 2
  MaxToken = 2
  MaxAge = 1
  TaskTimeout = 0
  MinAge = 1
  Target <- TwoHits
  Legacy = {}
  Dedicated = {}
  Site = {}
  SitesOf <- NoSites
  GroupSites <- AllGroups
  StoreCooldown = 0
  QuarantineWindow = 0
  QuarantineFails = 5
  MaxHits = 1
  Listed = {m1}
  ListedActive = {m1}
INVARIANTS
  RowsEndAtNextId

\* Two runners with a phone each, one of them with a watchdog; one product, every request sent up to twice.
SPECIFICATION RunnerSpec
CONSTANTS
  m1 = m1  m2 = m2  d1 = d1  d2 = d2  n1 = n1  n2 = n2
  None = None
  Node = {n1, n2}
  Lte = {n1}
  PhonesOf <- OneEach
  Mid = {m1}
  Product = {m1}
  Device = {d1, d2}
  MaxTaskId = 2
  Endings = {"SUCCESS", "FAILED"}
  Attempts = 2
  MaxMains = 2
  Delays = FALSE
  SkipFrom = 9
  Target <- OneHit
  MaxToken = 1
  Exclusions = {{}}
  Store = {}
  StoreOf <- NoShop
  Keyword = {}
  MaxAge = 1
  TaskTimeout = 0
  MinAge = 1
  Legacy = {}
  Listed = {}
  ListedActive = {}
  Dedicated = {}
  Site = {}
  SitesOf <- NoSites
  GroupSites <- AllGroups
  StoreCooldown = 0
  QuarantineWindow = 0
  QuarantineFails = 5
INVARIANTS
  RunnerTypeOK
  OneJobPerPhone

  

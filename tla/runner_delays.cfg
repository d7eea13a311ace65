\* One runner, requests are lost or abandoned; abandoned requests may still arrive; the second id is taken for a harvest task.
SPECIFICATION RunnerFairSpec
CONSTANTS
  m1 = m1  m2 = m2  d1 = d1  d2 = d2  n1 = n1  n2 = n2
  None = None
  Node = {n1}
  Lte = {n1}
  PhonesOf <- OnlyD1
  Mid = {m1}
  Product = {m1}
  Device = {d1}
  MaxTaskId = 2
  Endings = {"SUCCESS", "FAILED"}
  Attempts = 2
  MaxMains = 2
  Delays = TRUE
  SkipFrom = 2
  Target <- TwoHits
  MaxToken = 1
  Exclusions = {{}}
  Store = {}
  StoreOf <- NoShop
  Keyword = {}
  MaxAge = 1
  TaskTimeout = 0
  MinAge = 1
  Legacy = {}
  Listed = {}
  ListedActive = {}
  Dedicated = {}
  Site = {}
  SitesOf <- NoSites
  GroupSites <- AllGroups
  StoreCooldown = 0
  QuarantineWindow = 0
  QuarantineFails = 5
INVARIANTS
  AckedIsRecorded
  HitsAreEarned
  RunningIsWorking
PROPERTIES
  CycleReturns

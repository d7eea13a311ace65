\* Quarantine and hits over cycles, a midnight, a restart and lost results.
SPECIFICATION FairSpec
CONSTANTS
  d1 = d1
  Phone <- MCPhone
  Products = 2
  Keywords <- TwoAndOne
  Short <- Shortened
  Catalogue <- Second_
  FailLimit = 2
  HitCap = 2
  KwCap = 1
  ReleaseAge = 1
  LogAge = 2
  Lookback = 1
  ExcludeCap = 1
  Permanent <- None_
  TopExcluded <- None_
  MaxAge = 2
  MaxLosses = 1
  MaxNights = 1
  MaxKills = 1
INVARIANTS
  TypeOK
  QuarantineIsEarned
  CountsAgreeWithFile
  DailyCapHolds
PROPERTY
  QuarantineEnds

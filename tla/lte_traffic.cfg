\* One midnight, one reset of the counters, every report sent twice at most.
SPECIFICATION Spec
CONSTANTS
  Attempts = 2
  MaxBytes = 2
  MaxLog = 3
  MaxNights = 1
  MaxResets = 1
INVARIANTS
  TypeOK
  NeverMoreThanUsed
  ShortByFirstSession
  CountMatchesLog
CONSTRAINT
  DayIsFollowed

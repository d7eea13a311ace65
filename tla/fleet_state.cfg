\* main and the workers of two phones on one state file.
SPECIFICATION Spec
CONSTANTS
  Phones = 2
  Buffer = 2
  MainUpdates = 3
  WorkUpdates = 1
INVARIANTS
  TypeOK
  OneWriterIsExact
  GlobalNeverGoesBack

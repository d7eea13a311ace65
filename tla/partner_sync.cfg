\* Two sites with a slot each and two products; two slots exceed the cap.
SPECIFICATION Spec
CONSTANTS
  Site = {s1, s2}
  Mids = 2
  Ids = {1}
  SlotHits = {2}
  Unit = 2
  Cap = 3
  MaxSlots = 2
  MaxHits = 1
  MaxSyncs = 2
  MaxNights = 1
  MaxAdmin = 1
SYMMETRY Symmetric
INVARIANTS
  TypeOK
  TargetsMatchSlots
  TodayFollowsTarget
PROPERTY
  HitsStay

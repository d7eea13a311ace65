\* Two runners, one product of two hits, every report sent up to three times.
SPECIFICATION Spec
CONSTANTS
  Runner = {n1, n2}
  Item = {m1}
  Attempts = 3
  Goal <- TwoHits
SYMMETRY Symmetric
INVARIANTS
  WithinLease
  OvershootIsBounded

CONSTANTS
  us = us
  gb = gb
  s1 = s1
  a1 = a1
  b1 = b1
  b2 = b2
  Territory = {us, gb}
  Price = {2, 5}
  Sync = {s1}
  Apply = {a1}
  MaxEdits = 1
  SubPrices = {2, 4, 6}
  SubApplies = {b1, b2}
SPECIFICATION MCSpec
SYMMETRY MCSymmetry
INVARIANTS
  BaseIsSent
  PaysMoreOnlyIfMisled
PROPERTIES
  OnlyUncachedPricesAreLost
  FreshApplyIsExact
  EmptyCacheNeverWipes
  LeavesBandOnlyIfMisjudged

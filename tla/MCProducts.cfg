CONSTANTS
  r1 = r1
  r2 = r2
  t1 = t1
  k1 = k1
  k2 = k2
  x1 = x1
  x2 = x2
  Run = {r1, r2}
  MaxActive = 1
  Territory = {t1}
  Key = {k1, k2}
  Source <- MCSource
  Scopes <- MCScopes
  ProductNames = {"a", "b"}
  MaxProducts = 2
  MaxCatalogCalls = 3
  Products = {x1, x2}
  Locales = {"th", "pt-PT", "pt-BR"}
  Lang <- MCLang
  Canon <- MCCanon
  MaxParts = 3
  MaxCalls = 2
  e1 = e1
  e2 = e2
  p1 = p1
  p2 = p2
  o1 = o1
  o2 = o2
  c1 = c1
  c2 = c2
  SwapsAtOnce = 2
  Entitlement = {e1, e2}
  Package = {p1, p2}
  Offering = {o1, o2}
  OfferingOf <- MCOfferingOf
  Held <- MCHeld
  RcProducts = {p1}
  RC_RETRIES = 2
  MaxPages = 2
  MaxRcCalls = 3
  Campaigns = {c1, c2}
  MAX_TRIES = 2
  MaxDay = 2
  MaxThings = 1
  MaxAdCalls = 3
SYMMETRY Symmetry
CHECK_DEADLOCK FALSE
SPECIFICATION AllSpec
INVARIANTS
  CleanCloneIsComplete
  OffSaleIsReported
  CatalogMirrors
  AnsweredIsThere
  CleanSwapMovesWhatItFound
  LossIsReported
  OneSecret
  CallSaysWhatWasDone
  AccountIsMirrored
PROPERTY
  HandsOver

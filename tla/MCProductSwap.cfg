CONSTANTS
  r1 = r1
  r2 = r2
  t1 = t1
  k1 = k1
  e1 = e1
  p1 = p1
  o1 = o1
  Run = {r1, r2}
  MaxActive = 1
  Territory = {t1}
  Key = {k1}
  Source <- MCSource
  Scopes <- MCScopes
  Entitlement = {e1}
  Package = {p1}
  Offering = {o1}
  OfferingOf <- MCOfferingOf
  Held <- MCHeld
  Connected = TRUE
SPECIFICATION MCSpec
INVARIANTS
  RcFollowsApple
  CommittedRowIsTrue
CHECK_DEADLOCK FALSE
PROPERTY
  EveryRequestEnds

CONSTANTS
  u1 = u1
  u2 = u2
  del1 = del1
  del2 = del2
  t1 = t1
  t2 = t2
  t3 = t3
  User = {u1, u2}
  Call = {del1, del2}
  Token = {t1, t2, t3}
  MaxPending = 1
  Ttl = 2
  MaxTime = 3
  Requests = {"a", "b"}
  MAX_RETRIES = 3
  MaxConns = 3
  Runs = {"a", "b", "c"}
  Pages = {1, 2}
  MaxCalls = 4
  Apps = {"a", "b", "c"}
  Reviews = {"x", "y", "z"}
  Asks = {p1, p2}
  p1 = p1
  p2 = p2
  MaxReplies = 2
  MaxAsked = 2
SPECIFICATION MCSpec
SYMMETRY MCSymmetry
CHECK_DEADLOCK FALSE
INVARIANTS
  AnswerIsTrue
  LadderIsWhole
PROPERTIES
  KeepsPromise

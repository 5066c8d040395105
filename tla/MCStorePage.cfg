CONSTANTS
  en = en
  de = de
  src = src
  fr = fr
  it = it
  a = a
  b = b
  r1 = r1
  r2 = r2
  prop1 = prop1
  prop2 = prop2
  exp1 = exp1
  exp2 = exp2
  k1 = k1
  k2 = k2
  n1 = n1
  Locales = {en, de}
  Values = {a, b}
  BulkFields <- MCBulkFields
  MaxOps = 2
  Requests = {r1, r2}
  Proposals = {prop1, prop2}
  Source = src
  OtherLocales <- MCOtherLocales
  MaxPack = 1
  Cap = 2
  Calls = 2
  Exps = {exp1, exp2}
  Files <- MCFiles
  MAX_TREATMENTS = 1
  MaxSubs = 2
  MaxCalls = 2
  Keywords = {k1, k2}
  PageLocales = {"en", "de"}
  Seed = "en"
  Names = {n1}
  MAX_SCREENSHOT_FILES = 2
  MaxEdits = 3
SPECIFICATION MCSpec
CHECK_DEADLOCK FALSE
INVARIANTS
  MirrorIsTrue
  ReportsTheTruth
  BatchesAddUp
  SubmitIsClean
  KeywordsBetween
  NoHalfPages
  SlotIsExact
PROPERTIES
  BuysWithinQuota
  CleansUpItsOwn
SYMMETRY Symmetry
